--------------------------- MODULE MCOutboxDelivery ---------------------------
(***************************************************************************)
(* Instances of OutboxDelivery for TLC.                                    *)
(***************************************************************************)
EXTENDS OutboxDelivery, TLC

CONSTANTS f1, s1, s2, h1, h2, metrics, release

TwoSlots == s1 :> h1 @@ s2 :> h2

\* A rolling deployment: h1 runs a release without the second consumer.
Rolling == h1 :> {metrics} @@ h2 :> {metrics, release}
\* A process that has registered nothing.
HalfDeployed == h1 :> {} @@ h2 :> {metrics}
=============================================================================
