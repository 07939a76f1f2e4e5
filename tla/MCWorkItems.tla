----------------------------- MODULE MCWorkItems -----------------------------
(***************************************************************************)
(* Instances of WorkItems for TLC.                                         *)
(***************************************************************************)
EXTENDS WorkItems, TLC

CONSTANTS i1, s1, s2, s3, h1, h2

\* s1 and s2 share a process, s3 runs in another.
ThreeSlots == s1 :> h1 @@ s2 :> h1 @@ s3 :> h2
=============================================================================
