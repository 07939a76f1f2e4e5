----------------------------- MODULE FactDelivery -----------------------------
(***************************************************************************)
(* What the outbox promises of a recorded fact, without ledger, relay,     *)
(* leases, receipts or processes (src/shared/outbox): each consumer of the *)
(* first kind, "exact", has it at most once, by effect or by a recorded    *)
(* denial; the others may repeat their effect; a fact counts as delivered  *)
(* only when every catalogued consumer has had it; and a fact stopped by   *)
(* the recovery fence reaches nobody.                                      *)
(***************************************************************************)
EXTENDS Naturals

CONSTANTS Facts, Consumers, Catalogue, Exact, MaxRepeats

VARIABLES
  fate,     \* what became of each fact
  effects,  \* per fact and consumer, how often it took effect
  waived    \* per fact, the consumers denied it for good

factVars == <<fate, effects, waived>>

Fate == {"unrecorded", "open", "delivered", "stopped"}

Had(f, c) == effects[f][c] > 0 \/ c \in waived[f]

\* Open facts of an earlier release may have reached some consumers once.
Init ==
  /\ fate \in [Facts -> {"unrecorded", "open"}]
  /\ effects \in [Facts -> [Consumers -> {0, 1}]]
  /\ \A f \in Facts : fate[f] = "unrecorded" => effects[f] = [c \in Consumers |-> 0]
  /\ waived = [f \in Facts |-> {}]

Record(f) ==
  /\ fate[f] = "unrecorded"
  /\ fate' = [fate EXCEPT ![f] = "open"]
  /\ UNCHANGED <<effects, waived>>

\* A late process may still reach a consumer after the fact was delivered.
Reachable(f, c) ==
  /\ fate[f] \in {"open", "delivered"}
  /\ c \in Exact => ~Had(f, c)

Apply(f, c) ==
  /\ Reachable(f, c)
  /\ effects[f][c] < MaxRepeats
  /\ effects' = [effects EXCEPT ![f][c] = @ + 1]
  /\ UNCHANGED <<fate, waived>>

Waive(f, c) ==
  /\ Reachable(f, c)
  /\ waived' = [waived EXCEPT ![f] = @ \cup {c}]
  /\ UNCHANGED <<fate, effects>>

Deliver(f) ==
  /\ fate[f] = "open"
  /\ \A c \in Catalogue : Had(f, c)
  /\ fate' = [fate EXCEPT ![f] = "delivered"]
  /\ UNCHANGED <<effects, waived>>

\* The fence takes several facts at once, none of which anybody has had.
Stop(S) ==
  /\ \A f \in S : fate[f] = "open" /\ \A c \in Consumers : ~Had(f, c)
  /\ fate' = [f \in Facts |-> IF f \in S THEN "stopped" ELSE fate[f]]
  /\ UNCHANGED <<effects, waived>>

Next ==
  \/ \E f \in Facts : Record(f) \/ Deliver(f)
  \/ \E f \in Facts, c \in Consumers : Apply(f, c) \/ Waive(f, c)
  \/ \E S \in SUBSET Facts : Stop(S)

Spec == Init /\ [][Next]_factVars
=============================================================================
