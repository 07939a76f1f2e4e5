-------------------------- MODULE PublicationPromise --------------------------
(***************************************************************************)
(* What RepKey promises of the publication cycles of one Reply, without    *)
(* job, claims, permits, sweeps, reads or crashes (src/contexts/review):   *)
(* a cycle puts at most one request on Google; one that is called          *)
(* unwritten has none there and never will have; a cycle begins only when  *)
(* every earlier one is settled; and what is settled stays as it is.       *)
(***************************************************************************)
EXTENDS Naturals

CONSTANTS MaxCycle, Requests

VARIABLES
  fate,    \* what became of each cycle
  sent,    \* per cycle, the request on its way to Google
  applied  \* per cycle, the request that Google applied

promiseVars == <<fate, sent, applied>>

Cycles == 1..MaxCycle
Settled == {"unwritten", "published", "given up"}

Init ==
  /\ fate = [c \in Cycles |-> "none"]
  /\ sent = [c \in Cycles |-> {}] /\ applied = [c \in Cycles |-> {}]

NothingWritten(c) == sent[c] = {} /\ applied[c] = {}

Authorize(c) ==
  /\ fate[c] = "none" /\ \A d \in 1..(c - 1) : fate[d] \in Settled
  /\ fate' = [fate EXCEPT ![c] = "open"]
  /\ UNCHANGED <<sent, applied>>

\* A worker may be late: the cycle it sends for may be in doubt, or settled as
\* anything but unwritten.
Send(c) ==
  /\ fate[c] \notin {"none", "unwritten"} /\ NothingWritten(c)
  /\ \E r \in Requests : sent' = [sent EXCEPT ![c] = {r}]
  /\ UNCHANGED <<fate, applied>>

Land(c) ==
  /\ sent[c] # {}
  /\ applied' = [applied EXCEPT ![c] = sent[c]]
  /\ sent' = [sent EXCEPT ![c] = {}]
  /\ UNCHANGED fate

Refuse(c) ==
  /\ sent[c] # {}
  /\ sent' = [sent EXCEPT ![c] = {}]
  /\ UNCHANGED <<fate, applied>>

\* Nobody knows what became of the request.
Doubt(c) ==
  /\ fate[c] = "open"
  /\ fate' = [fate EXCEPT ![c] = "unknown"]
  /\ UNCHANGED <<sent, applied>>

Settle(c) ==
  /\ fate[c] \in {"open", "unknown"}
  /\ \E f \in Settled : /\ f = "unwritten" => NothingWritten(c)
                        /\ fate' = [fate EXCEPT ![c] = f]
  /\ UNCHANGED <<sent, applied>>

\* A step is about one cycle: it changes its fate, or its request.
Next ==
  \E c \in Cycles :
    \/ fate'[c] # fate[c] /\ (Authorize(c) \/ Doubt(c) \/ Settle(c))
    \/ sent'[c] # sent[c] /\ (Send(c) \/ Land(c) \/ Refuse(c))

Spec == Init /\ [][Next]_promiseVars
=============================================================================
