---------------------------- MODULE WorkItemsProofs ----------------------------
(***************************************************************************)
(* Theorems about WorkItems for any number of items, slots and processes.  *)
(***************************************************************************)
EXTENDS WorkItems, TLAPS

-----------------------------------------------------------------------------
(* Types *)

Ready == {"later", "due", "dispatch"}

LEMMA UnleasedType ==
  ASSUME NEW r \in Row, NEW state \in WorkState, NEW ready \in Ready
  PROVE  Unleased(r, state, ready) \in Row
BY DEF Unleased, Row, Ready

AfterStates == {"pending", "uncertain", "quarantined"}

LEMMA RowTypes ==
  ASSUME TypeOK, NEW i \in Items
  PROVE  /\ row[i] \in Row
         /\ \A isTerminal \in BOOLEAN : AfterAttempt(i, isTerminal) \in AfterStates
         /\ Reclaimed(i) \in Row
         /\ Retried(row[i]) \in Row
         /\ NoRow \in Row
<1>1. row[i] \in Row  BY DEF TypeOK
<1>2. ASSUME NEW isTerminal \in BOOLEAN  PROVE AfterAttempt(i, isTerminal) \in AfterStates
  BY DEF AfterAttempt, AfterStates
<1>3. Reclaimed(i) \in Row
  BY <1>1, <1>2 DEF Reclaimed, Unleased, Row, WorkState, AfterStates
<1>4. Retried(row[i]) \in Row
  <2> DEFINE max == IF row[i].max + Grant <= Ceiling THEN row[i].max + Grant ELSE Ceiling
  <2>1. row[i].max \in Nat  BY <1>1 DEF Row
  <2>2. max \in Nat  BY <2>1, WorkConstants
  <2>3. Retried(row[i]) = [row[i] EXCEPT !.state = "pending", !.ready = "dispatch", !.max = max]
    BY DEF Retried
  <2> HIDE DEF max
  <2> QED  BY <1>1, <2>2, <2>3 DEF Row, WorkState
<1>5. NoRow \in Row
  BY WorkConstants DEF NoRow, RecoveryMode, Row, WorkState
<1> QED  BY <1>1, <1>2, <1>3, <1>4, <1>5

\* A slot's job is an item whenever the slot is past "idle".
BusyHasJob == \A s \in Slots : pc[s] # "idle" => job[s] \in Items

LEMMA TypeInit == WorkInit => TypeOK /\ BusyHasJob
BY WorkConstants DEF WorkInit, TypeOK, BusyHasJob, Row, RecoveryMode, NoRow, WorkState, Pc

LEMMA SlotTypes ==
  ASSUME TypeOK, BusyHasJob, NEW s \in Slots, WorkerStep(s)
  PROVE  TypeOK' /\ BusyHasJob'
<1> USE DEF ledger, slots
<1>0. pc[s] # "idle" /\ job[s] \in Items
  BY DEF WorkerStep, Claim, HandlerReturns, HandlerThrows, Renew, Complete, RenewToFail, Fail,
         Release, BusyHasJob
<1>r. row[job[s]] \in Row  BY <1>0, RowTypes
<1>1. CASE Claim(s)
  <2> DEFINE token == row[job[s]].attempts + 1
  <2>0. token \in Nat  BY <1>r DEF Row
  <2>1. [row[job[s]] EXCEPT !.state = "running", !.attempts = token,
                            !.token = token, !.lease = "live"] \in Row
    BY <1>r, <2>0 DEF Row, WorkState
  <2>2. row' \in [Items -> Row]
    <3>1. row' = [row EXCEPT ![job[s]] = [row[job[s]] EXCEPT !.state = "running",
                       !.attempts = token, !.token = token, !.lease = "live"]] \/ UNCHANGED row
      BY <1>0, <1>1 DEF Claim, TypeOK
    <3> QED  BY <1>0, <2>1, <3>1 DEF TypeOK
  <2> QED  BY <1>0, <1>1, <2>2, <2>0 DEF Claim, Goto, TypeOK, BusyHasJob, Pc
<1>2. CASE HandlerReturns(s) \/ \E isTerminal \in BOOLEAN : HandlerThrows(s, isTerminal)
  BY <1>0, <1>2 DEF HandlerReturns, HandlerThrows, Goto, TypeOK, BusyHasJob, Pc
<1>2a. row' \in [Items -> Row] /\ pc' \in [Slots -> Pc] /\ (\A t \in Slots : pc'[t] # "idle" => job[t] \in Items)
       /\ UNCHANGED <<seen, queued, job, held, session, terminal>> => TypeOK' /\ BusyHasJob'
  BY DEF TypeOK, BusyHasJob
<1>3. CASE Renew(s) \/ RenewToFail(s)
  <2>1. row' = row \/ RenewLease(job[s])  BY <1>3 DEF Renew, RenewToFail
  <2>2. row' \in [Items -> Row]  BY <1>0, <1>r, <2>1 DEF RenewLease, TypeOK, Row
  <2>3. \E to \in Pc : Goto(s, to)  BY <1>3 DEF Renew, RenewToFail, Pc
  <2>4. UNCHANGED <<seen, queued, job, held, session, terminal>>  BY <1>3 DEF Renew, RenewToFail
  <2> QED  BY <1>0, <1>2a, <2>2, <2>3, <2>4 DEF Goto, TypeOK, BusyHasJob
<1>4. CASE Complete(s)
  <2>1. row' = row \/ row' = [row EXCEPT ![job[s]] = Unleased(@, "succeeded", @.ready)]
    BY <1>4 DEF Complete
  <2>1a. Unleased(row[job[s]], "succeeded", row[job[s]].ready) \in Row
    BY <1>r, UnleasedType DEF Row, WorkState, Ready
  <2>2. row' \in [Items -> Row]  BY <1>0, <2>1, <2>1a DEF TypeOK
  <2>3. \E to \in Pc : Goto(s, to)  BY <1>4 DEF Complete, Pc
  <2>4. UNCHANGED <<seen, queued, job, held, session, terminal>>  BY <1>4 DEF Complete
  <2> QED  BY <1>0, <1>2a, <2>2, <2>3, <2>4 DEF Goto, TypeOK, BusyHasJob
<1>5. CASE Fail(s)
  <2>1. AfterAttempt(job[s], terminal[s]) \in WorkState
    BY <1>0, RowTypes DEF TypeOK, AfterStates, WorkState
  <2>1a. Unleased(row[job[s]], AfterAttempt(job[s], terminal[s]), "later") \in Row
    BY <1>r, <2>1, UnleasedType DEF Ready
  <2>2. row' \in [Items -> Row]  BY <1>0, <1>5, <2>1a DEF Fail, TypeOK
  <2>3. \E to \in Pc : Goto(s, to)  BY <1>5 DEF Fail, Pc
  <2>4. UNCHANGED <<seen, queued, job, held, session, terminal>>  BY <1>5 DEF Fail
  <2> QED  BY <1>0, <1>2a, <2>2, <2>3, <2>4 DEF Goto, TypeOK, BusyHasJob
<1>6. CASE Release(s)
  BY <1>6 DEF Release, ResetSlots, TypeOK, BusyHasJob, Pc
<1> QED  BY <1>1, <1>2, <1>3, <1>4, <1>5, <1>6 DEF WorkerStep

LEMMA ItemTypes ==
  ASSUME TypeOK, BusyHasJob, NEW i \in Items, ItemStep(i)
  PROVE  TypeOK' /\ BusyHasJob'
<1> USE DEF ledger, slots, BusyHasJob
<1>r. row[i] \in Row /\ NoRow \in Row /\ Retried(row[i]) \in Row  BY RowTypes
<1>1. CASE Schedule(i)
  <2>1. PICK recovery \in RecoveryMode, ready \in Ready : ScheduleRow(i, recovery, ready)  BY WorkConstants, <1>1 DEF Schedule, Ready
  <2>2. [NoRow EXCEPT !.recovery = recovery, !.state = "pending", !.ready = ready] \in Row
    BY <1>r DEF Row, WorkState, Ready
  <2>3. row' \in [Items -> Row]  BY <2>1, <2>2 DEF ScheduleRow, TypeOK
  <2> QED  BY <1>1, <2>3 DEF Schedule, TypeOK
<1>2. CASE QueueLoses(i)
  BY <1>2 DEF QueueLoses, TypeOK
<1>3. CASE DueArrives(i) \/ LeaseExpires(i)
  <2>1. [row[i] EXCEPT !.ready = "dispatch"] \in Row /\ [row[i] EXCEPT !.lease = "expired"] \in Row
    BY <1>r DEF Row
  <2>2. row' \in [Items -> Row]  BY <1>3, <2>1 DEF DueArrives, LeaseExpires, TypeOK
  <2> QED  BY <1>3, <2>2 DEF DueArrives, LeaseExpires, TypeOK, BusyHasJob
<1>4. CASE ReadBackStarts(i)
  BY <1>r, <1>4 DEF ReadBackStarts, TypeOK, Row
<1>5. ASSUME NEW n \in seen[i], NEW o \in Observation, ReadBackSettles(i, n, o)
      PROVE  TypeOK' /\ BusyHasJob'
  <2>1. Verdict(i, n, o) \in WorkState  BY DEF Verdict, WorkState
  <2>2. [row[i] EXCEPT !.ready = "dispatch", !.state = Verdict(i, n, o)] \in Row
    BY <1>r, <2>1 DEF Row
  <2>3. row' \in [Items -> Row]  BY <1>5, <2>2 DEF ReadBackSettles, TypeOK
  <2> QED  BY <1>5, <2>3 DEF ReadBackSettles, TypeOK
<1>6. ASSUME NEW a \in Action, Operate(i, a)  PROVE  TypeOK' /\ BusyHasJob'
  BY <1>r, <1>6 DEF Operate, TypeOK, Row, WorkState
<1> QED  BY <1>1, <1>2, <1>3, <1>4, <1>5, <1>6 DEF ItemStep

LEMMA DispatchTypes ==
  ASSUME TypeOK, BusyHasJob, Reconcile
  PROVE  TypeOK' /\ BusyHasJob'
<1> USE DEF slots, BusyHasJob
<1>1. PICK R, D, E \in SUBSET Items : ReserveDispatch(R, D, E)  BY DEF Reconcile
<1>2. \A i \in Items : row[i] \in Row /\ Reclaimed(i) \in Row  BY RowTypes
<1>3. row' \in [Items -> Row]
  BY <1>1, <1>2 DEF ReserveDispatch, Row
<1> QED  BY <1>1, <1>3 DEF ReserveDispatch, TypeOK

LEMMA TypeStep == TypeOK /\ BusyHasJob /\ [Next]_workVars => TypeOK' /\ BusyHasJob'
<1> SUFFICES ASSUME TypeOK, BusyHasJob, [Next]_workVars  PROVE TypeOK' /\ BusyHasJob'
  OBVIOUS
<1>1. ASSUME NEW s \in Slots, NEW i \in Items, Acquire(s, i) \/ Refuse(s, i)
      PROVE  TypeOK' /\ BusyHasJob'
  BY <1>1 DEF Acquire, Refuse, Goto, TypeOK, BusyHasJob, Pc, ledger, slots
<1>2. ASSUME NEW s \in Slots, SessionDies(s)  PROVE  TypeOK' /\ BusyHasJob'
  BY <1>2 DEF SessionDies, TypeOK, BusyHasJob, ledger
<1>3. ASSUME NEW h \in Hosts, HostCrashes(h)  PROVE  TypeOK' /\ BusyHasJob'
  <2> DEFINE S == {s \in Slots : HostOf[s] = h /\ pc[s] # "idle"}
  <2>1. ResetSlots(S) /\ UNCHANGED ledger
        /\ \E redelivered \in SUBSET {job[s] : s \in S} : queued' = queued \cup redelivered
    BY <1>3 DEF HostCrashes
  <2>2. queued' \in SUBSET Items  BY <2>1 DEF TypeOK, BusyHasJob
  <2> QED  BY <2>1, <2>2 DEF ResetSlots, TypeOK, BusyHasJob, Pc, ledger
<1>4. CASE UNCHANGED workVars
  BY <1>4 DEF workVars, TypeOK, BusyHasJob
<1> QED  BY <1>1, <1>2, <1>3, <1>4, SlotTypes, ItemTypes, DispatchTypes DEF Next

\* Type correctness of the ledger and its workers.
THEOREM TypeCorrect == Spec => [](TypeOK /\ BusyHasJob)
BY TypeInit, TypeStep, PTL DEF Spec
-----------------------------------------------------------------------------
(* The rows *)

\* Rows are never deleted, so an absent one has had no attempt; and no token
\* is from the future.
RowHistory ==
  \A i \in Items :
    /\ row[i].state = "absent" => row[i].attempts = 0
    /\ row[i].token <= row[i].attempts

RowInv == TypeOK /\ BusyHasJob /\ LedgerShape /\ RowHistory

Shaped(r) ==
  /\ LeaseMatchesState(r) /\ WithinBudget(r)
  /\ r.state = "absent" => r.attempts = 0
  /\ r.token <= r.attempts

LEMMA ShapedRows == LedgerShape /\ RowHistory <=> \A i \in Items : Shaped(row[i])
BY DEF LedgerShape, RowHistory, Shaped

LEMMA RowShapeInit == WorkInit => LedgerShape /\ RowHistory
BY WorkConstants DEF WorkInit, LedgerShape, RowHistory, NoRow, LeaseMatchesState, WithinBudget

\* What an abandoned attempt leaves behind is a row with budget left, or one
\* that nobody claims.
LEMMA UnleasedShaped ==
  ASSUME NEW i \in Items, TypeOK, Shaped(row[i]), row[i].state = "running",
         NEW isTerminal \in BOOLEAN, NEW ready \in Ready
  PROVE  /\ Shaped(Unleased(row[i], AfterAttempt(i, isTerminal), ready))
         /\ Shaped(Unleased(row[i], "succeeded", ready))
<1>1. row[i] \in Row  BY DEF TypeOK
<1>2. AfterAttempt(i, isTerminal) \in AfterStates  BY RowTypes
<1>3. AfterAttempt(i, isTerminal) = "pending" => row[i].attempts < row[i].max
  BY <1>1 DEF AfterAttempt, Row
<1>4. ASSUME NEW state \in AfterStates \cup {"succeeded"},
             state = "pending" => row[i].attempts < row[i].max
      PROVE  Shaped(Unleased(row[i], state, ready))
  <2> DEFINE r == Unleased(row[i], state, ready)
  <2>1. /\ r.state = state /\ r.token = 0 /\ r.lease = "none"
        /\ r.attempts = row[i].attempts /\ r.max = row[i].max
    BY <1>1 DEF Unleased, Row
  <2>2. row[i].attempts \in Nat /\ row[i].max \in Nat  BY <1>1 DEF Row
  <2> HIDE DEF r
  <2>3. Shaped(r)
    BY <1>4, <2>1, <2>2 DEF Shaped, LeaseMatchesState, WithinBudget, AfterStates
  <2> QED  BY <2>3 DEF r
<1> QED  BY <1>2, <1>3, <1>4

LEMMA RowShapeStep ==
  RowInv /\ [Next]_workVars => (LedgerShape /\ RowHistory)'
<1> SUFFICES ASSUME RowInv, [Next]_workVars  PROVE \A i \in Items : Shaped(row[i])'
  BY DEF LedgerShape, RowHistory, Shaped
<1> USE DEF RowInv
<1>s. \A i \in Items : row[i] \in Row /\ Shaped(row[i])  BY ShapedRows DEF TypeOK
<1>0. CASE UNCHANGED row  BY <1>0, <1>s DEF Shaped, LeaseMatchesState, WithinBudget
\* One row is replaced by a shaped one.
<1>1. ASSUME NEW i \in Items, NEW r, row' = [row EXCEPT ![i] = r], Shaped(r)
      PROVE  \A j \in Items : Shaped(row[j])'
  <2>1. \A j \in Items : row'[j] = IF j = i THEN r ELSE row[j]  BY <1>1 DEF TypeOK
  <2> QED  BY <1>1, <1>s, <2>1 DEF Shaped, LeaseMatchesState, WithinBudget
<1>2. ASSUME NEW i \in Items, ItemStep(i), ~UNCHANGED row  PROVE \A j \in Items : Shaped(row[j])'
  <2>r. row[i] \in Row /\ Shaped(row[i])  BY <1>s
  <2>1. CASE Schedule(i)
    <3>1. PICK recovery \in RecoveryMode, ready \in Ready : ScheduleRow(i, recovery, ready)  BY WorkConstants, <2>1 DEF Schedule, Ready
    <3>2. Shaped([NoRow EXCEPT !.recovery = recovery, !.state = "pending", !.ready = ready])
      BY WorkConstants DEF NoRow, Shaped, LeaseMatchesState, WithinBudget
    <3> QED  BY <1>1, <3>1, <3>2 DEF ScheduleRow
  <2>2. CASE DueArrives(i)
    <3>1. row' = [row EXCEPT ![i] = [row[i] EXCEPT !.ready = "dispatch"]]  BY <2>2 DEF DueArrives
    <3>2. Shaped([row[i] EXCEPT !.ready = "dispatch"])
      BY <2>r DEF Row, Shaped, LeaseMatchesState, WithinBudget
    <3> QED  BY <1>1, <3>1, <3>2
  <2>3. CASE LeaseExpires(i)
    <3>1. row' = [row EXCEPT ![i] = [row[i] EXCEPT !.lease = "expired"]] /\ row[i].lease = "live"
      BY <2>3 DEF LeaseExpires
    <3>2. Shaped([row[i] EXCEPT !.lease = "expired"])
      BY <2>r, <3>1 DEF Row, Shaped, LeaseMatchesState, WithinBudget
    <3> QED  BY <1>1, <3>1, <3>2
  <2>4. ASSUME NEW n \in seen[i], NEW o \in Observation, ReadBackSettles(i, n, o)
        PROVE  \A j \in Items : Shaped(row[j])'
    <3> DEFINE to == Verdict(i, n, o)
    <3>1. /\ row' = [row EXCEPT ![i] = [row[i] EXCEPT !.ready = "dispatch", !.state = to]]
          /\ row[i].state = "uncertain" /\ row[i].attempts = n
      BY <1>2, <2>4 DEF ReadBackSettles, StillObserved
    <3>1a. /\ to \in {"succeeded", "quarantined", "pending"}
           /\ to = "pending" => ~(n >= row[i].max)
      BY DEF Verdict
    <3> HIDE DEF to
    <3>2. Shaped([row[i] EXCEPT !.ready = "dispatch", !.state = to])
      BY <2>r, <3>1, <3>1a DEF Row, Shaped, LeaseMatchesState, WithinBudget
    <3> QED  BY <1>1, <3>1, <3>2
  <2>5. ASSUME NEW a \in Action, Operate(i, a)  PROVE \A j \in Items : Shaped(row[j])'
    <3>1. row[i].state \in {"pending", "quarantined", "uncertain", "cancelled"}
      BY <2>5 DEF Operate, Allowed, Action
    <3>2. CASE a = "retry"
      <4>1. row' = [row EXCEPT ![i] = Retried(row[i])] /\ row[i].attempts < Ceiling
        BY <2>5, <3>2 DEF Operate
      <4>2. /\ Retried(row[i]).state = "pending" /\ Retried(row[i]).token = row[i].token
            /\ Retried(row[i]).lease = row[i].lease
            /\ Retried(row[i]).attempts = row[i].attempts
            /\ Retried(row[i]).max = IF row[i].max + Grant <= Ceiling THEN row[i].max + Grant
                                                                      ELSE Ceiling
        BY <2>r DEF Retried, Row
      <4>3. row[i].attempts \in Nat /\ row[i].max \in Nat  BY <2>r DEF Row
      <4>4. Shaped(Retried(row[i]))
        BY <2>r, <3>1, <4>1, <4>2, <4>3, WorkConstants DEF Shaped, LeaseMatchesState, WithinBudget
      <4> QED  BY <1>1, <4>1, <4>4
    <3>3. CASE a # "retry"
      <4>1. PICK to \in {"cancelled", "discarded"} :
              row' = [row EXCEPT ![i] = [row[i] EXCEPT !.state = to]]
        BY <2>5, <3>3 DEF Operate, Action
      <4>2. Shaped([row[i] EXCEPT !.state = to])
        BY <2>r, <3>1, <4>1 DEF Row, Shaped, LeaseMatchesState, WithinBudget
      <4> QED  BY <1>1, <4>1, <4>2
    <3> QED  BY <3>2, <3>3
  <2> QED  BY <1>2, <2>1, <2>2, <2>3, <2>4, <2>5 DEF ItemStep, QueueLoses, ReadBackStarts, ledger
<1>3. ASSUME NEW s \in Slots, WorkerStep(s), ~UNCHANGED row  PROVE \A j \in Items : Shaped(row[j])'
  <2>j. pc[s] # "idle" /\ job[s] \in Items
    BY <1>3 DEF WorkerStep, Claim, HandlerReturns, HandlerThrows, Renew, Complete, RenewToFail,
                Fail, Release, BusyHasJob
  <2>r. row[job[s]] \in Row /\ Shaped(row[job[s]])  BY <1>s, <2>j
  <2>1. CASE Claim(s)
    <3>1. /\ row' = [row EXCEPT ![job[s]] =
                       [row[job[s]] EXCEPT !.state = "running", !.attempts = row[job[s]].attempts + 1,
                                           !.token = row[job[s]].attempts + 1, !.lease = "live"]]
          /\ row[job[s]].attempts < row[job[s]].max
      BY <1>3, <2>1 DEF Claim, Claimable
    <3> DEFINE r == [row[job[s]] EXCEPT !.state = "running", !.attempts = row[job[s]].attempts + 1,
                                        !.token = row[job[s]].attempts + 1, !.lease = "live"]
    <3>2. /\ r.state = "running" /\ r.attempts = row[job[s]].attempts + 1
          /\ r.token = row[job[s]].attempts + 1 /\ r.lease = "live" /\ r.max = row[job[s]].max
      BY <2>r DEF Row
    <3>3. row[job[s]].attempts \in Nat /\ row[job[s]].max \in Nat  BY <2>r DEF Row
    <3> HIDE DEF r
    <3>4. Shaped(r)
      BY <2>r, <3>1, <3>2, <3>3, WorkConstants DEF Shaped, LeaseMatchesState, WithinBudget
    <3> QED  BY <1>1, <2>j, <3>1, <3>4 DEF r
  <2>2. CASE Renew(s) \/ RenewToFail(s)
    <3>1. row' = [row EXCEPT ![job[s]] = [row[job[s]] EXCEPT !.lease = "live"]] /\ Owned(s)
      BY <1>3, <2>2 DEF Renew, RenewToFail, RenewLease
    <3>2. Shaped([row[job[s]] EXCEPT !.lease = "live"])
      BY <2>r, <3>1 DEF Owned, Row, Shaped, LeaseMatchesState, WithinBudget
    <3> QED  BY <1>1, <2>j, <3>1, <3>2
  <2>3. CASE Complete(s)
    <3>1. row' = [row EXCEPT ![job[s]] = Unleased(row[job[s]], "succeeded", row[job[s]].ready)]
          /\ row[job[s]].state = "running"
      BY <1>3, <2>3 DEF Complete, OwnedLive, Owned
    <3>2. row[job[s]].ready \in Ready  BY <2>r DEF Row, Ready
    <3> QED  BY <1>1, <2>j, <2>r, <3>1, <3>2, UnleasedShaped
  <2>4. CASE Fail(s)
    <3>1. row' = [row EXCEPT ![job[s]] =
                    Unleased(row[job[s]], AfterAttempt(job[s], terminal[s]), "later")]
          /\ row[job[s]].state = "running"
      BY <1>3, <2>4 DEF Fail, OwnedLive, Owned
    <3>2. terminal[s] \in BOOLEAN /\ "later" \in Ready  BY DEF TypeOK, Ready
    <3> QED  BY <1>1, <2>j, <2>r, <3>1, <3>2, UnleasedShaped
  <2> QED  BY <1>3, <2>1, <2>2, <2>3, <2>4 DEF WorkerStep, HandlerReturns, HandlerThrows, Release, ledger
<1>4. CASE Reconcile
  <2>1. PICK R, D, E \in SUBSET Items : ReserveDispatch(R, D, E)  BY <1>4 DEF Reconcile
  <2> DEFINE after == [i \in Items |-> IF i \in R THEN Reclaimed(i) ELSE row[i]]
  <2>2. \A i \in Items : after[i] \in Row /\ Shaped(after[i])
    <3> TAKE i \in Items
    <3>1. CASE i \in R
      <4>1. row[i].state = "running"  BY <2>1, <3>1 DEF ReserveDispatch, Reclaimable
      <4>2. FALSE \in BOOLEAN /\ "dispatch" \in Ready  BY DEF Ready
      <4>3. Shaped(Reclaimed(i))  BY <1>s, <4>1, <4>2, UnleasedShaped DEF Reclaimed
      <4> QED  BY <3>1, <4>3, RowTypes
    <3>2. CASE i \notin R  BY <1>s, <3>2
    <3> QED  BY <3>1, <3>2
  <2>3. row' = [i \in Items |-> IF i \in D THEN [after[i] EXCEPT !.ready = "due"] ELSE after[i]]
    BY <2>1 DEF ReserveDispatch
  <2> HIDE DEF after
  <2>4. ASSUME NEW i \in Items  PROVE Shaped([after[i] EXCEPT !.ready = "due"])
    BY <2>2 DEF Row, Shaped, LeaseMatchesState, WithinBudget
  <2>5. \A i \in Items : row'[i] = IF i \in D THEN [after[i] EXCEPT !.ready = "due"] ELSE after[i]
    BY <2>3
  <2> QED  BY <2>2, <2>4, <2>5 DEF Shaped, LeaseMatchesState, WithinBudget
<1> QED
  BY <1>0, <1>2, <1>3, <1>4 DEF Next, Acquire, Refuse, SessionDies, HostCrashes, workVars, ledger

\* The CHECK constraints of work_items hold of every row, and no pending row
\* is beyond its attempt budget.
THEOREM LedgerShapeHolds == Spec => []LedgerShape
<1>1. WorkInit => RowInv  BY TypeInit, RowShapeInit DEF RowInv
<1>2. RowInv /\ [Next]_workVars => RowInv'  BY TypeStep, RowShapeStep DEF RowInv
<1>3. RowInv => LedgerShape  BY DEF RowInv
<1> QED  BY <1>1, <1>2, <1>3, PTL DEF Spec
-----------------------------------------------------------------------------
(* Claims and locks *)

Holding == {"work", "renew", "complete", "failrenew", "fail"}
Running == {"work", "renew"}

\* An idle slot has nothing; a token is held from the claim to the release.
SlotShape ==
  \A s \in Slots :
    /\ pc[s] = "idle" => job[s] = None /\ held[s] = 0 /\ ~session[s]
    /\ pc[s] = "locked" => held[s] = 0
    /\ pc[s] \in Holding => held[s] # 0

\* The advisory lock has one holder.
LockExclusive ==
  \A s, t \in Slots : s # t /\ session[s] /\ session[t] => job[s] # job[t]

\* A token stands for the attempt it was issued for: no slot holds a newer one,
\* and no two slots hold one, as no two claims draw one UUID.
TokensDiffer ==
  \A s \in Slots : held[s] # 0 =>
    /\ held[s] <= row[job[s]].attempts
    /\ \A t \in Slots \ {s} : job[t] = job[s] => held[t] # held[s]

\* While a callback's session lives, its claim is current.
LockedOwns == \A s \in Slots : session[s] /\ pc[s] \in Running => Owned(s)

Claims == SlotShape /\ TokensDiffer /\ LockExclusive /\ LockedOwns
ClaimInv == RowInv /\ Claims

\* A slot holds a token, or a session, only for an item.
LEMMA HolderHasJob ==
  ASSUME ClaimInv, NEW s \in Slots, held[s] # 0 \/ session[s]
  PROVE  pc[s] # "idle" /\ job[s] \in Items
BY DEF ClaimInv, Claims, SlotShape, RowInv, BusyHasJob

LEMMA ClaimInit == WorkInit => Claims
BY DEF WorkInit, Claims, SlotShape, TokensDiffer, LockExclusive, LockedOwns, Holding, Running

\* Steps that give no slot a job, a token or a session keep the claims, if
\* they leave the claims of locked callbacks alone.
LEMMA ClaimsKept ==
  ASSUME ClaimInv, TypeOK', UNCHANGED <<job, held>>,
         \A s \in Slots : session'[s] => session[s],
         \A s \in Slots : /\ pc'[s] = "idle" => pc[s] = "idle"
                          /\ pc'[s] = "locked" => pc[s] = "locked"
                          /\ pc'[s] \in Holding => pc[s] \in Holding
                          /\ pc'[s] \in Running => pc[s] \in Running,
         \A i \in Items : row'[i].attempts >= row[i].attempts,
         \A s \in Slots : session[s] /\ pc[s] \in Running /\ pc'[s] \in Running /\ Owned(s)
                            => Owned(s)'
  PROVE  Claims'
<1>1. SlotShape'  BY DEF ClaimInv, Claims, SlotShape
<1>2. TokensDiffer'
  <2> SUFFICES ASSUME NEW s \in Slots, held[s] # 0
               PROVE  /\ held[s] <= row'[job[s]].attempts
                      /\ \A t \in Slots \ {s} : job[t] = job[s] => held[t] # held[s]
    BY DEF TokensDiffer
  <2>1. job[s] \in Items  BY HolderHasJob
  <2>2. held[s] <= row[job[s]].attempts /\ row'[job[s]].attempts >= row[job[s]].attempts
    BY <2>1 DEF ClaimInv, Claims, TokensDiffer
  <2>3. held[s] \in Nat /\ row[job[s]].attempts \in Nat /\ row'[job[s]].attempts \in Nat
    BY <2>1 DEF ClaimInv, RowInv, TypeOK, Row
  <2>4. held[s] <= row'[job[s]].attempts  BY <2>2, <2>3
  <2> QED  BY <2>4 DEF ClaimInv, Claims, TokensDiffer
<1>3. LockExclusive'  BY DEF ClaimInv, Claims, LockExclusive
<1>4. LockedOwns'  BY DEF ClaimInv, Claims, LockedOwns
<1> QED  BY <1>1, <1>2, <1>3, <1>4 DEF Claims

LEMMA ItemClaims ==
  ASSUME ClaimInv, TypeOK', NEW i \in Items, ItemStep(i)
  PROVE  Claims'
<1> USE DEF ClaimInv, RowInv
<1>1. UNCHANGED slots
  BY DEF ItemStep, Schedule, QueueLoses, DueArrives, LeaseExpires, ReadBackStarts, ReadBackSettles, Operate
<1>2. /\ \A j \in Items : row'[j].attempts >= row[j].attempts
      /\ \A j \in Items : row[j].state = "running" => /\ row'[j].state = "running"
                                                      /\ row'[j].token = row[j].token
  <2> DEFINE Kept == /\ \A j \in Items : row'[j].attempts >= row[j].attempts
                     /\ \A j \in Items : row[j].state = "running" => /\ row'[j].state = "running"
                                                                     /\ row'[j].token = row[j].token
  <2>r. \A j \in Items : row[j] \in Row /\ row[j].attempts \in Nat  BY DEF TypeOK, Row
  <2>u. ASSUME NEW r, row' = [row EXCEPT ![i] = r], r.attempts = row[i].attempts,
               row[i].state # "running"
        PROVE  Kept
    BY <2>r, <2>u DEF TypeOK
  <2>1. CASE Schedule(i)
    <3>1. PICK recovery, ready : row' = [row EXCEPT ![i] = [NoRow EXCEPT !.recovery = recovery, !.state = "pending", !.ready = ready]]
      BY <2>1 DEF Schedule, ScheduleRow
    <3>2. [NoRow EXCEPT !.recovery = recovery, !.state = "pending", !.ready = ready].attempts = 0  BY DEF NoRow
    <3>3. row[i].attempts = 0 /\ row[i].state = "absent"  BY <2>1 DEF Schedule, RowHistory
    <3> QED  BY <2>u, <3>1, <3>2, <3>3
  <2>2. CASE DueArrives(i) \/ LeaseExpires(i)
    <3>1. \A j \in Items : /\ row'[j].attempts = row[j].attempts
                           /\ row'[j].state = row[j].state /\ row'[j].token = row[j].token
      BY <2>2 DEF DueArrives, LeaseExpires, TypeOK, Row
    <3> QED  BY <2>r, <3>1
  <2>3. CASE UNCHANGED row
    BY <2>3, <2>r
  <2>4. ASSUME NEW n \in seen[i], NEW o \in Observation, ReadBackSettles(i, n, o), ~UNCHANGED row
        PROVE  Kept
    <3> DEFINE r == [row[i] EXCEPT !.ready = "dispatch", !.state = Verdict(i, n, o)]
    <3>1. row' = [row EXCEPT ![i] = r] /\ row[i].state = "uncertain"
      BY <2>4 DEF ReadBackSettles, StillObserved
    <3>2. r.attempts = row[i].attempts  BY <2>r DEF Row
    <3> QED  BY <2>u, <3>1, <3>2
  <2>5. ASSUME NEW a \in Action, Operate(i, a)
        PROVE  Kept
    <3>1. row[i].state # "running"  BY <2>5 DEF Operate, Allowed, Action
    <3>2. CASE a = "retry"
      <4>1. row' = [row EXCEPT ![i] = Retried(row[i])]  BY <2>5, <3>2 DEF Operate
      <4>2. Retried(row[i]).attempts = row[i].attempts  BY <2>r DEF Retried, Row
      <4> QED  BY <2>u, <3>1, <4>1, <4>2
    <3>3. CASE a # "retry"
      <4>1. PICK to \in {"cancelled", "discarded"} :
              row' = [row EXCEPT ![i] = [row[i] EXCEPT !.state = to]]
        BY <2>5, <3>3 DEF Operate, Action
      <4>2. [row[i] EXCEPT !.state = to].attempts = row[i].attempts  BY <2>r DEF Row
      <4> QED  BY <2>u, <3>1, <4>1, <4>2
    <3> QED  BY <3>2, <3>3
  <2> QED  BY <2>1, <2>2, <2>3, <2>4, <2>5 DEF ItemStep, QueueLoses, ReadBackStarts, ledger
<1>3. \A s \in Slots : session[s] /\ pc[s] \in Running /\ pc'[s] \in Running /\ Owned(s) => Owned(s)'
  BY <1>1, <1>2, HolderHasJob DEF slots, Owned
<1> QED  BY <1>1, <1>2, <1>3, ClaimsKept DEF slots

LEMMA DispatchClaims ==
  ASSUME ClaimInv, TypeOK', Reconcile
  PROVE  Claims'
<1> USE DEF ClaimInv, RowInv
<1>1. PICK R, D, E \in SUBSET Items : ReserveDispatch(R, D, E)  BY DEF Reconcile
<1> DEFINE after == [i \in Items |-> IF i \in R THEN Reclaimed(i) ELSE row[i]]
<1>2. UNCHANGED slots
      /\ row' = [i \in Items |-> IF i \in D THEN [after[i] EXCEPT !.ready = "due"] ELSE after[i]]
  BY <1>1 DEF ReserveDispatch
<1>3. ASSUME NEW i \in Items
      PROVE  /\ after[i] \in Row /\ after[i].attempts = row[i].attempts
             /\ i \notin R => after[i] = row[i]
  <2>1. row[i] \in Row /\ Reclaimed(i) \in Row  BY RowTypes
  <2>2. Reclaimed(i).attempts = row[i].attempts  BY <2>1 DEF Reclaimed, Unleased, Row
  <2> QED  BY <2>1, <2>2
<1> HIDE DEF after
<1>4. \A i \in Items : /\ row'[i].attempts = row[i].attempts
                       /\ i \notin R => row'[i].state = row[i].state /\ row'[i].token = row[i].token
  BY <1>2, <1>3 DEF Row
<1>5. \A i \in R, s \in Slots : job[s] = i => ~session[s]
  BY <1>1 DEF ReserveDispatch, Reclaimable, LockHeld
<1>6. \A i \in Items : row'[i].attempts >= row[i].attempts
  BY <1>4 DEF TypeOK, Row
<1>7. \A s \in Slots : session[s] /\ pc[s] \in Running /\ pc'[s] \in Running /\ Owned(s) => Owned(s)'
  BY <1>2, <1>4, <1>5, HolderHasJob DEF slots, Owned
<1> QED  BY <1>2, <1>6, <1>7, ClaimsKept DEF slots

\* A worker past its claim touches only the row whose token it holds.
LEMMA SettleClaims ==
  ASSUME ClaimInv, TypeOK', NEW s \in Slots, WorkerStep(s), ~Claim(s), ~Release(s)
  PROVE  Claims'
<1> USE DEF ClaimInv, RowInv
<1>1. /\ pc[s] \in Holding /\ job[s] \in Items /\ held[s] # 0
      /\ UNCHANGED <<job, held, session>>
  BY DEF WorkerStep, HandlerReturns, HandlerThrows, Renew, Complete, RenewToFail, Fail, Holding,
         Claims, SlotShape, BusyHasJob
<1>2. PICK to \in {"renew", "complete", "failrenew", "fail", "release"} :
        Goto(s, to) /\ (to = "renew" => pc[s] = "work" /\ UNCHANGED row)
  BY DEF WorkerStep, HandlerReturns, HandlerThrows, Renew, Complete, RenewToFail, Fail, ledger
<1>3. pc' = [pc EXCEPT ![s] = to]  BY <1>2 DEF Goto
<1>4. \A t \in Slots : /\ pc'[t] = "idle" => pc[t] = "idle"
                       /\ pc'[t] = "locked" => pc[t] = "locked"
                       /\ pc'[t] \in Holding => pc[t] \in Holding
                       /\ pc'[t] \in Running => pc[t] \in Running
  BY <1>1, <1>2, <1>3 DEF TypeOK, Holding, Running
<1>5. \/ UNCHANGED row
      \/ /\ Owned(s)
         /\ \E r : /\ row' = [row EXCEPT ![job[s]] = r]
                   /\ r.attempts = row[job[s]].attempts
                   /\ pc[s] \notin {"complete", "fail"} => /\ r.state = row[job[s]].state
                                                           /\ r.token = row[job[s]].token
  <2>r. row[job[s]] \in Row  BY <1>1 DEF TypeOK
  <2>1. CASE Renew(s) \/ RenewToFail(s)
    <3>1. UNCHANGED row \/ (Owned(s) /\ row' = [row EXCEPT ![job[s]] = [row[job[s]] EXCEPT !.lease = "live"]])
      BY <2>1 DEF Renew, RenewToFail, RenewLease
    <3> DEFINE r == [row[job[s]] EXCEPT !.lease = "live"]
    <3>2. r.attempts = row[job[s]].attempts /\ r.state = row[job[s]].state /\ r.token = row[job[s]].token
      BY <2>r DEF Row
    <3> HIDE DEF r
    <3> QED  BY <3>1, <3>2 DEF r
  <2>2. CASE Complete(s)
    <3>1. /\ pc[s] = "complete"
          /\ UNCHANGED row \/ (Owned(s) /\ row' = [row EXCEPT ![job[s]] =
                                 Unleased(row[job[s]], "succeeded", row[job[s]].ready)])
      BY <2>2 DEF Complete, OwnedLive
    <3>2. Unleased(row[job[s]], "succeeded", row[job[s]].ready).attempts = row[job[s]].attempts
      BY <2>r DEF Unleased, Row
    <3> QED  BY <3>1, <3>2
  <2>3. CASE Fail(s)
    <3>1. /\ pc[s] = "fail"
          /\ UNCHANGED row \/ (Owned(s) /\ row' = [row EXCEPT ![job[s]] =
                                 Unleased(row[job[s]], AfterAttempt(job[s], terminal[s]), "later")])
      BY <2>3 DEF Fail, OwnedLive
    <3>2. Unleased(row[job[s]], AfterAttempt(job[s], terminal[s]), "later").attempts = row[job[s]].attempts
      BY <2>r DEF Unleased, Row
    <3> QED  BY <3>1, <3>2
  <2> QED  BY <2>1, <2>2, <2>3 DEF WorkerStep, HandlerReturns, HandlerThrows, ledger
<1>6. \A i \in Items : row'[i].attempts >= row[i].attempts
  <2>1. \A i \in Items : row'[i].attempts = row[i].attempts  BY <1>1, <1>5 DEF TypeOK
  <2> QED  BY <2>1 DEF TypeOK, Row
<1>7. ASSUME NEW t \in Slots, session[t], pc[t] \in Running, pc'[t] \in Running, Owned(t)
      PROVE  Owned(t)'
  <2>1. CASE UNCHANGED row  BY <1>1, <1>7, <2>1 DEF Owned
  <2>2. CASE ~UNCHANGED row /\ job[t] # job[s]
    BY <1>1, <1>5, <1>7, <2>2, HolderHasJob DEF Owned, TypeOK
  <2>3. CASE ~UNCHANGED row /\ job[t] = job[s]
    <3>1. held[t] = held[s]  BY <1>5, <1>7, <2>3 DEF Owned
    <3>2. t = s  BY <1>1, <2>3, <3>1 DEF Claims, TokensDiffer
    <3>3. pc[s] \notin {"complete", "fail"}  BY <1>7, <3>2 DEF Running
    <3> QED  BY <1>1, <1>5, <1>7, <2>3, <3>2, <3>3 DEF Owned, TypeOK
  <2> QED  BY <2>1, <2>2, <2>3
<1> QED  BY <1>1, <1>4, <1>6, <1>7, ClaimsKept

LEMMA LockAndClaim ==
  ASSUME ClaimInv, TypeOK', NEW s \in Slots, (\E i \in Items : Acquire(s, i)) \/ Claim(s)
  PROVE  Claims'
<1> USE DEF ClaimInv, RowInv
<1>1. ASSUME NEW i \in Items, Acquire(s, i)  PROVE Claims'
  <2>1. /\ job' = [job EXCEPT ![s] = i] /\ session' = [session EXCEPT ![s] = TRUE]
        /\ pc' = [pc EXCEPT ![s] = "locked"] /\ UNCHANGED <<row, held>>
        /\ pc[s] = "idle"
        /\ \A t \in Slots : job[t] = i => ~session[t]
    BY <1>1 DEF Acquire, Free, Goto, ledger
  <2>2. held[s] = 0  BY <2>1 DEF Claims, SlotShape
  <2>3. SlotShape'  BY <2>1, <2>2 DEF TypeOK, Claims, SlotShape, Holding
  <2>4. TokensDiffer'  BY <2>1, <2>2 DEF TypeOK, Claims, TokensDiffer
  <2>5. LockExclusive'  BY <2>1 DEF TypeOK, Claims, LockExclusive
  <2>6. LockedOwns'  BY <2>1 DEF TypeOK, Claims, LockedOwns, Owned, Running
  <2> QED  BY <2>3, <2>4, <2>5, <2>6 DEF Claims
<1>2. CASE Claim(s) /\ UNCHANGED held
  <2>1. /\ pc[s] = "locked" /\ pc' = [pc EXCEPT ![s] = "release"] /\ UNCHANGED <<job, held, session>>
        /\ UNCHANGED row \/ Claimable(job[s])
    <3>1. held[s] = 0  BY <1>2 DEF Claim, Claims, SlotShape
    <3>2. job[s] \in Items  BY <1>2 DEF Claim, BusyHasJob
    <3>3. row[job[s]].attempts + 1 # 0  BY <3>2 DEF TypeOK, Row
    <3> QED  BY <1>2, <3>1, <3>3 DEF Claim, Goto, TypeOK
  <2>2. job[s] \in Items  BY <2>1 DEF BusyHasJob
  <2>3. \A i \in Items : row'[i].attempts >= row[i].attempts
    BY <1>2, <2>2 DEF Claim, TypeOK, Row
  <2>4. \A t \in Slots : session[t] /\ pc[t] \in Running /\ pc'[t] \in Running /\ Owned(t) => Owned(t)'
    BY <1>2, <2>1, <2>2, HolderHasJob DEF Claim, Claimable, Owned, TypeOK
  <2>5. \A t \in Slots : /\ pc'[t] = "idle" => pc[t] = "idle"
                         /\ pc'[t] = "locked" => pc[t] = "locked"
                         /\ pc'[t] \in Holding => pc[t] \in Holding
                         /\ pc'[t] \in Running => pc[t] \in Running
    BY <2>1 DEF TypeOK, Holding, Running
  <2> QED  BY <2>1, <2>3, <2>4, <2>5, ClaimsKept
<1>3. CASE Claim(s) /\ ~UNCHANGED held
  <2> DEFINE n == row[job[s]].attempts + 1
  <2>1. /\ pc[s] = "locked" /\ pc' = [pc EXCEPT ![s] = "work"] /\ UNCHANGED <<job, session>>
        /\ held' = [held EXCEPT ![s] = n] /\ row[job[s]].state = "pending"
        /\ row' = [row EXCEPT ![job[s]] =
                     [row[job[s]] EXCEPT !.state = "running", !.attempts = n, !.token = n, !.lease = "live"]]
    BY <1>3 DEF Claim, Claimable, Goto
  <2>2. job[s] \in Items /\ held[s] = 0  BY <2>1 DEF BusyHasJob, Claims, SlotShape
  <2>3. row[job[s]] \in Row /\ row[job[s]].attempts \in Nat /\ n \in Nat \ {0}
    BY <2>2 DEF TypeOK, Row
  <2>4. /\ row'[job[s]].state = "running" /\ row'[job[s]].attempts = n /\ row'[job[s]].token = n
        /\ \A i \in Items \ {job[s]} : row'[i] = row[i]
    BY <2>1, <2>2, <2>3 DEF TypeOK, Row
  <2>4a. held'[s] = n /\ \A t \in Slots \ {s} : held'[t] = held[t]  BY <2>1 DEF TypeOK
  <2>5. \A t \in Slots : job[t] = job[s] => held[t] < n
    <3> SUFFICES ASSUME NEW t \in Slots, job[t] = job[s]  PROVE held[t] < n
      OBVIOUS
    <3>1. held[t] \in Nat /\ (held[t] # 0 => held[t] <= row[job[s]].attempts)
      BY DEF TypeOK, Claims, TokensDiffer
    <3> QED  BY <2>3, <3>1
  <2> HIDE DEF n
  <2>6. SlotShape'  BY <2>1, <2>3, <2>4a DEF TypeOK, Claims, SlotShape, Holding
  <2>7. TokensDiffer'
    <3> SUFFICES ASSUME NEW t \in Slots, held'[t] # 0
                 PROVE  /\ held'[t] <= row'[job[t]].attempts
                        /\ \A u \in Slots \ {t} : job[u] = job[t] => held'[u] # held'[t]
      BY <2>1 DEF TokensDiffer
    <3>1. CASE t = s
      BY <2>3, <2>4, <2>4a, <2>5, <3>1 DEF TypeOK
    <3>2. CASE t # s /\ job[t] = job[s]
      <4>1. held'[t] = held[t] /\ held[t] < n /\ held[t] \in Nat /\ row'[job[t]].attempts = n
        BY <2>4, <2>4a, <2>5, <3>2 DEF TypeOK
      <4>2. held[t] <= n  BY <2>3, <4>1
      <4>3. n # held[t]  BY <2>3, <4>1
      <4> QED  BY <2>4a, <4>1, <4>2, <4>3 DEF Claims, TokensDiffer
    <3>3. CASE t # s /\ job[t] # job[s]
      <4>1. job[t] \in Items  BY <2>4a, <3>3, HolderHasJob
      <4> QED  BY <2>4, <2>4a, <3>3, <4>1 DEF Claims, TokensDiffer
    <3> QED  BY <3>1, <3>2, <3>3
  <2>8. LockExclusive'  BY <2>1 DEF Claims, LockExclusive
  <2>9. LockedOwns'
    <3> SUFFICES ASSUME NEW t \in Slots, session[t], pc'[t] \in Running  PROVE Owned(t)'
      BY <2>1 DEF LockedOwns
    <3>1. CASE t = s  BY <2>1, <2>4, <2>4a, <3>1 DEF Owned
    <3>2. CASE t # s
      <4>1. pc[t] \in Running /\ Owned(t) /\ job[t] \in Items
        BY <2>1, <3>2, HolderHasJob DEF TypeOK, Claims, LockedOwns
      <4>2. job[t] # job[s]  BY <2>1, <4>1 DEF Owned
      <4> QED  BY <2>1, <2>4, <2>4a, <3>2, <4>1, <4>2 DEF Owned
    <3> QED  BY <3>1, <3>2
  <2> QED  BY <2>6, <2>7, <2>8, <2>9 DEF Claims
<1> QED  BY <1>1, <1>2, <1>3

LEMMA ResetClaims ==
  ASSUME ClaimInv, NEW S \in SUBSET Slots, ResetSlots(S), UNCHANGED row
  PROVE  Claims'
<1> USE DEF ClaimInv, RowInv
<1>1. \A s \in Slots : IF s \in S THEN pc'[s] = "idle" /\ job'[s] = None /\ held'[s] = 0 /\ ~session'[s]
                       ELSE /\ pc'[s] = pc[s] /\ job'[s] = job[s]
                            /\ held'[s] = held[s] /\ session'[s] = session[s]
  BY DEF ResetSlots
<1>2. SlotShape'  BY <1>1 DEF Claims, SlotShape, Holding
<1>3. TokensDiffer'
  <2> SUFFICES ASSUME NEW s \in Slots, held'[s] # 0
               PROVE  /\ held'[s] <= row[job'[s]].attempts
                      /\ \A t \in Slots \ {s} : job'[t] = job'[s] => held'[t] # held'[s]
    BY DEF TokensDiffer
  <2>1. s \notin S /\ job[s] \in Items /\ held[s] # 0  BY <1>1, HolderHasJob
  <2> QED  BY <1>1, <2>1, WorkConstants DEF Claims, TokensDiffer
<1>4. LockExclusive'  BY <1>1 DEF Claims, LockExclusive
<1>5. LockedOwns'  BY <1>1 DEF Claims, LockedOwns, Owned, Running
<1> QED  BY <1>2, <1>3, <1>4, <1>5 DEF Claims

LEMMA ClaimStep == ClaimInv /\ [Next]_workVars => ClaimInv'
<1> SUFFICES ASSUME ClaimInv, [Next]_workVars  PROVE ClaimInv'
  OBVIOUS
<1>1. RowInv'  BY TypeStep, RowShapeStep DEF RowInv, ClaimInv
<1>2. TypeOK'  BY <1>1 DEF RowInv
<1>n. \A i \in Items : row[i].attempts >= row[i].attempts
  BY DEF ClaimInv, RowInv, TypeOK, Row
<1>q. ASSUME UNCHANGED <<row, pc, job, held>>, \A s \in Slots : session'[s] => session[s]
      PROVE  Claims'
  <2>1. \A s \in Slots : Owned(s) => Owned(s)'  BY <1>q DEF Owned
  <2> QED  BY <1>2, <1>n, <1>q, <2>1, ClaimsKept
<1>3. ASSUME NEW s \in Slots, NEW i \in Items, Refuse(s, i)  PROVE Claims'
  BY <1>3, <1>q DEF Refuse, ledger, slots
<1>4. ASSUME NEW s \in Slots, SessionDies(s)  PROVE Claims'
  <2>1. \A t \in Slots : session'[t] => session[t]
    BY <1>4 DEF SessionDies, ClaimInv, RowInv, TypeOK
  <2> QED  BY <1>4, <1>q, <2>1 DEF SessionDies, ledger
<1>5. ASSUME NEW h \in Hosts, HostCrashes(h)  PROVE Claims'
  BY <1>5, ResetClaims DEF HostCrashes, ledger
<1>6. ASSUME NEW s \in Slots, Release(s)  PROVE Claims'
  BY <1>6, ResetClaims DEF Release, ledger
<1>7. ASSUME UNCHANGED workVars  PROVE Claims'
  BY <1>7, <1>q DEF workVars
<1>8. Claims'
  BY <1>2, <1>3, <1>4, <1>5, <1>6, <1>7, ItemClaims, DispatchClaims, SettleClaims, LockAndClaim
  DEF Next, WorkerStep
<1> QED  BY <1>1, <1>8 DEF ClaimInv

LEMMA ClaimInvariant == Spec => []ClaimInv
<1>1. WorkInit => ClaimInv  BY TypeInit, RowShapeInit, ClaimInit DEF ClaimInv, RowInv
<1> QED  BY <1>1, ClaimStep, PTL DEF Spec

\* A callback whose session still holds the advisory lock has the row's
\* current claim, and no locked rival.
THEOREM LockedCallback == Spec => []LockedCallbackOwnsRow
<1>1. ClaimInv => LockedCallbackOwnsRow
  BY DEF ClaimInv, Claims, LockedCallbackOwnsRow, LockedOwns, LockExclusive, Running
<1> QED  BY <1>1, ClaimInvariant, PTL

\* A running attempt ends only by its own worker's settlement, or by a reclaim
\* that found the lease expired and the lock free.
LEMMA EndStep ==
  ASSUME ClaimInv, [Next]_workVars, NEW i \in Items,
         row[i].state = "running", row'[i].token # row[i].token
  PROVE  \/ row[i].lease = "expired" /\ \A s \in Slots : job[s] = i => ~session[s]
         \/ \E s \in Slots : job[s] = i /\ held[s] = row[i].token /\ Settles(s)
<1> USE DEF ClaimInv, RowInv
<1>r. \A j \in Items : row[j] \in Row  BY DEF TypeOK
<1>1. ASSUME NEW j \in Items, ItemStep(j)  PROVE FALSE
  <2>1. CASE Schedule(j)
    BY <2>1 DEF Schedule, ScheduleRow, TypeOK
  <2>2. CASE DueArrives(j) \/ LeaseExpires(j)
    <3>1. \A k \in Items : row'[k].token = row[k].token
      BY <2>2 DEF DueArrives, LeaseExpires, TypeOK, Row
    <3> QED  BY <3>1
  <2>3. CASE UNCHANGED row  BY <2>3
  <2>4. ASSUME NEW n \in seen[j], NEW o \in Observation, ReadBackSettles(j, n, o), ~UNCHANGED row
        PROVE  FALSE
    BY <2>4 DEF ReadBackSettles, StillObserved, TypeOK
  <2>5. ASSUME NEW a \in Action, Operate(j, a)  PROVE FALSE
    BY <2>5 DEF Operate, Allowed, Action, TypeOK
  <2> QED  BY <1>1, <2>1, <2>2, <2>3, <2>4, <2>5 DEF ItemStep, QueueLoses, ReadBackStarts, ledger
<1>2. ASSUME NEW s \in Slots, WorkerStep(s)
      PROVE  job[s] = i /\ held[s] = row[i].token /\ Settles(s)
  <2>1. ~UNCHANGED row
    OBVIOUS
  <2>2. ~Claim(s)
    <3>1. Claim(s) => row[job[s]].state = "pending" /\ \A k \in Items : k # job[s] => row'[k] = row[k]
      BY <2>1 DEF Claim, Claimable, TypeOK
    <3> QED  BY <3>1
  <2>3. job[s] \in Items
    BY <1>2 DEF WorkerStep, Claim, HandlerReturns, HandlerThrows, Renew, Complete, RenewToFail,
                Fail, Release, BusyHasJob
  <2>4. ~Renew(s) /\ ~RenewToFail(s)
    <3>1. Renew(s) \/ RenewToFail(s) => RenewLease(job[s])  BY <2>1 DEF Renew, RenewToFail
    <3>2. RenewLease(job[s]) => row'[i].token = row[i].token
      BY <1>r, <2>3 DEF RenewLease, TypeOK, Row
    <3> QED  BY <3>1, <3>2
  <2>5. Complete(s) \/ Fail(s)
    BY <1>2, <2>1, <2>2, <2>4 DEF WorkerStep, HandlerReturns, HandlerThrows, Release, ledger
  <2>6. /\ Owned(s) /\ pc[s] \in {"complete", "fail"}
        /\ \E r : row' = [row EXCEPT ![job[s]] = r]
        /\ \E to \in {"release", "failrenew"} : Goto(s, to)
    BY <2>1, <2>5 DEF Complete, Fail, OwnedLive
  <2>7. job[s] = i  BY <2>3, <2>6 DEF TypeOK
  <2> QED  BY <2>6, <2>7 DEF Owned, Settles, Goto, TypeOK
<1>3. CASE Reconcile
  <2>1. PICK R, D, E \in SUBSET Items : ReserveDispatch(R, D, E)  BY <1>3 DEF Reconcile
  <2>2. i \in R
    <3> SUFFICES ASSUME i \notin R  PROVE FALSE
      OBVIOUS
    <3>1. row'[i] = row[i] \/ row'[i] = [row[i] EXCEPT !.ready = "due"]
      BY <2>1 DEF ReserveDispatch
    <3> QED  BY <1>r, <3>1 DEF Row
  <2> QED  BY <2>1, <2>2 DEF ReserveDispatch, Reclaimable, LockHeld
<1> QED
  BY <1>1, <1>2, <1>3 DEF Next, Acquire, Refuse, SessionDies, HostCrashes, workVars, ledger

\* No late worker, operator, scheduler or read-back ends a running attempt.
THEOREM AttemptEnds == Spec => AttemptEndsByOwnerOrReclaim
<1>1. ClaimInv /\ [Next]_workVars =>
        [\A i \in Items :
           row[i].state = "running" /\ row'[i].token # row[i].token =>
             \/ row[i].lease = "expired" /\ \A s \in Slots : job[s] = i => ~session[s]
             \/ \E s \in Slots : job[s] = i /\ held[s] = row[i].token /\ Settles(s)]_workVars
  BY EndStep
<1> QED  BY <1>1, ClaimInvariant, PTL DEF Spec, AttemptEndsByOwnerOrReclaim

\* No operation applies to a succeeded or discarded row: it has no lease to
\* lose, no claim to settle, no attempt in doubt, and nothing left to dispatch.
LEMMA FinalStep ==
  ASSUME RowInv, [Next]_workVars, NEW i \in Items,
         row[i].state \in {"succeeded", "discarded"}
  PROVE  row'[i] = row[i]
<1> USE DEF RowInv
<1>r. row[i] \in Row /\ row[i].lease = "none"
  BY DEF TypeOK, LedgerShape, LeaseMatchesState
<1>1. ASSUME NEW j \in Items, ItemStep(j)  PROVE row'[i] = row[i]
  <2>1. CASE Schedule(j)
    BY <2>1 DEF Schedule, ScheduleRow, TypeOK
  <2>2. CASE DueArrives(j) \/ LeaseExpires(j)
    BY <1>r, <2>2 DEF DueArrives, LeaseExpires, TypeOK
  <2>3. CASE UNCHANGED row
    BY <2>3
  <2>4. ASSUME NEW n \in seen[j], NEW o \in Observation, ReadBackSettles(j, n, o)
        PROVE  row'[i] = row[i]
    BY <2>4 DEF ReadBackSettles, StillObserved, TypeOK
  <2>5. ASSUME NEW a \in Action, Operate(j, a)  PROVE row'[i] = row[i]
    BY <2>5 DEF Operate, Allowed, Action, TypeOK
  <2> QED  BY <1>1, <2>1, <2>2, <2>3, <2>4, <2>5 DEF ItemStep, QueueLoses, ReadBackStarts, ledger
<1>2. ASSUME NEW s \in Slots, WorkerStep(s)  PROVE row'[i] = row[i]
  <2>1. job[s] # i => row'[i] = row[i]
    BY <1>2 DEF WorkerStep, Claim, HandlerReturns, HandlerThrows, Renew, Complete, RenewToFail,
                Fail, Release, RenewLease, ledger, TypeOK
  <2>2. job[s] = i => UNCHANGED row
    BY <1>2 DEF WorkerStep, Claim, Claimable, HandlerReturns, HandlerThrows, Renew, Complete,
                RenewToFail, Fail, Release, Owned, OwnedLive, ledger
  <2> QED  BY <2>1, <2>2
<1>3. CASE Reconcile
  <2>1. PICK R, D, E \in SUBSET Items : ReserveDispatch(R, D, E)  BY <1>3 DEF Reconcile
  <2>2. i \notin R  BY <2>1 DEF ReserveDispatch, Reclaimable
  <2>3. i \notin D  BY <2>1, <2>2 DEF ReserveDispatch
  <2> QED  BY <2>1, <2>2, <2>3 DEF ReserveDispatch
<1> QED
  BY <1>1, <1>2, <1>3 DEF Next, Acquire, Refuse, SessionDies, HostCrashes, workVars, ledger

\* Success and discard are final, for late settlements and read-backs as for
\* operators and repeated scheduling.
THEOREM FinalRows == Spec => SettledIsFinal
<1>1. RowInv /\ [Next]_workVars =>
        [\A i \in Items : row[i].state \in {"succeeded", "discarded"} => row'[i] = row[i]
          ]_workVars
  BY FinalStep
<1>2. ClaimInv => RowInv  BY DEF ClaimInv
<1> QED  BY <1>1, <1>2, ClaimInvariant, PTL DEF Spec, SettledIsFinal

\* A read_back attempt is only left in doubt or completed, and only a read-back
\* that started from it, or discarding it, ends the doubt.
ReadBackDiscipline(i) ==
  /\ row[i].state = "running" => row'[i].state \in {"running", "uncertain", "succeeded"}
  /\ row[i].state = "uncertain" =>
       \/ row'[i].state \in {"uncertain", "discarded"}
       \/ row[i].attempts \in seen[i]

LEMMA ReadBackStep ==
  ASSUME RowInv, [Next]_workVars, NEW i \in Items, row[i].recovery = "read_back"
  PROVE  ReadBackDiscipline(i)
<1> USE DEF RowInv
<1>r. row[i] \in Row
  BY DEF TypeOK
<1>a. \A isTerminal : AfterAttempt(i, isTerminal) = "uncertain"
  BY DEF AfterAttempt
<1>0. ASSUME row'[i].state = row[i].state  PROVE ReadBackDiscipline(i)
  BY <1>0 DEF ReadBackDiscipline
<1>1. ASSUME NEW j \in Items, ItemStep(j)  PROVE ReadBackDiscipline(i)
  <2>1. CASE Schedule(j)
    <3>1. row[j].state = "absent" /\ \A k \in Items : k # j => row'[k] = row[k]
      BY <2>1 DEF Schedule, ScheduleRow, TypeOK
    <3> QED  BY <1>0, <3>1 DEF ReadBackDiscipline
  <2>2. CASE DueArrives(j) \/ LeaseExpires(j)
    <3>1. row'[i].state = row[i].state
      BY <1>r, <2>2 DEF DueArrives, LeaseExpires, TypeOK, Row
    <3> QED  BY <1>0, <3>1
  <2>3. CASE UNCHANGED row
    BY <1>0, <2>3
  <2>4. ASSUME NEW n \in seen[j], NEW o \in Observation, ReadBackSettles(j, n, o)
        PROVE  ReadBackDiscipline(i)
    <3>1. UNCHANGED row \/ (StillObserved(j, n) /\ \A k \in Items : k # j => row'[k] = row[k])
      BY <2>4 DEF ReadBackSettles, TypeOK
    <3> QED  BY <1>0, <3>1 DEF ReadBackDiscipline, StillObserved
  <2>5. ASSUME NEW a \in Action, Operate(j, a)  PROVE ReadBackDiscipline(i)
    <3>1. row[j].state \in Allowed(a) /\ \A k \in Items : k # j => row'[k] = row[k]
      BY <2>5 DEF Operate, TypeOK
    <3>2. a # "discard" => row[j].state \notin {"running", "uncertain"}
      BY <3>1 DEF Allowed, Action
    <3>3. a = "discard" => row[j].state # "running" /\ row'[j].state = "discarded"
      <4>1. a = "discard" => row'[j] = [row[j] EXCEPT !.state = "discarded"]
        BY <2>5 DEF Operate, TypeOK
      <4>2. a = "discard" => row[j].state # "running"
        BY <3>1 DEF Allowed
      <4> QED  BY <4>1, <4>2 DEF TypeOK, Row
    <3> QED  BY <1>0, <3>1, <3>2, <3>3 DEF ReadBackDiscipline
  <2> QED  BY <1>1, <2>1, <2>2, <2>3, <2>4, <2>5 DEF ItemStep, QueueLoses, ReadBackStarts, ledger
<1>2. ASSUME NEW s \in Slots, WorkerStep(s)  PROVE ReadBackDiscipline(i)
  <2>1. CASE job[s] # i \/ UNCHANGED row
    <3>1. row'[i] = row[i]
      BY <1>2, <2>1 DEF WorkerStep, Claim, HandlerReturns, HandlerThrows, Renew, Complete,
                        RenewToFail, Fail, Release, RenewLease, ledger, TypeOK
    <3> QED  BY <1>0, <3>1
  <2>2. CASE job[s] = i /\ ~UNCHANGED row
    <3>1. CASE Claim(s)
      BY <2>2, <3>1 DEF Claim, Claimable, ReadBackDiscipline
    <3>2. CASE Renew(s) \/ RenewToFail(s)
      <4>1. row' = [row EXCEPT ![i].lease = "live"]
        BY <2>2, <3>2 DEF Renew, RenewToFail, RenewLease
      <4> QED  BY <1>0, <1>r, <4>1 DEF TypeOK, Row
    <3>3. CASE Complete(s)
      <4>1. row[i].state = "running" /\ row' = [row EXCEPT ![i] = Unleased(row[i], "succeeded", row[i].ready)]
        BY <2>2, <3>3 DEF Complete, OwnedLive, Owned
      <4>2. row'[i].state = "succeeded"
        BY <1>r, <4>1 DEF Unleased, TypeOK, Row
      <4> QED  BY <4>1, <4>2 DEF ReadBackDiscipline
    <3>4. CASE Fail(s)
      <4>1. row[i].state = "running" /\ row' = [row EXCEPT ![i] = Unleased(row[i], "uncertain", "later")]
        BY <1>a, <2>2, <3>4 DEF Fail, OwnedLive, Owned
      <4>2. row'[i].state = "uncertain"
        BY <1>r, <4>1 DEF Unleased, TypeOK, Row
      <4> QED  BY <4>1, <4>2 DEF ReadBackDiscipline
    <3> QED
      BY <1>2, <2>2, <3>1, <3>2, <3>3, <3>4 DEF WorkerStep, HandlerReturns, HandlerThrows, Release, ledger
  <2> QED  BY <2>1, <2>2
<1>3. CASE Reconcile
  <2>1. PICK R, D, E \in SUBSET Items : ReserveDispatch(R, D, E)  BY <1>3 DEF Reconcile
  <2>2. CASE i \in R
    <3>1. row[i].state = "running" /\ Reclaimed(i) = Unleased(row[i], "uncertain", "dispatch")
      BY <1>a, <2>1, <2>2 DEF ReserveDispatch, Reclaimable, Reclaimed
    <3>2. Reclaimed(i).state = "uncertain"
      BY <1>r, <3>1 DEF Unleased, Row
    <3>3. i \notin D
      BY <2>1, <2>2, <3>2 DEF ReserveDispatch
    <3> QED  BY <2>1, <2>2, <3>1, <3>2, <3>3 DEF ReserveDispatch, ReadBackDiscipline
  <2>3. CASE i \notin R
    <3>1. row'[i] = row[i] \/ row'[i] = [row[i] EXCEPT !.ready = "due"]
      BY <2>1, <2>3 DEF ReserveDispatch
    <3> QED  BY <1>0, <1>r, <3>1 DEF Row
  <2> QED  BY <2>2, <2>3
<1>4. CASE UNCHANGED row
  BY <1>0, <1>4
<1> QED
  BY <1>1, <1>2, <1>3, <1>4 DEF Next, Acquire, Refuse, SessionDies, HostCrashes, workVars, ledger

\* Work whose effect may have reached a provider is never repeated without a
\* read-back of that very attempt.
THEOREM ReadBackFirst == Spec => UncertainNeedsReadBack
<1>1. RowInv /\ [Next]_workVars =>
        [\A i \in Items : row[i].recovery = "read_back" =>
           /\ row[i].state = "running" => row'[i].state \in {"running", "uncertain", "succeeded"}
           /\ row[i].state = "uncertain" =>
                \/ row'[i].state \in {"uncertain", "discarded"}
                \/ row[i].attempts \in seen[i]
          ]_workVars
  BY ReadBackStep DEF ReadBackDiscipline
<1>2. ClaimInv => RowInv  BY DEF ClaimInv
<1> QED  BY <1>1, <1>2, ClaimInvariant, PTL DEF Spec, UncertainNeedsReadBack
=============================================================================
