------------------------------- MODULE WorkItems -------------------------------
(***************************************************************************)
(* The durable work ledger (src/shared/db/work-items.server.ts) and the    *)
(* worker protocol around it: a BullMQ job carries only a work id, the     *)
(* worker takes a PostgreSQL session lock, claims a lease with a fencing   *)
(* token, runs its callback outside any transaction, renews, and settles.  *)
(* A reconciler reclaims expired leases and re-dispatches due work.        *)
(*                                                                         *)
(* Instants are abstracted to what the queries compare: a lease is live or *)
(* expired, and a pending row is not yet due ("later"), due but dispatched *)
(* within the last minute ("due"), or due and dispatchable ("dispatch").   *)
(* The code keeps due_at <= dispatch_after, so no fourth case exists.      *)
(* A randomUUID lease token is abstracted to the number of the attempt it  *)
(* was issued for: fresh for the item, and never issued twice.             *)
(***************************************************************************)
EXTENDS Naturals

CONSTANTS
  Items,       \* work item ids
  Slots,       \* worker executions that may run at once
  Hosts,       \* worker processes
  HostOf,      \* the process a slot belongs to
  Recoveries,  \* the recovery modes producers schedule work with
  InitialMax,  \* max_attempts of a new row
  Grant,       \* attempts an operator retry adds
  Ceiling,     \* the largest max_attempts
  None         \* no item

RecoveryMode == {"retry", "read_back"}

ASSUME WorkConstants ==
  /\ HostOf \in [Slots -> Hosts]
  /\ Recoveries \subseteq RecoveryMode
  /\ InitialMax \in Nat \ {0} /\ Grant \in Nat \ {0} /\ Ceiling \in Nat
  /\ InitialMax <= Ceiling
  /\ None \notin Items

VARIABLES
  row,       \* work_items, one row per item
  seen,      \* per item, the attempts its unfinished read-backs started from
  queued,    \* items with a job waiting in BullMQ
  pc,        \* where each slot is in the dispatcher
  job,       \* the item a slot executes
  held,      \* the lease token a slot claimed, 0 before it has one
  session,   \* whether a slot's session still holds its advisory lock
  terminal   \* whether a slot's failure forbids a retry

ledger == <<row, seen>>
slots  == <<pc, job, held, session, terminal>>
workVars == <<row, seen, queued, pc, job, held, session, terminal>>

WorkState == {"absent", "pending", "running", "succeeded", "quarantined",
              "uncertain", "cancelled", "discarded"}
Row == [recovery: RecoveryMode, state: WorkState, attempts: Nat, max: Nat, token: Nat,
        lease: {"none", "live", "expired"}, ready: {"later", "due", "dispatch"}]
Pc == {"idle", "locked", "work", "renew", "complete", "failrenew", "fail", "release"}

NoRow == [recovery |-> "retry", state |-> "absent", attempts |-> 0, max |-> InitialMax, token |-> 0,
          lease |-> "none", ready |-> "later"]

WorkInit ==
  /\ row = [i \in Items |-> NoRow]
  /\ seen = [i \in Items |-> {}]
  /\ queued = {}
  /\ pc = [s \in Slots |-> "idle"]
  /\ job = [s \in Slots |-> None]
  /\ held = [s \in Slots |-> 0]
  /\ session = [s \in Slots |-> FALSE]
  /\ terminal = [s \in Slots |-> FALSE]

-----------------------------------------------------------------------------
(* Rows *)

\* A settled or returned row carries no lease.
Unleased(r, state, ready) ==
  [r EXCEPT !.state = state, !.token = 0, !.lease = "none", !.ready = ready]

\* Deviations of the next definition: a state the schema does not have, the
\* terminal flag judged before the recovery mode, a budget off by one.
DeadLetter(i, isTerminal) ==
  IF isTerminal \/ row[i].attempts >= row[i].max THEN "dead" ELSE "pending"
TerminalFirst(i, isTerminal) ==
  CASE isTerminal \/ row[i].attempts >= row[i].max -> "quarantined"
    [] ~isTerminal /\ row[i].attempts < row[i].max /\ row[i].recovery = "read_back" -> "uncertain"
    [] OTHER -> "pending"
BudgetOffByOne(i, isTerminal) ==
  IF isTerminal \/ row[i].attempts > row[i].max THEN "quarantined" ELSE "pending"

\* The state a failed or abandoned attempt leaves behind.
AfterAttempt(i, isTerminal) ==
  CASE row[i].recovery = "read_back" -> "uncertain"
    [] row[i].recovery # "read_back" /\ (isTerminal \/ row[i].attempts >= row[i].max)
         -> "quarantined"
    [] OTHER -> "pending"

Owned(s) ==
  /\ row[job[s]].state = "running"
  /\ row[job[s]].token = held[s]

\* Deviation of the next definition: the token is not compared.
RunningLive(s) == row[job[s]].state = "running" /\ row[job[s]].lease = "live"

OwnedLive(s) == Owned(s) /\ row[job[s]].lease = "live"

LockHeld(i) == \E s \in Slots : job[s] = i /\ session[s]

Goto(s, next) == pc' = [pc EXCEPT ![s] = next]

-----------------------------------------------------------------------------
(* Scheduling and the queue *)

\* schedule: an existing row is returned untouched, so only the first
\* insertion is a step. The producer then adds a job, which may fail.
ScheduleRow(i, recovery, ready) ==
  row' = [row EXCEPT ![i] = [NoRow EXCEPT !.recovery = recovery, !.state = "pending", !.ready = ready]]

Schedule(i) ==
  /\ row[i].state = "absent"
  /\ \E recovery \in Recoveries, ready \in {"later", "dispatch"} :
       ScheduleRow(i, recovery, ready)
  /\ queued' \in {queued, queued \cup {i}}
  /\ UNCHANGED <<seen, slots>>

\* Redis loses a waiting job.
QueueLoses(i) ==
  /\ i \in queued
  /\ queued' = queued \ {i}
  /\ UNCHANGED <<ledger, slots>>

\* due_at (and with it dispatch_after) or dispatch_after alone is reached.
DueArrives(i) ==
  /\ row[i].state = "pending" /\ row[i].ready # "dispatch"
  /\ row' = [row EXCEPT ![i].ready = "dispatch"]
  /\ UNCHANGED <<seen, queued, slots>>

LeaseExpires(i) ==
  /\ row[i].lease = "live"
  /\ row' = [row EXCEPT ![i].lease = "expired"]
  /\ UNCHANGED <<seen, queued, slots>>

-----------------------------------------------------------------------------
(* The worker *)

\* The process's own executing set and the advisory lock are both free.
Free(s, i) ==
  \A t \in Slots : job[t] = i => HostOf[t] # HostOf[s] /\ ~session[t]

\* runExclusive takes the lock. Another job for the item may be waiting
\* behind this one.
Acquire(s, i) ==
  /\ pc[s] = "idle" /\ i \in queued /\ Free(s, i)
  /\ Goto(s, "locked")
  /\ job' = [job EXCEPT ![s] = i]
  /\ session' = [session EXCEPT ![s] = TRUE]
  /\ queued' \in {queued, queued \ {i}}
  /\ UNCHANGED <<ledger, held, terminal>>

\* A job whose lock is refused is consumed: the lock is taken, the reconciler
\* has it for the length of a transaction, or the attempt to take it errs.
Refuse(s, i) ==
  /\ pc[s] = "idle" /\ i \in queued
  /\ queued' = queued \ {i}
  /\ UNCHANGED <<ledger, slots>>

\* The last conjunct never decides: a pending row has budget (LedgerShape).
Claimable(i) ==
  /\ row[i].state = "pending" /\ row[i].ready # "later"
  /\ row[i].attempts < row[i].max

\* claim. The commit can outlive its reply: then the attempt is spent, nobody
\* knows the token, and the error leaves runExclusive.
Claim(s) ==
  LET i == job[s]
      token == row[i].attempts + 1
  IN
  /\ pc[s] = "locked"
  /\ \/ /\ Claimable(i)
        /\ row' = [row EXCEPT ![i].state = "running", ![i].attempts = token,
                              ![i].token = token, ![i].lease = "live"]
        /\ \/ Goto(s, "work") /\ held' = [held EXCEPT ![s] = token]
           \/ Goto(s, "release") /\ UNCHANGED held
     \/ ~Claimable(i) /\ Goto(s, "release") /\ UNCHANGED <<row, held>>
  /\ UNCHANGED <<seen, queued, job, session, terminal>>

HandlerReturns(s) ==
  /\ pc[s] = "work"
  /\ Goto(s, "renew")
  /\ UNCHANGED <<ledger, queued, job, held, session, terminal>>

HandlerThrows(s, isTerminal) ==
  /\ pc[s] = "work"
  /\ Goto(s, "failrenew")
  /\ terminal' = [terminal EXCEPT ![s] = isTerminal]
  /\ UNCHANGED <<ledger, queued, job, held, session>>

RenewLease(i) == row' = [row EXCEPT ![i].lease = "live"]

\* renew before completion: it revives an expired lease nobody reclaimed. Its
\* statement or its reply may be lost; a lost lease throws.
Renew(s) ==
  /\ pc[s] = "renew"
  /\ \/ Owned(s) /\ RenewLease(job[s]) /\ \E to \in {"complete", "failrenew"} : Goto(s, to)
     \/ UNCHANGED row /\ Goto(s, "failrenew")
  /\ UNCHANGED <<seen, queued, job, held, session, terminal>>

\* complete: a false answer is not an error. A lost reply enters the catch.
Complete(s) ==
  /\ pc[s] = "complete"
  /\ \/ /\ OwnedLive(s)
        /\ row' = [row EXCEPT ![job[s]] = Unleased(@, "succeeded", @.ready)]
        /\ \E to \in {"release", "failrenew"} : Goto(s, to)
     \/ ~OwnedLive(s) /\ UNCHANGED row /\ Goto(s, "release")
     \/ UNCHANGED row /\ Goto(s, "failrenew")
  /\ UNCHANGED <<seen, queued, job, held, session, terminal>>

\* renew in the catch block; its own error skips fail.
RenewToFail(s) ==
  /\ pc[s] = "failrenew"
  /\ \/ Owned(s) /\ RenewLease(job[s]) /\ \E to \in {"fail", "release"} : Goto(s, to)
     \/ ~Owned(s) /\ UNCHANGED row /\ Goto(s, "fail")
     \/ UNCHANGED row /\ Goto(s, "release")
  /\ UNCHANGED <<seen, queued, job, held, session, terminal>>

Fail(s) ==
  /\ pc[s] = "fail"
  /\ \/ /\ OwnedLive(s)
        /\ row' = [row EXCEPT ![job[s]] =
                     Unleased(@, AfterAttempt(job[s], terminal[s]), "later")]
     \/ UNCHANGED row
  /\ Goto(s, "release")
  /\ UNCHANGED <<seen, queued, job, held, session, terminal>>

ResetSlots(S) ==
  /\ pc' = [s \in Slots |-> IF s \in S THEN "idle" ELSE pc[s]]
  /\ job' = [s \in Slots |-> IF s \in S THEN None ELSE job[s]]
  /\ held' = [s \in Slots |-> IF s \in S THEN 0 ELSE held[s]]
  /\ session' = [s \in Slots |-> IF s \in S THEN FALSE ELSE session[s]]
  /\ terminal' = [s \in Slots |-> IF s \in S THEN FALSE ELSE terminal[s]]

\* The finally block: unlock, or destroy the client if unlocking fails.
Release(s) ==
  /\ pc[s] = "release"
  /\ ResetSlots({s})
  /\ UNCHANGED <<ledger, queued>>

\* The lock's own connection dies; the callback uses other connections and
\* keeps running.
SessionDies(s) ==
  /\ session[s]
  /\ session' = [session EXCEPT ![s] = FALSE]
  /\ UNCHANGED <<ledger, queued, pc, job, held, terminal>>

\* A process dies with its sessions. BullMQ may hand its active jobs to a
\* stalled recovery.
HostCrashes(h) ==
  LET S == {s \in Slots : HostOf[s] = h /\ pc[s] # "idle"} IN
  /\ S # {}
  /\ ResetSlots(S)
  /\ \E redelivered \in SUBSET {job[s] : s \in S} : queued' = queued \cup redelivered
  /\ UNCHANGED ledger

-----------------------------------------------------------------------------
(* The reconciler, the owner's read-back and the operator *)

\* Deviation of the next definition: the advisory lock is not looked at.
ReclaimableUnlocked(i) == row[i].state = "running" /\ row[i].lease = "expired"

Reclaimable(i) ==
  /\ row[i].state = "running" /\ row[i].lease = "expired"
  /\ ~LockHeld(i)

Reclaimed(i) == Unleased(row[i], AfterAttempt(i, FALSE), "dispatch")

\* reserveDispatch reclaims R and reserves D in one transaction; a batch, a
\* skipped lock or the pass's earlier cutoff may leave rows out of either.
\* reconcileWorkItems then enqueues D; only E reaches the queue.
ReserveDispatch(R, D, E) ==
  LET after == [i \in Items |-> IF i \in R THEN Reclaimed(i) ELSE row[i]] IN
  /\ R \cup D # {}
  /\ \A i \in R : Reclaimable(i)
  /\ \A i \in D : after[i].state = "pending" /\ after[i].ready = "dispatch"
  /\ E \subseteq D
  /\ row' = [i \in Items |-> IF i \in D THEN [after[i] EXCEPT !.ready = "due"]
                                       ELSE after[i]]
  /\ queued' = queued \cup E
  /\ UNCHANGED <<seen, slots>>

\* resolveUncertain reads the row, then asks the provider outside any
\* transaction. Several read-backs of one item may be under way.
ReadBackStarts(i) ==
  /\ row[i].state = "uncertain"
  /\ seen' = [seen EXCEPT ![i] = @ \cup {row[i].attempts}]
  /\ UNCHANGED <<row, queued, slots>>

\* Deviation of the next definition: the state is not compared.
AttemptUnchanged(i, n) == row[i].attempts = n

\* Its update compares state and attempts with the n it read. (updated_at too,
\* which adds nothing: a row cannot leave and re-enter "uncertain" without a
\* claim, and a claim raises attempts.)
StillObserved(i, n) == row[i].state = "uncertain" /\ row[i].attempts = n

\* Deviation of the next definition: the attempt budget is not compared.
VerdictPastBudget(i, n, observation) ==
  IF observation = "applied" THEN "succeeded" ELSE "pending"

\* "applied" settles the row; otherwise the effect is known not to have
\* happened and a further attempt is allowed while the budget lasts.
Verdict(i, n, observation) ==
  IF observation = "applied" THEN "succeeded"
  ELSE IF n >= row[i].max THEN "quarantined" ELSE "pending"

ReadBackSettles(i, n, observation) ==
  /\ n \in seen[i]
  /\ seen' = [seen EXCEPT ![i] = @ \ {n}]
  /\ \/ /\ observation # "unknown" /\ StillObserved(i, n)
        /\ row' = [row EXCEPT ![i] = [@ EXCEPT !.ready = "dispatch",
                                               !.state = Verdict(i, n, observation)]]
     \/ /\ observation = "unknown" \/ ~StillObserved(i, n)
        /\ UNCHANGED row
  /\ UNCHANGED <<queued, slots>>

\* Deviation of the next definition: succeeded work may be discarded.
AllowedLate(action) ==
  IF action = "retry" THEN {"quarantined"} ELSE {"pending", "quarantined", "succeeded"}

\* operate: a running row is never touched, and an uncertain one is only ever
\* discarded. A retry extends the budget.
Allowed(action) ==
  CASE action = "retry"  -> {"quarantined"}
    [] action = "cancel" -> {"pending", "quarantined"}
    [] OTHER             -> {"pending", "quarantined", "uncertain", "cancelled"}

Retried(r) ==
  [r EXCEPT !.state = "pending", !.ready = "dispatch",
            !.max = IF @ + Grant <= Ceiling THEN @ + Grant ELSE Ceiling]

Operate(i, action) ==
  /\ row[i].state \in Allowed(action)
  /\ action = "retry" => row[i].attempts < Ceiling
  /\ row' = [row EXCEPT ![i] =
       CASE action = "retry"  -> Retried(@)
         [] action = "cancel" -> [@ EXCEPT !.state = "cancelled"]
         [] OTHER             -> [@ EXCEPT !.state = "discarded"]]
  /\ UNCHANGED <<seen, queued, slots>>

-----------------------------------------------------------------------------
Observation == {"applied", "not_applied", "unknown"}
Action == {"retry", "cancel", "discard"}

WorkerStep(s) ==
  \/ Claim(s) \/ HandlerReturns(s)
  \/ \E isTerminal \in BOOLEAN : HandlerThrows(s, isTerminal)
  \/ Renew(s) \/ Complete(s) \/ RenewToFail(s) \/ Fail(s) \/ Release(s)

ItemStep(i) ==
  \/ Schedule(i) \/ QueueLoses(i) \/ DueArrives(i) \/ LeaseExpires(i)
  \/ ReadBackStarts(i)
  \/ \E n \in seen[i], o \in Observation : ReadBackSettles(i, n, o)
  \/ \E a \in Action : Operate(i, a)

Reconcile == \E R, D, E \in SUBSET Items : ReserveDispatch(R, D, E)

Next ==
  \/ \E i \in Items : ItemStep(i)
  \/ \E s \in Slots, i \in Items : Acquire(s, i) \/ Refuse(s, i)
  \/ \E s \in Slots : WorkerStep(s) \/ SessionDies(s)
  \/ \E h \in Hosts : HostCrashes(h)
  \/ Reconcile

Spec == WorkInit /\ [][Next]_workVars

-----------------------------------------------------------------------------
(* Fairness. Processes may crash and sessions may die for ever, so a slot's  *)
(* next step is fair each time it is possible, except the steps a crash      *)
(* cannot starve. Callbacks are assumed to finish; the lock is assumed to be *)
(* granted, and a claim committed, sooner or later when tried again and      *)
(* again; the reconciler's timer and the clock keep running. Nothing is      *)
(* assumed of the queue but that one enqueue in infinitely many succeeds.    *)

Reclaims(i) == \E R, D, E \in SUBSET Items : i \in R /\ ReserveDispatch(R, D, E)
Enqueues(i) == \E R, D, E \in SUBSET Items : i \in E /\ ReserveDispatch(R, D, E)

Fairness ==
  /\ \A s \in Slots : WF_workVars(WorkerStep(s))
  /\ \A i \in Items :
       /\ WF_workVars(DueArrives(i)) /\ WF_workVars(LeaseExpires(i))
       /\ SF_workVars(Reclaims(i)) /\ SF_workVars(Enqueues(i))
       /\ SF_workVars(\E s \in Slots : Acquire(s, i))
       /\ SF_workVars(\E s \in Slots : job[s] = i /\ Claim(s))

FairSpec == Spec /\ Fairness

-----------------------------------------------------------------------------
(* Properties *)

\* Every variable ranges over the values the schema and the worker give it.
TypeOK ==
  /\ row \in [Items -> Row]
  /\ seen \in [Items -> SUBSET Nat]
  /\ queued \in SUBSET Items
  /\ pc \in [Slots -> Pc]
  /\ job \in [Slots -> Items \cup {None}]
  /\ held \in [Slots -> Nat]
  /\ session \in [Slots -> BOOLEAN]
  /\ terminal \in [Slots -> BOOLEAN]

\* The CHECK constraints of work_items (a violation would be an exception in
\* whichever statement met it), and that no pending row has spent its budget:
\* claim would refuse such a row for ever, and operate could not retry it.
LeaseMatchesState(r) ==
  /\ (r.state = "running") <=> (r.token # 0)
  /\ (r.state = "running") <=> (r.lease # "none")
WithinBudget(r) ==
  /\ r.attempts <= r.max /\ r.max <= Ceiling
  /\ r.state = "pending" => r.attempts < r.max
LedgerShape == \A i \in Items : LeaseMatchesState(row[i]) /\ WithinBudget(row[i])

\* "A session lock isolates a live callback even after its durable lease
\* expires": while a callback's session holds the advisory lock, its claim is
\* the row's current one, however late it is, and no other execution of the
\* item runs with a session of its own.
LockedCallbackOwnsRow ==
  \A s \in Slots : session[s] /\ pc[s] \in {"work", "renew"} =>
    /\ Owned(s)
    /\ \A t \in Slots \ {s} : job[t] = job[s] => ~session[t]

\* A running attempt ends only by its own worker's settlement, or by a reclaim
\* after its lease expired and its session lock was gone. A worker that lost
\* its claim, an operator, a scheduler and a read-back cannot end it.
Settles(s) == pc[s] \in {"complete", "fail"} /\ pc'[s] # pc[s]
AttemptEndsByOwnerOrReclaim ==
  [][\A i \in Items :
       row[i].state = "running" /\ row'[i].token # row[i].token =>
         \/ row[i].lease = "expired" /\ \A s \in Slots : job[s] = i => ~session[s]
         \/ \E s \in Slots : job[s] = i /\ held[s] = row[i].token /\ Settles(s)
    ]_workVars

\* Success and discard are final: late settlements, read-backs, operators and
\* repeated scheduling leave such a row exactly as it is.
SettledIsFinal ==
  [][\A i \in Items : row[i].state \in {"succeeded", "discarded"} => row'[i] = row[i]
    ]_workVars

\* A read_back item whose attempt may have reached the provider is never tried
\* again on anybody's word but a read-back of that very attempt: not after a
\* crash, a terminal error, an operator's retry or a stale observation.
UncertainNeedsReadBack ==
  [][\A i \in Items : row[i].recovery = "read_back" =>
       /\ row[i].state = "running" => row'[i].state \in {"running", "uncertain", "succeeded"}
       /\ row[i].state = "uncertain" =>
            \/ row'[i].state \in {"uncertain", "discarded"}
            \/ row[i].attempts \in seen[i]
    ]_workVars

\* Work that is due is settled, quarantined or left to a read-back in the end,
\* whatever crashes, lost jobs and lost replies come between.
Unfinished(i) == row[i].state \in {"pending", "running"}
WorkSettles == \A i \in Items : Unfinished(i) ~> ~Unfinished(i)
=============================================================================
