--------------------------- MODULE PoolReservation ---------------------------
(***************************************************************************)
(* One process's PostgreSQL pool and the discipline that keeps the holder  *)
(* of a Review source fence from waiting on it: an exact-current apply is  *)
(* admitted against a process-wide budget                                  *)
(* (exact-current-apply-admission.ts), takes every client it will need one *)
(* at a time and in turn before it takes a lock                            *)
(* (src/shared/db/pool-client-reservation.ts), and lends them to its own   *)
(* checkouts. Around it run the two other shapes of work the budget counts *)
(* (src/worker/pool-budget.ts): the dispatcher's execution, which holds a  *)
(* session client for its advisory lock and makes the applies, and plain   *)
(* transactions that hold one client while they queue on the fence.        *)
(*                                                                         *)
(* A pool slot is a client; opening a connection in a free slot is part of *)
(* serving it. The retries of pool.connect are folded into one wait.       *)
(***************************************************************************)
EXTENDS Naturals, Sequences, FiniteSets

CONSTANTS
  Dispatch,  \* dispatcher executions that may run at once
  Plain,     \* transactions of other work that take the fence
  Clients,   \* the pool's slots
  Reserve,   \* REVIEW_EXACT_CURRENT_APPLY_CLIENTS
  Limit,     \* REVIEW_EXACT_CURRENT_MAX_CONCURRENT_APPLIES
  None       \* nobody

\* The budget of pool-budget.ts, as far as it is needed: a client for every
\* session, and one reservation besides.
ASSUME PoolConstants ==
  /\ IsFiniteSet(Clients) /\ IsFiniteSet(Dispatch)
  /\ Reserve \in Nat /\ Reserve >= 2 /\ Limit \in Nat \ {0}
  /\ Cardinality(Clients) >= Cardinality(Dispatch) + Reserve
  /\ Dispatch \cap Plain = {} /\ None \notin Dispatch \cup Plain

Units == Dispatch \cup Plain

VARIABLES
  pc,        \* where each unit of work is
  holder,    \* who has checked a client out
  use,       \* what a client is checked out for
  queue,     \* pool.connect calls that wait, in order
  waiters,   \* applies that wait for admission, in order
  active,    \* the admission counter
  turnQueue, \* reservations that wait for their turn, in order
  turn,      \* the unit that acquires its reservation
  fence,     \* the transaction that holds the row lock
  lost       \* units whose reservation lost a client

vars == <<pc, holder, use, queue, waiters, active, turnQueue, turn, fence, lost>>
clients == <<holder, use>>
admission == <<waiters, active>>
turns == <<turnQueue, turn>>

\* Checkouts that wait on the pool, by what they wait for.
Connecting == {"session", "query", "acquire", "outer", "nested", "begin"}
Pc == Connecting \cup {"idle", "running", "reading", "admission", "turn", "work",
                       "locking", "fenced", "inner", "settle"}
\* A transaction's or a plain read's client is "lent" by the unit's reservation
\* or its "own"; inside a transaction the second one is "inner" or "spare". One
\* that is still used when the reservation settles is "late".
Use == {"free", "session", "own", "parked", "lent", "inner", "spare", "late"}

Init ==
  /\ pc = [u \in Units |-> "idle"]
  /\ holder = [c \in Clients |-> None] /\ use = [c \in Clients |-> "free"]
  /\ queue = <<>> /\ waiters = <<>> /\ active = 0
  /\ turnQueue = <<>> /\ turn = None /\ fence = None
  /\ lost = {}

-----------------------------------------------------------------------------
(* The pool *)

Free == {c \in Clients : holder[c] = None}
Of(u, as) == {c \in Clients : holder[c] = u /\ use[c] = as}
Parked(u) == Of(u, "parked")

Goto(u, next) == pc' = [pc EXCEPT ![u] = next]
Connect(u, for) == Goto(u, for) /\ queue' = Append(queue, u)

Becomes(S, u, as) ==
  /\ holder' = [c \in Clients |-> IF c \in S THEN u ELSE holder[c]]
  /\ use' = [c \in Clients |-> IF c \in S THEN as ELSE use[c]]
ToPool(S) == Becomes(S, None, "free")

\* What a served checkout is for, and where its caller goes on.
ServedAs(u) ==
  IF pc[u] = "session" THEN "session"
  ELSE IF pc[u] = "acquire" THEN "parked" ELSE IF pc[u] = "nested" THEN "spare" ELSE "own"
GoesOn(u) ==
  IF pc[u] = "session" THEN "running"
  ELSE IF pc[u] = "query" THEN "reading" ELSE IF pc[u] = "nested" THEN "inner" ELSE "locking"

\* Deviation of the next definition: only the outer transaction's client.
OnlyOuter(u) == Cardinality(Parked(u)) + 1 = 1

\* acquireInTurn has its last client.
Complete(u) == Cardinality(Parked(u)) + 1 = Reserve

\* The pool serves its first waiter. A reservation that wants more waits anew.
Serve(c) ==
  LET u == Head(queue) IN
  /\ queue # <<>> /\ c \in Free
  /\ Becomes({c}, u, ServedAs(u))
  /\ \/ /\ pc[u] # "acquire"
        /\ Goto(u, GoesOn(u)) /\ queue' = Tail(queue) /\ UNCHANGED turn
     \/ /\ pc[u] = "acquire" /\ Complete(u)
        /\ Goto(u, "work") /\ queue' = Tail(queue) /\ turn' = None
     \/ /\ pc[u] = "acquire" /\ ~Complete(u)
        /\ queue' = Append(Tail(queue), u) /\ UNCHANGED <<pc, turn>>
  /\ UNCHANGED <<admission, turnQueue, fence, lost>>

\* Deviation of the next definition: the place handed over is not counted.
LeaveUncounted ==
  /\ active' = active - 1
  /\ IF waiters = <<>> THEN UNCHANGED <<waiters, turnQueue>>
     ELSE waiters' = Tail(waiters) /\ turnQueue' = Append(turnQueue, Head(waiters))

\* release in the finally block of run: the first waiter takes the place.
Leave ==
  IF waiters = <<>> THEN active' = active - 1 /\ UNCHANGED <<waiters, turnQueue>>
  ELSE /\ active' = active - 1 + 1
       /\ waiters' = Tail(waiters)
       /\ turnQueue' = Append(turnQueue, Head(waiters))

\* A unit that leaves goes on; the waiter that takes its place waits its turn.
GotoAndAdmit(u, next) ==
  pc' = [v \in Units |-> IF v = u THEN next
                         ELSE IF waiters # <<>> /\ v = Head(waiters) THEN "turn" ELSE pc[v]]

Without(q, u) ==
  LET k == CHOOSE k \in DOMAIN q : q[k] = u IN SubSeq(q, 1, k - 1) \o SubSeq(q, k + 1, Len(q))

\* Deviation of the next definition: a failed reservation keeps what it has.
KeepsPartial(u) == UNCHANGED clients

\* A reservation that fails half-way returns what it has.
ReturnPartial(u) == ToPool(Parked(u))

\* Where the caller of a checkout that throws goes on.
BacksOff(u) ==
  IF pc[u] \in {"session", "begin"} THEN "idle"
  ELSE IF pc[u] = "query" THEN "running" ELSE IF pc[u] = "outer" THEN "settle" ELSE "fenced"

\* A checkout times out, or its connection is refused.
ConnectFails(u) ==
  /\ pc[u] \in Connecting
  /\ queue' = Without(queue, u)
  /\ \/ /\ pc[u] = "acquire"
        /\ ReturnPartial(u)
        /\ turn' = None /\ Leave /\ GotoAndAdmit(u, "running")
     \/ /\ pc[u] # "acquire"
        /\ Goto(u, BacksOff(u))
        /\ UNCHANGED <<clients, turns, admission>>
  /\ UNCHANGED <<fence, lost>>

\* The connection of a parked client drops: it is evicted.
Dropped(c) ==
  /\ use[c] = "parked" /\ pc[holder[c]] # "acquire"
  /\ lost' = lost \cup {holder[c]}
  /\ ToPool({c})
  /\ UNCHANGED <<pc, queue, admission, turns, fence>>

-----------------------------------------------------------------------------
(* Units *)

Start(u) ==
  /\ pc[u] = "idle"
  /\ Connect(u, IF u \in Dispatch THEN "session" ELSE "begin")
  /\ UNCHANGED <<clients, admission, turns, fence, lost>>

\* The ledger's statements and other plain reads, one client each.
Query(u) ==
  /\ pc[u] = "running"
  /\ Connect(u, "query")
  /\ UNCHANGED <<clients, admission, turns, fence, lost>>
QueryEnds(u) ==
  /\ pc[u] = "reading"
  /\ Goto(u, "running") /\ ToPool(Of(u, "own"))
  /\ UNCHANGED <<queue, admission, turns, fence, lost>>

\* runExclusive's own client is released last.
End(u) ==
  /\ pc[u] = "running"
  /\ Goto(u, "idle") /\ ToPool(Of(u, "session"))
  /\ UNCHANGED <<queue, admission, turns, fence, lost>>

\* Deviation of the next definition: the count is compared one too late.
RoomForOneMore == active <= Limit

Room == active < Limit

Apply(u) ==
  /\ pc[u] = "running"
  /\ \/ /\ Room
        /\ active' = active + 1 /\ turnQueue' = Append(turnQueue, u)
        /\ Goto(u, "turn") /\ UNCHANGED waiters
     \/ /\ ~Room
        /\ waiters' = Append(waiters, u) /\ Goto(u, "admission")
        /\ UNCHANGED <<active, turnQueue>>
  /\ UNCHANGED <<clients, queue, turn, fence, lost>>

\* Deviation of the next definition: reservations do not take turns.
NobodyAcquires == TRUE

TurnFree == turn = None

TakeTurn ==
  LET u == Head(turnQueue) IN
  /\ turnQueue # <<>> /\ TurnFree
  /\ turn' = u /\ turnQueue' = Tail(turnQueue)
  /\ Connect(u, "acquire")
  /\ UNCHANGED <<clients, admission, fence, lost>>

\* A checkout of the unit's own: from the reservation, else from the pool.
CheckOut(u, as, has, waits) ==
  \/ \E c \in Parked(u) : Becomes({c}, u, as) /\ Goto(u, has) /\ UNCHANGED queue
  \/ Parked(u) = {} /\ Connect(u, waits) /\ UNCHANGED clients

\* Deviation of the next definition: a lent client goes back to the pool.
BackToPool(u, c) == ToPool({c}) /\ UNCHANGED lost

\* Its release: to the reservation if it was lent and is usable, else to the
\* pool.
CheckIn(u, c) ==
  \/ use[c] \in {"lent", "inner"} /\ Becomes({c}, u, "parked") /\ UNCHANGED lost
  \/ use[c] \in {"lent", "inner"} /\ ToPool({c}) /\ lost' = lost \cup {u}
  \/ use[c] \in {"own", "spare"} /\ ToPool({c}) /\ UNCHANGED lost

\* db.transaction of the apply, or the apply throws before it.
Open(u) ==
  /\ pc[u] = "work"
  /\ \/ CheckOut(u, "lent", "locking", "outer")
     \/ Goto(u, "settle") /\ UNCHANGED <<clients, queue>>
  /\ UNCHANGED <<admission, turns, fence, lost>>

Lock(u) ==
  /\ pc[u] = "locking" /\ fence = None
  /\ fence' = u /\ Goto(u, "fenced")
  /\ UNCHANGED <<clients, queue, admission, turns, lost>>

\* The consumer's transaction, or a plain read before it.
Nest(u) ==
  /\ pc[u] = "fenced" /\ u \in Dispatch
  /\ CheckOut(u, "inner", "inner", "nested")
  /\ UNCHANGED <<admission, turns, fence, lost>>

Outer(u) == Of(u, "lent") \cup Of(u, "own")
Inner(u) == Of(u, "inner") \cup Of(u, "spare")

Unnest(u) ==
  /\ pc[u] = "inner"
  /\ \E c \in Inner(u) : CheckIn(u, c)
  /\ Goto(u, "fenced")
  /\ UNCHANGED <<queue, admission, turns, fence>>

\* Commit or rollback, by lock timeout too. The consumer may still be using
\* its client when the outer transaction is rolled back.
EndTransaction(u) ==
  /\ pc[u] \in {"locking", "fenced", "inner"}
  /\ \E c \in Outer(u) : CheckIn(u, c)
  /\ Goto(u, IF u \in Dispatch THEN "settle" ELSE "idle")
  /\ fence' = IF fence = u THEN None ELSE fence
  /\ UNCHANGED <<queue, admission, turns>>

\* The finally blocks of withReservedPoolClients and of the admission.
Settle(u) ==
  /\ pc[u] = "settle"
  /\ holder' = [c \in Clients |-> IF c \in Parked(u) THEN None ELSE holder[c]]
  /\ use' = [c \in Clients |-> IF c \in Parked(u) THEN "free"
                               ELSE IF c \in Inner(u) THEN "late" ELSE use[c]]
  /\ Leave /\ GotoAndAdmit(u, "running")
  /\ lost' = lost \ {u}
  /\ UNCHANGED <<queue, turn, fence>>

LateRelease(c) ==
  /\ use[c] = "late"
  /\ ToPool({c})
  /\ UNCHANGED <<pc, queue, admission, turns, fence, lost>>

Next ==
  \/ \E c \in Clients : Serve(c) \/ Dropped(c) \/ LateRelease(c)
  \/ TakeTurn
  \/ \E u \in Units : \/ Start(u) \/ Open(u) \/ Lock(u) \/ Nest(u) \/ Unnest(u)
                      \/ EndTransaction(u) \/ Settle(u) \/ ConnectFails(u)
  \/ \E u \in Dispatch : Query(u) \/ QueryEnds(u) \/ End(u) \/ Apply(u)

Spec == Init /\ [][Next]_vars

-----------------------------------------------------------------------------
(* Fairness. Statements finish and callbacks do finitely many things; the    *)
(* pool and the row lock serve their waiters in order. Nothing is assumed of *)
(* the timeouts, so what follows never waits for one.                        *)

Fairness ==
  /\ WF_vars(\E c \in Clients : Serve(c)) /\ WF_vars(TakeTurn)
  /\ \A c \in Clients : WF_vars(LateRelease(c))
  /\ \A u \in Units : /\ WF_vars(Open(u)) /\ SF_vars(Lock(u)) /\ WF_vars(Unnest(u))
                      /\ SF_vars(pc[u] = "fenced" /\ EndTransaction(u)) /\ WF_vars(Settle(u))
  /\ \A u \in Dispatch : WF_vars(QueryEnds(u)) /\ SF_vars(End(u))

FairSpec == Spec /\ Fairness

-----------------------------------------------------------------------------
(* Properties *)

\* Every variable ranges over what the pool and the two modules keep.
PoolTypeOK ==
  /\ pc \in [Units -> Pc]
  /\ holder \in [Clients -> Units \cup {None}]
  /\ use \in [Clients -> Use]
  /\ queue \in Seq(Units) /\ waiters \in Seq(Dispatch) /\ turnQueue \in Seq(Dispatch)
  /\ active \in Nat
  /\ turn \in Dispatch \cup {None} /\ fence \in Units \cup {None}
  /\ lost \in SUBSET Dispatch

\* The admission counter counts exactly the applies between admission and the
\* end of their finally block, through failures and handed-over places, never
\* beyond the limit; and nobody waits while there is room.
Admitted == {u \in Dispatch : pc[u] \in {"turn", "acquire", "work", "outer", "locking",
                                        "fenced", "inner", "nested", "settle"}}
AdmissionExact ==
  /\ active = Cardinality(Admitted) /\ active <= Limit
  /\ waiters # <<>> => active = Limit

\* No client leaks: a unit out of the reserved part of its run holds nothing
\* reserved, an idle one nothing at all but a client a late user still has.
NoClientLeaks ==
  \A c \in Clients : holder[c] # None =>
    /\ use[c] \in {"parked", "lent", "inner"} => holder[c] \in Admitted
    /\ pc[holder[c]] = "idle" => use[c] = "late"

\* "The holder never waits on the pool": who holds the fence waits for a
\* client only after its reservation lost one to a broken connection.
HolderNeverWaits ==
  \A u \in Units : fence = u /\ pc[u] \in Connecting => u \in lost

\* The exhausted pool is never held by waiters alone, each waiting for a
\* client, for the fence or for a reservation of the others: some client's
\* user is at work and will give it back, without any timeout.
Waits(u) ==
  \/ pc[u] \in Connecting \cup {"admission", "turn"}
  \/ pc[u] = "locking" /\ fence # None
NoStandstill ==
  (\A u \in Units : pc[u] # "nested") =>
    \E c \in Clients : holder[c] = None \/ use[c] = "late" \/ ~Waits(holder[c])

\* Every unit of work ends, unless a reservation lost a client.
UnitsEnd == \A u \in Units : pc[u] # "idle" ~> (pc[u] = "idle" \/ lost # {})
=============================================================================
