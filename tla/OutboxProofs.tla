------------------------------ MODULE OutboxProofs ------------------------------
(***************************************************************************)
(* Theorems about OutboxDelivery for any number of facts, consumers,       *)
(* relays, slots and processes. The ledger's own invariants carry over     *)
(* from WorkItemsProofs, because every step of the outbox is a step of the *)
(* ledger or leaves it alone.                                              *)
(***************************************************************************)
EXTENDS OutboxDelivery, WorkItemsProofs

-----------------------------------------------------------------------------
(* The ledger under the outbox *)

LEMMA OutboxStepsLedger == OutboxNext => [Next]_workVars
<1> SUFFICES ASSUME OutboxNext  PROVE [Next]_workVars
  OBVIOUS
<1>1. ASSUME NEW f \in Items, Record(f) \/ Retain(f)  PROVE UNCHANGED workVars
  BY <1>1 DEF Record, Retain
<1>2. ASSUME NEW r \in Relays, RelayLooks(r) \/ RelayCrashes(r)  PROVE UNCHANGED workVars
  BY <1>2 DEF RelayLooks, RelayCrashes
<1>3. ASSUME NEW r \in Relays, NEW f \in Items, RelayAdmits(r, f) \/ RelaySkips(r, f)
      PROVE  [Next]_workVars
  BY <1>3 DEF RelayAdmits, RelaySkips, Next, ItemStep
<1>4. CASE Fence
  BY <1>4 DEF Fence
<1>5. ASSUME NEW s \in Slots, Callback(s)  PROVE [Next]_workVars
  <2>1. ASSUME NEW t \in BOOLEAN, Throw(s, t)  PROVE [Next]_workVars
    BY <2>1 DEF Throw, Next, WorkerStep
  <2>2. CASE Return(s)
    BY <2>2 DEF Return, Next, WorkerStep
  <2>3. ReadEvent(s) => UNCHANGED workVars \/ Return(s) \/ \E t \in BOOLEAN : Throw(s, t)
    BY DEF ReadEvent
  <2>4. \A c \in Consumers : Invoke(s, c) => UNCHANGED workVars \/ Throw(s, FALSE)
    BY DEF Invoke
  <2>5. EndOfLoop(s) => Return(s) \/ Throw(s, FALSE)
    BY DEF EndOfLoop
  <2>6. Deny(s) \/ HandleInTransaction(s) \/ HandleEffect(s) \/ HandleReceipt(s)
          => UNCHANGED workVars
    BY DEF Deny, HandleInTransaction, HandleEffect, HandleReceipt
  <2> QED  BY <1>5, <2>1, <2>2, <2>3, <2>4, <2>5, <2>6 DEF Callback
<1>6. ASSUME NEW s \in Slots, Protocol(s)  PROVE [Next]_workVars
  BY <1>6 DEF Protocol, Next, WorkerStep
<1>7. ASSUME NEW h \in Hosts, Crash(h)  PROVE [Next]_workVars
  BY <1>7 DEF Crash, Next
<1>8. CASE Ledger
  BY <1>8 DEF Ledger, Next, ItemStep
<1> QED  BY <1>1, <1>2, <1>3, <1>4, <1>5, <1>6, <1>7, <1>8 DEF OutboxNext

LEMMA LedgerInvariant == OutboxSpec => []ClaimInv
<1>1. OutboxInit => ClaimInv
  BY TypeInit, RowShapeInit, ClaimInit DEF OutboxInit, ClaimInv, RowInv
<1>2. ClaimInv /\ [OutboxNext]_vars => ClaimInv'
  <2>1. UNCHANGED vars => UNCHANGED workVars  BY DEF vars
  <2> QED  BY <2>1, OutboxStepsLedger, ClaimStep
<1> QED  BY <1>1, <1>2, PTL DEF OutboxSpec

-----------------------------------------------------------------------------
(* Types *)

\* A slot outside its callback has no call, and one inside a consumer knows
\* which.
CallShape ==
  \A s \in Slots :
    /\ pc[s] # "work" => call[s] = NoCall
    /\ call[s].at \in {"deny", "handle", "receipt"} => call[s].consumer \in Consumers

OutboxShape == OutboxTypeOK /\ CallShape

LEMMA ShapeInit == OutboxInit => OutboxShape
<1> SUFFICES ASSUME OutboxInit  PROVE OutboxShape
  OBVIOUS
<1>1. applied \in [Items -> [Consumers -> 0..MaxRepeats]]
  BY OutboxConstants DEF OutboxInit
<1>2. NoCall \in Call  BY DEF NoCall, Call
<1>3. fact \in [Items -> Fact] /\ receipts \in [Items -> SUBSET Consumers]  BY DEF OutboxInit
<1> QED  BY <1>1, <1>2, <1>3 DEF OutboxInit, OutboxTypeOK, OutboxShape, CallShape, NoCall

\* The calls a consumer's step can leave.
NamesConsumer(c) == c.at \in {"deny", "handle", "receipt"} => c.consumer \in Consumers

LEMMA CallTypes ==
  ASSUME OutboxShape, NEW s \in Slots
  PROVE  /\ call[s] \in Call /\ NamesConsumer(call[s])
         /\ NoCall \in Call /\ NamesConsumer(NoCall)
         /\ \A todo \in SUBSET Consumers : [NoCall EXCEPT !.at = "next", !.todo = todo] \in Call
         /\ \A c \in Consumers, at \in {"deny", "handle"} :
              [call[s] EXCEPT !.at = at, !.consumer = c] \in Call
         /\ [call[s] EXCEPT !.at = "receipt"] \in Call
         /\ \A c \in Consumers : /\ [call[s] EXCEPT !.todo = @ \ {c}] \in Call
                                 /\ [call[s] EXCEPT !.todo = @ \ {c}, !.failed = TRUE] \in Call
         /\ \A failed \in BOOLEAN :
              [call[s] EXCEPT !.at = "next", !.todo = @ \ {call[s].consumer},
                              !.consumer = NoConsumer, !.failed = @ \/ failed] \in Call
<1>1. call[s] \in Call /\ NamesConsumer(call[s])
  BY DEF OutboxShape, OutboxTypeOK, CallShape, NamesConsumer
<1>2. call[s].failed \in BOOLEAN /\ call[s].todo \in SUBSET Consumers  BY <1>1 DEF Call
<1>3. \A failed \in BOOLEAN : (call[s].failed \/ failed) \in BOOLEAN  BY <1>2
<1>4. NoCall \in Call /\ NamesConsumer(NoCall)  BY DEF Call, NoCall, NamesConsumer
<1>5. ASSUME NEW failed \in BOOLEAN
      PROVE  [call[s] EXCEPT !.at = "next", !.todo = @ \ {call[s].consumer},
                             !.consumer = NoConsumer, !.failed = @ \/ failed] \in Call
  <2>1. PICK b \in BOOLEAN : b = (call[s].failed \/ failed)  BY <1>3
  <2>2. [call[s] EXCEPT !.at = "next", !.todo = @ \ {call[s].consumer},
                        !.consumer = NoConsumer, !.failed = b] \in Call
    BY <1>1 DEF Call
  <2> QED  BY <2>1, <2>2
<1> QED  BY <1>1, <1>4, <1>5 DEF Call, NoCall

\* A step that moves one slot's call.
LEMMA MovedCall ==
  ASSUME OutboxShape, TypeOK', NEW s \in Slots, NEW new \in Call, Becomes(s, new), NamesConsumer(new),
         \A t \in Slots : pc'[t] # "work" => IF t = s THEN new = NoCall ELSE pc[t] # "work",
         fact' \in [Items -> Fact], receipts' \in [Items -> SUBSET Consumers],
         applied' \in [Items -> [Consumers -> 0..MaxRepeats]], denied' \in [Items -> SUBSET Consumers],
         UNCHANGED view
  PROVE  OutboxShape'
<1>1. call' \in [Slots -> Call]  BY DEF Becomes, OutboxShape, OutboxTypeOK
<1>2. \A t \in Slots : call'[t] = IF t = s THEN new ELSE call[t]
  BY DEF Becomes, OutboxShape, OutboxTypeOK
<1>3. CallShape'  BY <1>2 DEF OutboxShape, CallShape, NamesConsumer
<1> QED  BY <1>1, <1>3 DEF OutboxShape, OutboxTypeOK

LEMMA CallbackShape ==
  ASSUME OutboxShape, TypeOK, TypeOK', BusyHasJob, NEW s \in Slots, Callback(s)
  PROVE  OutboxShape'
<1> USE DEF OutboxShape, OutboxTypeOK
<1> DEFINE f == job[s]
           c == call[s].consumer
<1>0. f \in Items /\ pc[s] = "work"
  BY DEF Callback, ReadEvent, Invoke, Deny, HandleInTransaction, HandleEffect, HandleReceipt,
         EndOfLoop, BusyHasJob, Return, Throw, HandlerReturns, HandlerThrows
<1>c. call[s] \in Call /\ (call[s].at \in {"deny", "handle", "receipt"} => c \in Consumers)
  BY CallTypes DEF NamesConsumer
<1>w. ASSUME UNCHANGED pc  PROVE \A t \in Slots : pc'[t] # "work" => t # s /\ pc[t] # "work"
  BY <1>0, <1>w
<1>r. ASSUME Return(s) \/ \E t \in BOOLEAN : Throw(s, t)  PROVE OutboxShape'
  <2>1. \A t \in Slots : pc'[t] # "work" => t = s \/ pc[t] # "work"
    BY <1>r DEF Return, Throw, HandlerReturns, HandlerThrows, Goto, TypeOK
  <2>2. Becomes(s, NoCall) /\ UNCHANGED <<fact, receipts, applied, denied, view>>
    BY <1>r DEF Return, Throw
  <2> QED  BY <2>1, <2>2, CallTypes, MovedCall
<1>m. ASSUME NEW new \in Call, NamesConsumer(new), Becomes(s, new), UNCHANGED <<pc, fact, view>>,
             receipts' \in [Items -> SUBSET Consumers],
             applied' \in [Items -> [Consumers -> 0..MaxRepeats]],
             denied' \in [Items -> SUBSET Consumers]
      PROVE  OutboxShape'
  BY <1>m, <1>w, MovedCall
<1>f. ASSUME NEW failed \in BOOLEAN, Finished(s, failed), UNCHANGED <<pc, fact, view>>,
             receipts' \in [Items -> SUBSET Consumers],
             applied' \in [Items -> [Consumers -> 0..MaxRepeats]],
             denied' \in [Items -> SUBSET Consumers]
      PROVE  OutboxShape'
  <2> DEFINE new == [call[s] EXCEPT !.at = "next", !.todo = @ \ {call[s].consumer},
                                    !.consumer = NoConsumer, !.failed = @ \/ failed]
  <2>1. new \in Call  BY CallTypes
  <2>2. new.at = "next"  BY <1>c DEF Call
  <2>3. NamesConsumer(new)  BY <2>2 DEF NamesConsumer
  <2>4. Becomes(s, new)  BY <1>f DEF Finished
  <2> HIDE DEF new
  <2> QED  BY <1>f, <1>m, <2>1, <2>3, <2>4
<1>i. ASSUME call[s].at \in {"deny", "handle", "receipt"}, InsertReceipt(f, c)
      PROVE  receipts' \in [Items -> SUBSET Consumers]
  BY <1>i, <1>0, <1>c DEF InsertReceipt
<1>e. ASSUME call[s].at \in {"deny", "handle", "receipt"}, Effect(f, c)
      PROVE  applied' \in [Items -> [Consumers -> 0..MaxRepeats]]
  <2>1. c \in Consumers  BY <1>e, <1>c
  <2> DEFINE n == IF applied[f][c] < MaxRepeats THEN applied[f][c] + 1 ELSE applied[f][c]
  <2>2. n \in 0..MaxRepeats
    <3>1. applied[f][c] \in 0..MaxRepeats /\ MaxRepeats \in Nat  BY <1>0, <2>1, OutboxConstants
    <3> QED  BY <3>1
  <2>3. applied' = [applied EXCEPT ![f][c] = n]  BY <1>e DEF Effect
  <2> HIDE DEF n
  <2>4. [applied[f] EXCEPT ![c] = n] \in [Consumers -> 0..MaxRepeats]  BY <1>0, <2>2
  <2> QED  BY <1>0, <2>3, <2>4
<1>1. CASE ReadEvent(s)
  <2>1. CASE Return(s) \/ \E t \in BOOLEAN : Throw(s, t)  BY <2>1, <1>r
  <2>2. CASE /\ Becomes(s, [NoCall EXCEPT !.at = "next", !.todo = Registered[HostOf[s]]])
             /\ UNCHANGED <<workVars, fact, receipts, applied, denied, view>>
    <3> DEFINE new == [NoCall EXCEPT !.at = "next", !.todo = Registered[HostOf[s]]]
    <3>1. Registered[HostOf[s]] \in SUBSET Consumers  BY OutboxConstants, WorkConstants
    <3>2. new \in Call  BY <3>1, CallTypes
    <3>3. new.at = "next"  BY DEF NoCall
    <3>4. NamesConsumer(new)  BY <3>3 DEF NamesConsumer
    <3>5. Becomes(s, new)  BY <2>2
    <3> HIDE DEF new
    <3> QED  BY <2>2, <1>m, <3>2, <3>4, <3>5 DEF workVars
  <2>3. \/ Return(s) \/ \E t \in BOOLEAN : Throw(s, t)
        \/ /\ Becomes(s, [NoCall EXCEPT !.at = "next", !.todo = Registered[HostOf[s]]])
           /\ UNCHANGED <<workVars, fact, receipts, applied, denied, view>>
    BY <1>1 DEF ReadEvent
  <2> QED  BY <2>1, <2>2, <2>3
<1>2. ASSUME NEW d \in Consumers, Invoke(s, d)  PROVE OutboxShape'
  <2>0. call[s].at = "next"  BY <1>2 DEF Invoke
  <2>1. CASE Throw(s, FALSE)  BY <2>1, <1>r
  <2>m. ASSUME NEW new \in Call, NamesConsumer(new), Becomes(s, new),
               UNCHANGED <<workVars, fact, receipts, applied, denied, view>>
        PROVE  OutboxShape'
    BY <2>m, <1>m DEF workVars
  <2>2. CASE Becomes(s, [call[s] EXCEPT !.todo = @ \ {d}])
             /\ UNCHANGED <<workVars, fact, receipts, applied, denied, view>>
    <3> DEFINE new == [call[s] EXCEPT !.todo = @ \ {d}]
    <3>1. new \in Call  BY CallTypes
    <3>2. new.at = "next"  BY <1>c, <2>0 DEF Call
    <3> HIDE DEF new
    <3>3. NamesConsumer(new)  BY <3>2 DEF NamesConsumer
    <3> QED  BY <2>2, <2>m, <3>1, <3>3 DEF new
  <2>3. CASE Becomes(s, [call[s] EXCEPT !.todo = @ \ {d}, !.failed = TRUE])
             /\ UNCHANGED <<workVars, fact, receipts, applied, denied, view>>
    <3> DEFINE new == [call[s] EXCEPT !.todo = @ \ {d}, !.failed = TRUE]
    <3>1. new \in Call  BY CallTypes
    <3>2. new.at = "next"  BY <1>c, <2>0 DEF Call
    <3> HIDE DEF new
    <3>3. NamesConsumer(new)  BY <3>2 DEF NamesConsumer
    <3> QED  BY <2>3, <2>m, <3>1, <3>3 DEF new
  <2>4. ASSUME NEW at \in {"deny", "handle"}, Becomes(s, [call[s] EXCEPT !.at = at, !.consumer = d]),
               UNCHANGED <<workVars, fact, receipts, applied, denied, view>>
        PROVE  OutboxShape'
    <3> DEFINE new == [call[s] EXCEPT !.at = at, !.consumer = d]
    <3>1. new \in Call  BY CallTypes
    <3>2. new.consumer = d  BY <1>c DEF Call
    <3> HIDE DEF new
    <3>3. NamesConsumer(new)  BY <3>2 DEF NamesConsumer
    <3> QED  BY <2>4, <2>m, <3>1, <3>3 DEF new
  <2> QED  BY <1>2, <2>1, <2>2, <2>3, <2>4 DEF Invoke
<1>3. CASE Deny(s)
  <2>0. call[s].at = "deny" /\ UNCHANGED <<pc, fact, view, applied>>  BY <1>3 DEF Deny, workVars
  <2>1. CASE InsertReceipt(f, c) /\ Finished(s, FALSE)
    <3>0. denied' = denied \/ denied' = [denied EXCEPT ![f] = @ \cup {c}]
      BY <1>3 DEF Deny
    <3>1. denied' \in [Items -> SUBSET Consumers]
      BY <3>0, <2>0, <1>0, <1>c
    <3> QED  BY <2>0, <2>1, <3>1, <1>i, <1>f
  <2>2. CASE Finished(s, TRUE) /\ UNCHANGED <<receipts, denied>>
    BY <2>0, <2>2, <1>f
  <2> QED  BY <1>3, <2>1, <2>2 DEF Deny
<1>4. CASE HandleInTransaction(s)
  <2>0. call[s].at = "handle" /\ UNCHANGED <<pc, fact, view, denied>>
    BY <1>4 DEF HandleInTransaction, workVars
  <2>1. ASSUME InsertReceipt(f, c), NEW failed \in BOOLEAN, Finished(s, failed)  PROVE OutboxShape'
    <3>1. applied' \in [Items -> [Consumers -> 0..MaxRepeats]]
      BY <1>4, <2>0, <1>e DEF HandleInTransaction
    <3> QED  BY <2>0, <2>1, <3>1, <1>i, <1>f
  <2>2. CASE Finished(s, TRUE) /\ UNCHANGED <<receipts, applied>>
    BY <2>0, <2>2, <1>f
  <2> QED  BY <1>4, <2>1, <2>2 DEF HandleInTransaction
<1>5. CASE HandleEffect(s)
  <2>0. call[s].at = "handle" /\ UNCHANGED <<pc, fact, receipts, view, denied>>
    BY <1>5 DEF HandleEffect, workVars
  <2>1. CASE Effect(f, c) /\ Becomes(s, [call[s] EXCEPT !.at = "receipt"])
    <3> DEFINE new == [call[s] EXCEPT !.at = "receipt"]
    <3>1. new \in Call  BY CallTypes
    <3>2. new.consumer = c  BY <1>c DEF Call
    <3> HIDE DEF new
    <3>3. NamesConsumer(new)  BY <1>c, <2>0, <3>2 DEF NamesConsumer
    <3> QED  BY <2>0, <2>1, <1>m, <1>e, <3>1, <3>3 DEF new
  <2>2. CASE Finished(s, TRUE) /\ UNCHANGED applied
    BY <2>0, <2>2, <1>f
  <2> QED  BY <1>5, <2>1, <2>2 DEF HandleEffect
<1>6. CASE HandleReceipt(s)
  <2>0. call[s].at = "receipt" /\ UNCHANGED <<pc, fact, view, denied, applied>>
    BY <1>6 DEF HandleReceipt, workVars
  <2> QED  BY <1>6, <2>0, <1>i, <1>f DEF HandleReceipt
<1>7. CASE EndOfLoop(s)
  BY <1>7, <1>r DEF EndOfLoop
<1> QED  BY <1>1, <1>2, <1>3, <1>4, <1>5, <1>6, <1>7 DEF Callback

LEMMA CallsKept ==
  ASSUME OutboxShape, ClaimInv, NEW s \in Slots, Protocol(s)
  PROVE  \A t \in Slots : pc'[t] # "work" => pc[t] # "work"
<1>1. \A t \in Slots \ {s} : pc'[t] = pc[t]
  BY DEF Protocol, Claim, Renew, Complete, RenewToFail, Fail, Release, ResetSlots, Goto,
         ClaimInv, RowInv, TypeOK
<1>2. pc[s] # "work"
  BY DEF Protocol, Claim, Renew, Complete, RenewToFail, Fail, Release
<1> QED  BY <1>1, <1>2

LEMMA ShapeStep ==
  ASSUME OutboxShape, ClaimInv, ClaimInv', [OutboxNext]_vars
  PROVE  OutboxShape'
<1> USE DEF OutboxShape, OutboxTypeOK
<1>t. TypeOK /\ TypeOK' /\ BusyHasJob  BY DEF ClaimInv, RowInv
<1>q. ASSUME fact' \in [Items -> Fact], receipts' \in [Items -> SUBSET Consumers],
             view' \in [Relays -> SUBSET Items], UNCHANGED <<pc, applied, denied, call>>
      PROVE  OutboxShape'
  BY <1>q DEF CallShape
<1>1. ASSUME NEW f \in Items, Record(f)  PROVE OutboxShape'
  <2>1. fact' \in [Items -> Fact]  BY <1>1 DEF Record, Fact
  <2> QED  BY <1>1, <1>q, <2>1 DEF Record, workVars
<1>2. ASSUME NEW f \in Items, Retain(f)  PROVE OutboxShape'
  <2>1. fact' \in [Items -> Fact]  BY <1>2 DEF Retain, Fact
  <2>2. receipts' \in [Items -> SUBSET Consumers]  BY <1>2 DEF Retain
  <2> QED  BY <1>2, <1>q, <2>1, <2>2 DEF Retain, workVars
<1>3. ASSUME NEW r \in Relays, RelayLooks(r) \/ RelayCrashes(r)  PROVE OutboxShape'
  <2>1. view' \in [Relays -> SUBSET Items]  BY <1>3 DEF RelayLooks, RelayCrashes
  <2> QED  BY <1>3, <1>q, <2>1 DEF RelayLooks, RelayCrashes, workVars
<1>4. ASSUME NEW r \in Relays, NEW f \in Items, RelayAdmits(r, f) \/ RelaySkips(r, f)
      PROVE  OutboxShape'
  <2>1. view' \in [Relays -> SUBSET Items]  BY <1>4 DEF RelayAdmits, RelaySkips
  <2>0. [fact[f] EXCEPT !.published = TRUE] \in Fact  BY DEF Fact
  <2>2. fact' \in [Items -> Fact]
    <3>1. fact' = fact \/ fact' = [fact EXCEPT ![f] = [fact[f] EXCEPT !.published = TRUE]]
      BY <1>4 DEF RelayAdmits, RelaySkips
    <3> QED  BY <2>0, <3>1
  <2> QED  BY <1>4, <1>q, <2>1, <2>2 DEF RelayAdmits, RelaySkips, Schedule, workVars, slots
<1>5. CASE Fence
  <2>1. \A f \in Items : [fact[f] EXCEPT !.status = "fenced"] \in Fact  BY DEF Fact
  <2>2. fact' \in [Items -> Fact]
    <3> DEFINE S == {f \in Items : Live(f) /\ ~fact[f].published}
    <3>1. fact' = [f \in Items |-> IF f \in S THEN [fact[f] EXCEPT !.status = "fenced"] ELSE fact[f]]
      BY <1>5 DEF Fence
    <3> HIDE DEF S
    <3> QED  BY <2>1, <3>1
  <2> QED  BY <1>5, <1>q, <2>2 DEF Fence, workVars
<1>6. ASSUME NEW s \in Slots, Protocol(s)  PROVE OutboxShape'
  BY <1>6, CallsKept DEF Protocol, outbox, CallShape
<1>7. ASSUME NEW h \in Hosts, Crash(h)  PROVE OutboxShape'
  <2>1. call' \in [Slots -> Call]  BY <1>7, CallTypes DEF Crash
  <2>2. \A s \in Slots : HostOf[s] # h => pc'[s] = pc[s]
    BY <1>7 DEF Crash, HostCrashes, ResetSlots
  <2>3. \A s \in Slots : call'[s] = IF HostOf[s] = h THEN NoCall ELSE call[s]
    BY <1>7 DEF Crash
  <2>4. CallShape'
    <3>1. NoCall.at = "read"  BY DEF NoCall
    <3> QED  BY <2>2, <2>3, <3>1 DEF CallShape
  <2> QED  BY <1>7, <2>1, <2>4 DEF Crash
<1>8. CASE Ledger
  <2>1. \A s \in Slots : pc'[s] # "work" => pc[s] # "work"
    <3>1. ASSUME NEW s \in Slots, NEW i \in Items, Acquire(s, i)
          PROVE  \A t \in Slots : pc'[t] # "work" => pc[t] # "work"
      BY <3>1, <1>t DEF Acquire, Goto, TypeOK
    <3>2. UNCHANGED pc \/ \E s \in Slots, i \in Items : Acquire(s, i)
      BY <1>8 DEF Ledger, QueueLoses, DueArrives, LeaseExpires, Operate, Refuse, SessionDies,
                  Reconcile, ReserveDispatch, slots
    <3> QED  BY <3>1, <3>2
  <2> QED  BY <1>8, <2>1 DEF Ledger, outbox, CallShape
<1>9. CASE UNCHANGED vars
  BY <1>9 DEF vars, workVars, outbox, CallShape
<1> QED  BY <1>t, <1>1, <1>2, <1>3, <1>4, <1>5, <1>6, <1>7, <1>8, <1>9, CallbackShape DEF OutboxNext

\* The tables of the outbox and the dispatcher's calls keep their types.
THEOREM OutboxTyped == OutboxSpec => []OutboxTypeOK
<1>1. OutboxShape => OutboxTypeOK  BY DEF OutboxShape
<1>2. OutboxShape /\ ClaimInv /\ ClaimInv' /\ [OutboxNext]_vars => OutboxShape'  BY ShapeStep
<1> QED  BY <1>1, <1>2, ShapeInit, LedgerInvariant, PTL DEF OutboxSpec

-----------------------------------------------------------------------------
(* What became of the facts *)

\* Only published facts have work, and only published facts that the fence did
\* not take reach anybody. The fence takes unpublished facts, retention
\* published ones; a relay may publish a fact after the fence took it.
FactLife ==
  \A f \in Items :
    /\ fact[f].status = "unrecorded" => ~fact[f].published
    /\ fact[f].status = "deleted" => fact[f].published
    /\ row[f].state # "absent" => fact[f].published
    /\ ~fact[f].published \/ fact[f].status = "fenced" =>
         receipts[f] = {} /\ \A c \in Consumers : ~Handled(f, c)

Delivered(f) ==
  \/ fact[f].status = "deleted"
  \/ fact[f].status = "recorded" /\ row[f].state = "succeeded"

\* Receipts agree with what was done, and a fact is delivered when it was done
\* for every catalogued consumer.
Books ==
  \A f \in Items, c \in Consumers :
    /\ c \in receipts[f] => Handled(f, c)
    /\ c \in Transactional /\ Handled(f, c) => c \in receipts[f] \/ fact[f].status = "deleted"
    /\ c \in Catalogue /\ Delivered(f) => Handled(f, c)

Fenced(f) == fact[f].status = "fenced"
Settleable(f) == Fenced(f) \/ \A c \in Catalogue : Handled(f, c)

\* A callback past its read has a fact that the fence did not take, a handler
\* about to write its receipt has had its effect, and a callback about to
\* complete its work was done with every consumer or had a fenced fact.
SlotsKnow ==
  \A s \in Slots :
    /\ call[s].at # "read" => ~Fenced(job[s])
    /\ call[s].at = "receipt" => Handled(job[s], call[s].consumer)
    /\ pc[s] \in {"renew", "complete"} => Settleable(job[s])

OutboxInv == ClaimInv /\ OutboxShape /\ FactLife /\ Books /\ SlotsKnow

LEMMA OutboxInvInit == OutboxInit => FactLife /\ Books /\ SlotsKnow
<1> SUFFICES ASSUME OutboxInit  PROVE FactLife /\ Books /\ SlotsKnow
  OBVIOUS
<1>1. \A f \in Items : /\ row[f].state = "absent"
                       /\ <<fact[f].status, fact[f].published>> \in
                            {<<"unrecorded", FALSE>>, <<"recorded", TRUE>>}
                       /\ receipts[f] \in SUBSET Consumers
                       /\ fact[f].status = "unrecorded" => receipts[f] = {}
  BY DEF OutboxInit, WorkInit, NoRow
<1>2. \A f \in Items, c \in Consumers : Handled(f, c) <=> c \in receipts[f]
  BY DEF OutboxInit, Handled
<1>3. \A s \in Slots : call[s].at = "read" /\ pc[s] = "idle"
  BY DEF OutboxInit, WorkInit, NoCall
<1>4. FactLife  BY <1>1, <1>2 DEF FactLife
<1>5. Books  BY <1>1, <1>2 DEF Books, Delivered
<1>6. SlotsKnow  BY <1>3 DEF SlotsKnow
<1> QED  BY <1>4, <1>5, <1>6

\* Nobody forgets an effect or a denial, and the fence neither takes nor spares
\* a published fact after all.
Remembers ==
  /\ \A f \in Items, c \in Consumers : Handled(f, c) => Handled(f, c)'
  /\ \A f \in Items : fact[f].published => (Fenced(f)' <=> Fenced(f))

\* The job of a slot with a token has work, and its fact was published and
\* recorded once.
LEMMA HolderFact ==
  ASSUME OutboxInv, NEW s \in Slots, pc[s] \in Holding
  PROVE  /\ job[s] \in Items /\ row[job[s]].state # "absent"
         /\ fact[job[s]].published /\ fact[job[s]].status \in {"recorded", "fenced", "deleted"}
<1>1. job[s] \in Items /\ held[s] # 0
  BY HolderHasJob DEF OutboxInv, ClaimInv, Claims, SlotShape
<1>2. held[s] <= row[job[s]].attempts /\ held[s] \in Nat /\ row[job[s]].attempts \in Nat
  BY <1>1 DEF OutboxInv, ClaimInv, Claims, TokensDiffer, RowInv, TypeOK, Row
<1>3. row[job[s]].state # "absent"
  BY <1>1, <1>2 DEF OutboxInv, ClaimInv, RowInv, RowHistory
<1> QED
  BY <1>1, <1>3 DEF OutboxInv, FactLife, OutboxShape, OutboxTypeOK, Fact

\* Rows' states under the ledger's own steps: work neither appears nor
\* disappears, and exactly the work of "done" becomes succeeded.
Rowwise(done) ==
  \A i \in Items :
    /\ (row'[i].state = "absent") <=> (row[i].state = "absent")
    /\ (row'[i].state = "succeeded") <=> (row[i].state = "succeeded" \/ i \in done)

LEMMA ProtocolRows ==
  ASSUME ClaimInv, NEW s \in Slots, Protocol(s)
  PROVE  Rowwise({}) \/ (pc[s] = "complete" /\ job[s] \in Items /\ Rowwise({job[s]}))
<1> USE DEF ClaimInv, RowInv, TypeOK
<1>0. job[s] \in Items
  BY DEF Protocol, Claim, Renew, Complete, RenewToFail, Fail, Release, BusyHasJob
<1>o. Owned(s) => row[job[s]].state = "running"  BY DEF Owned
<1>u. \A state, ready : Unleased(row[job[s]], state, ready).state = state
  BY <1>0 DEF Unleased, Row
<1>q. ASSUME \A i \in Items : row'[i].state = row[i].state  PROVE Rowwise({})
  BY <1>q DEF Rowwise
<1>1. CASE Claim(s)
  <2>1. \A i \in Items : \/ row'[i].state = row[i].state
                         \/ i = job[s] /\ row[i].state = "pending" /\ row'[i].state = "running"
    BY <1>0, <1>1 DEF Claim, Claimable, Row
  <2> QED  BY <2>1 DEF Rowwise
<1>2. CASE Renew(s) \/ RenewToFail(s)
  <2>1. UNCHANGED row \/ RenewLease(job[s])  BY <1>2 DEF Renew, RenewToFail
  <2>2. \A i \in Items : row'[i].state = row[i].state  BY <1>0, <2>1 DEF RenewLease, Row
  <2> QED  BY <1>q, <2>2
<1>3. CASE Complete(s)
  <2>1. \A i \in Items : \/ row'[i].state = row[i].state
                         \/ i = job[s] /\ row[i].state = "running" /\ row'[i].state = "succeeded"
    BY <1>0, <1>o, <1>u, <1>3 DEF Complete, OwnedLive
  <2>2. pc[s] = "complete"  BY <1>3 DEF Complete
  <2> QED  BY <1>0, <2>1, <2>2 DEF Rowwise
<1>4. CASE Fail(s)
  <2>0. AfterAttempt(job[s], terminal[s]) \in AfterStates  BY <1>0, RowTypes
  <2>1. \A i \in Items : \/ row'[i].state = row[i].state
                         \/ i = job[s] /\ row[i].state = "running" /\ row'[i].state \in AfterStates
    BY <1>0, <1>o, <1>u, <1>4, <2>0 DEF Fail, OwnedLive
  <2> QED  BY <2>1 DEF Rowwise, AfterStates
<1>5. CASE Release(s)
  BY <1>5, <1>q DEF Release, ledger
<1> QED  BY <1>1, <1>2, <1>3, <1>4, <1>5 DEF Protocol

LEMMA LedgerRows ==
  ASSUME ClaimInv, Ledger
  PROVE  Rowwise({})
<1> USE DEF ClaimInv, RowInv, TypeOK
<1>q. ASSUME \A i \in Items : row'[i].state = row[i].state  PROVE Rowwise({})
  BY <1>q DEF Rowwise
<1>1. ASSUME NEW i \in Items, DueArrives(i) \/ LeaseExpires(i)  PROVE Rowwise({})
  <2>1. \A j \in Items : row'[j].state = row[j].state
    BY <1>1 DEF DueArrives, LeaseExpires, Row
  <2> QED  BY <1>q, <2>1
<1>2. ASSUME NEW i \in Items, NEW a \in Action, Operate(i, a)  PROVE Rowwise({})
  <2>1. row[i].state \in {"pending", "quarantined", "uncertain", "cancelled"}
    BY <1>2 DEF Operate, Allowed, Action
  <2>2. row'[i].state \in {"pending", "cancelled", "discarded"}
    BY <1>2 DEF Operate, Retried, Row
  <2>3. \A j \in Items : j # i => row'[j] = row[j]  BY <1>2 DEF Operate
  <2> QED  BY <2>1, <2>2, <2>3 DEF Rowwise
<1>3. CASE Reconcile
  <2>1. PICK R, D, E \in SUBSET Items : ReserveDispatch(R, D, E)  BY <1>3 DEF Reconcile
  <2>2. \A i \in Items : Reclaimed(i).state \in AfterStates /\ Reclaimed(i) \in Row
    BY RowTypes DEF Reclaimed, Unleased, Row
  <2>3. \A i \in R : row[i].state = "running"  BY <2>1 DEF ReserveDispatch, Reclaimable
  <2> DEFINE after(i) == IF i \in R THEN Reclaimed(i) ELSE row[i]
  <2>4. \A i \in Items : row'[i] = IF i \in D THEN [after(i) EXCEPT !.ready = "due"] ELSE after(i)
    BY <2>1 DEF ReserveDispatch
  <2>5. \A i \in Items : after(i) \in Row  BY <2>2
  <2>6. \A i \in Items : row'[i].state = after(i).state  BY <2>4, <2>5 DEF Row
  <2>7. \A i \in Items : \/ row'[i].state = row[i].state
                         \/ row[i].state = "running" /\ row'[i].state \in AfterStates
    BY <2>2, <2>3, <2>6
  <2> QED  BY <2>7 DEF Rowwise, AfterStates
<1>4. UNCHANGED row \/ (\E i \in Items : \/ DueArrives(i) \/ LeaseExpires(i)
                                         \/ \E a \in Action : Operate(i, a))
        \/ Reconcile
  BY DEF Ledger, QueueLoses, Acquire, Refuse, SessionDies, ledger
<1> QED  BY <1>q, <1>1, <1>2, <1>3, <1>4

-----------------------------------------------------------------------------
(* Every step keeps the books and the promise *)

PromiseStep == [Promise!Next]_(Promise!factVars)

Kept == FactLife' /\ Books' /\ SlotsKnow' /\ PromiseStep

LEMMA FateKinds ==
  ASSUME OutboxInv, NEW f \in Items
  PROVE  /\ fact[f].status = "unrecorded" => FateOf(f) = "unrecorded"
         /\ fact[f].status = "fenced" => FateOf(f) = "stopped"
         /\ fact[f].status = "recorded" =>
              FateOf(f) = IF row[f].state = "succeeded" THEN "delivered" ELSE "open"
         /\ fact[f].status = "deleted" => FateOf(f) = "delivered"
         /\ fact[f].status \in {"unrecorded", "recorded", "fenced", "deleted"}
<1>1. fact[f].status \in {"unrecorded", "recorded", "fenced", "deleted"}
  BY DEF OutboxInv, OutboxShape, OutboxTypeOK, Fact
<1> QED  BY <1>1 DEF FateOf

LEMMA SameFates ==
  ASSUME \A f \in Items : FateOf(f)' = FateOf(f), UNCHANGED <<applied, denied>>
  PROVE  PromiseStep
<1>1. [f \in Items |-> FateOf(f)]' = [f \in Items |-> FateOf(f)]
  OBVIOUS
<1> QED  BY <1>1 DEF PromiseStep, Promise!factVars

LEMMA DeliversOne ==
  ASSUME NEW f \in Items, FateOf(f) = "open", FateOf(f)' = "delivered",
         \A g \in Items : g # f => FateOf(g)' = FateOf(g),
         \A c \in Catalogue : Handled(f, c), UNCHANGED <<applied, denied>>
  PROVE  PromiseStep
<1> DEFINE fate == [g \in Items |-> FateOf(g)]
<1>1. fate' = [fate EXCEPT ![f] = "delivered"]
  OBVIOUS
<1>2. fate[f] = "open"
  OBVIOUS
<1> HIDE DEF fate
<1>3. \A c \in Catalogue : Promise!Had(f, c)  BY DEF Promise!Had, Handled
<1>4. Promise!Deliver(f)  BY <1>1, <1>2, <1>3 DEF Promise!Deliver, fate
<1> QED  BY <1>4 DEF PromiseStep, Promise!Next

\* What the slots know stays true while their calls only move on.
LEMMA KnowledgeKept ==
  ASSUME OutboxInv, Remembers,
         \A s \in Slots : call'[s].at # "read" =>
           (call[s].at # "read" /\ job'[s] = job[s]) \/ ~Fenced(job[s])',
         \A s \in Slots : call'[s].at = "receipt" =>
           (call'[s] = call[s] /\ job'[s] = job[s]) \/ Handled(job[s], call[s].consumer)',
         \A s \in Slots : pc'[s] \in {"renew", "complete"} =>
           (pc[s] \in {"renew", "complete"} /\ job'[s] = job[s]) \/ Settleable(job[s])'
  PROVE  SlotsKnow'
<1>0. ASSUME NEW s \in Slots, call'[s].at # "read"  PROVE ~Fenced(job[s])'
  <2>1. CASE call[s].at # "read" /\ job'[s] = job[s]
    <3>1. pc[s] = "work"  BY <2>1 DEF OutboxInv, OutboxShape, CallShape, NoCall
    <3>2. job[s] \in Items /\ fact[job[s]].published  BY <3>1, HolderFact DEF Holding
    <3>3. ~Fenced(job[s])  BY <2>1 DEF OutboxInv, SlotsKnow
    <3> QED  BY <2>1, <3>2, <3>3 DEF Remembers, Fenced
  <2> QED  BY <1>0, <2>1
<1>1. ASSUME NEW s \in Slots, call[s].at = "receipt"
      PROVE  job[s] \in Items /\ call[s].consumer \in Consumers
  <2>1. pc[s] = "work"  BY <1>1 DEF OutboxInv, OutboxShape, CallShape, NoCall
  <2> QED  BY <1>1, <2>1, HolderFact DEF Holding, OutboxInv, OutboxShape, CallShape
<1>2. ASSUME NEW s \in Slots, call'[s].at = "receipt"
      PROVE  Handled(job[s], call[s].consumer)'
  <2>1. CASE call'[s] = call[s] /\ job'[s] = job[s]
    <3>1. Handled(job[s], call[s].consumer)
      BY <1>2, <2>1 DEF OutboxInv, SlotsKnow
    <3>2. job[s] \in Items /\ call[s].consumer \in Consumers  BY <1>1, <1>2, <2>1
    <3> QED  BY <2>1, <3>1, <3>2 DEF Remembers, Handled
  <2> QED  BY <1>2, <2>1
<1>3. ASSUME NEW s \in Slots, pc'[s] \in {"renew", "complete"}
      PROVE  Settleable(job[s])'
  <2>1. CASE pc[s] \in {"renew", "complete"} /\ job'[s] = job[s]
    <3>1. Settleable(job[s])  BY <2>1 DEF OutboxInv, SlotsKnow
    <3>2. job[s] \in Items /\ fact[job[s]].published  BY <2>1, HolderFact DEF Holding
    <3>3. Catalogue \subseteq Consumers  BY OutboxConstants
    <3>4. Fenced(job[s]) => Fenced(job[s])'
      BY <2>1, <3>2 DEF Remembers, Fenced
    <3>5. \A c \in Catalogue : Handled(job[s], c) => Handled(job[s], c)'
      BY <2>1, <3>2, <3>3 DEF Remembers, Handled
    <3> QED  BY <3>1, <3>4, <3>5 DEF Settleable
  <2> QED  BY <1>3, <2>1
<1> QED  BY <1>0, <1>2, <1>3 DEF SlotsKnow

\* Steps of the ledger, and calls that move without touching the tables.
LEMMA QuietKeeps ==
  ASSUME OutboxInv, UNCHANGED <<fact, receipts, applied, denied>>, SlotsKnow',
         NEW done \in SUBSET Items, Rowwise(done),
         done = {} \/ \E s \in Slots : pc[s] = "complete" /\ job[s] \in Items /\ done = {job[s]}
  PROVE  Kept
<1> USE DEF OutboxInv
<1>h. \A f \in Items, c \in Consumers : Handled(f, c)' <=> Handled(f, c)  BY DEF Handled
<1>d. \A f \in done : /\ f \in Items /\ fact[f].status \in {"recorded", "fenced", "deleted"}
                      /\ Fenced(f) \/ \A c \in Catalogue : Handled(f, c)
  BY HolderFact DEF SlotsKnow, Settleable, Holding
<1>1. FactLife'  BY <1>h DEF FactLife, Rowwise
<1>2. Books'
  <2> SUFFICES ASSUME NEW f \in Items, NEW c \in Consumers
               PROVE  /\ c \in receipts[f] => Handled(f, c)
                      /\ c \in Transactional /\ Handled(f, c) =>
                           c \in receipts[f] \/ fact[f].status = "deleted"
                      /\ c \in Catalogue /\ Delivered(f)' => Handled(f, c)
    BY <1>h DEF Books
  <2>1. Delivered(f)' => Delivered(f) \/ (f \in done /\ ~Fenced(f))
    BY DEF Delivered, Rowwise, Fenced
  <2> QED  BY <1>d, <2>1 DEF Books
<1>3. PromiseStep
  <2>1. \A f \in Items : f \notin done => FateOf(f)' = FateOf(f)
    BY DEF FateOf, Rowwise
  <2>2. CASE \A f \in done : FateOf(f)' = FateOf(f)
    BY <2>1, <2>2, SameFates
  <2>3. ASSUME NEW f \in done, FateOf(f)' # FateOf(f)  PROVE PromiseStep
    <3>1. done = {f}  BY <2>3
    <3>2. f \in Items /\ fact[f].status = "recorded" /\ row[f].state # "succeeded"
      BY <1>d, <2>3 DEF FateOf, Rowwise
    <3>3. FateOf(f) = "open" /\ FateOf(f)' = "delivered"
      BY <2>3, <3>2 DEF FateOf, Rowwise
    <3> QED  BY <1>d, <2>1, <3>1, <3>2, <3>3, DeliversOne DEF Fenced
  <2> QED  BY <2>2, <2>3
<1> QED  BY <1>1, <1>2, <1>3 DEF Kept

\* Steps of commands, retention, the fence and the relay.
LEMMA RecordKeeps ==
  ASSUME OutboxInv, NEW f \in Items, Record(f)
  PROVE  Kept
<1> USE DEF OutboxInv
<1>0. /\ fact[f].status = "unrecorded" /\ row[f].state = "absent" /\ fact[f] \in Fact
      /\ fact'[f] = [fact[f] EXCEPT !.status = "recorded"]
      /\ \A g \in Items : g # f => fact'[g] = fact[g]
      /\ UNCHANGED <<workVars, receipts, applied, denied, view, call>>
  BY DEF Record, FactLife, OutboxShape, OutboxTypeOK
<1>1. fact'[f].status = "recorded" /\ fact'[f].published = fact[f].published
  BY <1>0 DEF Fact
<1>h. \A g \in Items, c \in Consumers : Handled(g, c)' <=> Handled(g, c)  BY <1>0 DEF Handled
<1>w. UNCHANGED <<row, pc, job>>  BY <1>0 DEF workVars
<1>2. FactLife'  BY <1>0, <1>1, <1>h, <1>w DEF FactLife
<1>3. Books'  BY <1>0, <1>1, <1>h, <1>w DEF Books, Delivered, FactLife
<1>4. SlotsKnow'
  <2>1. Remembers  BY <1>0, <1>1, <1>h DEF Remembers, Fenced
  <2> QED  BY <2>1, <1>0, <1>w, KnowledgeKept
<1>5. PromiseStep
  <2> DEFINE fate == [g \in Items |-> FateOf(g)]
  <2>1. FateOf(f) = "unrecorded" /\ FateOf(f)' = "open"  BY <1>0, <1>1, <1>w DEF FateOf
  <2>2. \A g \in Items : g # f => FateOf(g)' = FateOf(g)  BY <1>0, <1>w DEF FateOf
  <2>3. fate' = [fate EXCEPT ![f] = "open"] /\ fate[f] = "unrecorded"  BY <2>1, <2>2
  <2> HIDE DEF fate
  <2>4. Promise!Record(f)  BY <1>0, <2>3 DEF Promise!Record, fate
  <2> QED  BY <2>4 DEF PromiseStep, Promise!Next
<1> QED  BY <1>2, <1>3, <1>4, <1>5 DEF Kept

LEMMA RetainKeeps ==
  ASSUME OutboxInv, NEW f \in Items, Retain(f)
  PROVE  Kept
<1> USE DEF OutboxInv
<1>0. /\ fact[f].status = "recorded" /\ fact[f].published /\ fact[f] \in Fact
      /\ Catalogue \subseteq receipts[f]
      /\ fact'[f] = [fact[f] EXCEPT !.status = "deleted"]
      /\ receipts'[f] = {}
      /\ \A g \in Items : g # f => fact'[g] = fact[g] /\ receipts'[g] = receipts[g]
      /\ UNCHANGED <<workVars, applied, denied, view, call>>
  BY DEF Retain, Settled, Live, Owed, OutboxShape, OutboxTypeOK
<1>1. fact'[f].status = "deleted" /\ fact'[f].published = fact[f].published
  BY <1>0 DEF Fact
<1>h. \A g \in Items, c \in Consumers : Handled(g, c)' <=> Handled(g, c)  BY <1>0 DEF Handled
<1>w. UNCHANGED <<row, pc, job>>  BY <1>0 DEF workVars
<1>c. \A c \in Catalogue : c \in Consumers /\ Handled(f, c)
  BY <1>0, OutboxConstants DEF Books
<1>2. FactLife'
  <2> SUFFICES ASSUME NEW g \in Items
               PROVE  /\ fact'[g].status = "unrecorded" => ~fact'[g].published
                      /\ fact'[g].status = "deleted" => fact'[g].published
                      /\ row'[g].state # "absent" => fact'[g].published
                      /\ ~fact'[g].published \/ fact'[g].status = "fenced" =>
                           receipts'[g] = {} /\ \A c \in Consumers : ~Handled(g, c)
    BY <1>h DEF FactLife
  <2>1. CASE g = f  BY <1>0, <1>1, <2>1
  <2>2. CASE g # f  BY <1>0, <1>w, <2>2 DEF FactLife
  <2> QED  BY <2>1, <2>2
<1>3. Books'
  <2> SUFFICES ASSUME NEW g \in Items, NEW c \in Consumers
               PROVE  /\ c \in receipts'[g] => Handled(g, c)
                      /\ c \in Transactional /\ Handled(g, c) =>
                           c \in receipts'[g] \/ fact'[g].status = "deleted"
                      /\ c \in Catalogue /\ Delivered(g)' => Handled(g, c)
    BY <1>h DEF Books
  <2>1. CASE g = f  BY <1>0, <1>1, <1>c, <2>1
  <2>2. CASE g # f  BY <1>0, <1>w, <2>2 DEF Books, Delivered
  <2> QED  BY <2>1, <2>2
<1>4. SlotsKnow'
  <2>1. Remembers  BY <1>0, <1>1, <1>h DEF Remembers, Fenced
  <2> QED  BY <2>1, <1>0, <1>w, KnowledgeKept
<1>5. PromiseStep
  <2>1. \A g \in Items : g # f => FateOf(g)' = FateOf(g)  BY <1>0, <1>w DEF FateOf
  <2>2. FateOf(f)' = "delivered" /\ FateOf(f) \in {"open", "delivered"}
    BY <1>0, <1>1, <1>w DEF FateOf
  <2>3. CASE FateOf(f) = "delivered"
    BY <1>0, <2>1, <2>2, <2>3, SameFates
  <2>4. CASE FateOf(f) = "open"
    BY <1>0, <1>c, <2>1, <2>2, <2>4, DeliversOne
  <2> QED  BY <2>2, <2>3, <2>4
<1> QED  BY <1>2, <1>3, <1>4, <1>5 DEF Kept

LEMMA FenceKeeps ==
  ASSUME OutboxInv, Fence
  PROVE  Kept
<1> USE DEF OutboxInv
<1> DEFINE S == {f \in Items : Live(f) /\ ~fact[f].published}
<1>0. /\ fact' = [f \in Items |-> IF f \in S THEN [fact[f] EXCEPT !.status = "fenced"] ELSE fact[f]]
      /\ UNCHANGED <<workVars, receipts, applied, denied, view, call>>
  BY DEF Fence
<1>s. \A f \in S : f \in Items /\ fact[f].status = "recorded" /\ ~fact[f].published  BY DEF Live
<1> HIDE DEF S
<1>1. \A f \in S : fact'[f].status = "fenced" /\ fact'[f].published = fact[f].published
  BY <1>0, <1>s DEF Fact, OutboxShape, OutboxTypeOK
<1>n. \A f \in Items : f \notin S => fact'[f] = fact[f]  BY <1>0
<1>h. \A f \in Items, c \in Consumers : Handled(f, c)' <=> Handled(f, c)  BY <1>0 DEF Handled
<1>w. UNCHANGED <<row, pc, job>>  BY <1>0 DEF workVars
<1>2. FactLife'  BY <1>0, <1>1, <1>s, <1>n, <1>h, <1>w DEF FactLife
<1>3. Books'  BY <1>0, <1>1, <1>s, <1>n, <1>h, <1>w DEF Books, Delivered
<1>4. SlotsKnow'
  <2>1. Remembers  BY <1>s, <1>n, <1>h DEF Remembers, Fenced
  <2> QED  BY <2>1, <1>0, <1>w, KnowledgeKept
<1>5. PromiseStep
  <2> DEFINE fate == [g \in Items |-> FateOf(g)]
  <2>1. \A f \in S : /\ FateOf(f) = "open" /\ FateOf(f)' = "stopped"
                     /\ \A c \in Consumers : ~Handled(f, c)
    BY <1>1, <1>s, <1>w DEF FateOf, FactLife
  <2>2. \A f \in Items : f \notin S => FateOf(f)' = FateOf(f)  BY <1>n, <1>w DEF FateOf
  <2>3. fate' = [f \in Items |-> IF f \in S THEN "stopped" ELSE fate[f]]  BY <2>1, <2>2
  <2>4. \A f \in S : fate[f] = "open"  BY <1>s, <2>1
  <2> HIDE DEF fate
  <2>5. \A f \in S : \A c \in Consumers : ~Promise!Had(f, c)  BY <2>1 DEF Promise!Had, Handled
  <2>6. Promise!Stop(S)  BY <1>0, <2>3, <2>4, <2>5 DEF Promise!Stop, fate
  <2>7. S \in SUBSET Items  BY <1>s
  <2> QED  BY <2>6, <2>7 DEF PromiseStep, Promise!Next
<1> QED  BY <1>2, <1>3, <1>4, <1>5 DEF Kept

LEMMA AdmitKeeps ==
  ASSUME OutboxInv, NEW r \in Relays, NEW f \in Items, RelayAdmits(r, f)
  PROVE  Kept
<1> USE DEF OutboxInv
<1>0. /\ fact[f].status \in {"recorded", "fenced"} /\ row[f].state = "absent" /\ fact[f] \in Fact
      /\ fact'[f] = [fact[f] EXCEPT !.published = TRUE]
      /\ \A g \in Items : g # f => fact'[g] = fact[g]
      /\ UNCHANGED <<receipts, applied, denied, call, pc, job>>
  BY DEF RelayAdmits, Admissible, Exists, Schedule, slots, OutboxShape, OutboxTypeOK
<1>1. fact'[f].status = fact[f].status /\ fact'[f].published
  BY <1>0 DEF Fact
<1>r. row'[f].state = "pending" /\ \A g \in Items : g # f => row'[g] = row[g]
  <2>1. PICK recovery \in Recoveries, ready \in {"later", "dispatch"} : ScheduleRow(f, recovery, ready)
    BY DEF RelayAdmits, Schedule
  <2> QED  BY <2>1 DEF ScheduleRow, NoRow, ClaimInv, RowInv, TypeOK
<1>h. \A g \in Items, c \in Consumers : Handled(g, c)' <=> Handled(g, c)  BY <1>0 DEF Handled
<1>2. FactLife'
  <2> SUFFICES ASSUME NEW g \in Items
               PROVE  /\ fact'[g].status = "unrecorded" => ~fact'[g].published
                      /\ fact'[g].status = "deleted" => fact'[g].published
                      /\ row'[g].state # "absent" => fact'[g].published
                      /\ ~fact'[g].published \/ fact'[g].status = "fenced" =>
                           receipts'[g] = {} /\ \A c \in Consumers : ~Handled(g, c)
    BY <1>h DEF FactLife
  <2>1. CASE g = f  BY <1>0, <1>1, <2>1 DEF FactLife
  <2>2. CASE g # f  BY <1>0, <1>r, <2>2 DEF FactLife
  <2> QED  BY <2>1, <2>2
<1>3. Books'  BY <1>0, <1>1, <1>r, <1>h DEF Books, Delivered
<1>4. SlotsKnow'
  <2>1. Remembers  BY <1>0, <1>1, <1>h DEF Remembers, Fenced
  <2> QED  BY <2>1, <1>0, KnowledgeKept
<1>5. PromiseStep
  <2>1. \A g \in Items : FateOf(g)' = FateOf(g)  BY <1>0, <1>1, <1>r DEF FateOf
  <2> QED  BY <1>0, <2>1, SameFates
<1> QED  BY <1>2, <1>3, <1>4, <1>5 DEF Kept

\* What a consumer's step on its own fact owes the books.
LEMMA ConsumerKeeps ==
  ASSUME OutboxInv, NEW s \in Slots, pc[s] = "work",
         call[s].at \in {"deny", "handle", "receipt"},
         NEW f, f = job[s], NEW c, c = call[s].consumer,
         UNCHANGED <<workVars, fact>>, Remembers, PromiseStep,
         \A g \in Items, d \in Consumers : g # f \/ d # c =>
           (d \in receipts'[g] <=> d \in receipts[g]) /\ (Handled(g, d)' => Handled(g, d)),
         c \in receipts'[f] => Handled(f, c)',
         c \in Transactional /\ Handled(f, c)' => c \in receipts'[f] \/ fact[f].status = "deleted",
         receipts' \in [Items -> SUBSET Consumers],
         \A t \in Slots : t # s => call'[t] = call[t],
         call'[s].at = "receipt" => call'[s].consumer = c /\ Handled(f, c)'
  PROVE  Kept
<1> USE DEF OutboxInv
<1>0. /\ f \in Items /\ c \in Consumers /\ fact[f].published /\ fact[f].status # "fenced"
      /\ UNCHANGED <<row, pc, job>>
  BY HolderFact DEF Holding, OutboxShape, CallShape, SlotsKnow, Fenced, workVars
<1>1. FactLife'
  <2> SUFFICES ASSUME NEW g \in Items
               PROVE  /\ fact[g].status = "unrecorded" => ~fact[g].published
                      /\ fact[g].status = "deleted" => fact[g].published
                      /\ row[g].state # "absent" => fact[g].published
                      /\ ~fact[g].published \/ fact[g].status = "fenced" =>
                           receipts'[g] = {} /\ \A d \in Consumers : ~Handled(g, d)'
    BY <1>0 DEF FactLife
  <2>1. ~fact[g].published \/ fact[g].status = "fenced" => g # f  BY <1>0
  <2>2. receipts[g] \subseteq Consumers /\ receipts'[g] \subseteq Consumers
    BY DEF OutboxShape, OutboxTypeOK
  <2> QED  BY <2>1, <2>2 DEF FactLife
<1>2. Books'
  <2> SUFFICES ASSUME NEW g \in Items, NEW d \in Consumers
               PROVE  /\ d \in receipts'[g] => Handled(g, d)'
                      /\ d \in Transactional /\ Handled(g, d)' =>
                           d \in receipts'[g] \/ fact[g].status = "deleted"
                      /\ d \in Catalogue /\ Delivered(g) => Handled(g, d)'
    BY <1>0 DEF Books, Delivered
  <2>1. d \in Catalogue /\ Delivered(g) => Handled(g, d)'  BY DEF Books, Remembers
  <2>2. CASE g = f /\ d = c  BY <2>1, <2>2
  <2>3. CASE g # f \/ d # c  BY <2>1, <2>3 DEF Books, Remembers
  <2> QED  BY <2>2, <2>3
<1>3. SlotsKnow'
  <2>1. \A t \in Slots : call'[t].at = "receipt" =>
          (call'[t] = call[t] /\ job'[t] = job[t]) \/ Handled(job[t], call[t].consumer)'
    BY <1>0 DEF Handled
  <2> QED  BY <1>0, <2>1, KnowledgeKept
<1> QED  BY <1>1, <1>2, <1>3 DEF Kept

\* A counted effect, or a denial, on a fact somebody holds.
LEMMA Reaches ==
  ASSUME OutboxInv, NEW s \in Slots, pc[s] = "work", ~Fenced(job[s]), NEW c \in Consumers,
         c \in Transactional => ~Handled(job[s], c)
  PROVE  Promise!Reachable(job[s], c)
<1>1. job[s] \in Items /\ fact[job[s]].status \in {"recorded", "deleted"}
  BY HolderFact DEF Holding, Fenced
<1>2. FateOf(job[s]) \in {"open", "delivered"}  BY <1>1, FateKinds
<1> QED  BY <1>1, <1>2 DEF Promise!Reachable, Promise!Had, Handled

LEMMA EffectPromised ==
  ASSUME OutboxInv, NEW s \in Slots, pc[s] = "work", NEW f, f = job[s], ~Fenced(f), NEW c \in Consumers,
         c \in Transactional => ~Handled(f, c),
         Effect(f, c), UNCHANGED <<row, fact, denied>>
  PROVE  /\ PromiseStep /\ Remembers /\ Handled(f, c)'
         /\ \A g \in Items, d \in Consumers :
              g # f \/ d # c => (Handled(g, d)' => Handled(g, d))
<1>0. f \in Items  BY HolderFact DEF Holding
<1>1. /\ applied \in [Items -> [Consumers -> 0..MaxRepeats]]
      /\ MaxRepeats \in Nat \ {0} /\ applied[f][c] \in 0..MaxRepeats
  BY <1>0, OutboxConstants DEF OutboxInv, OutboxShape, OutboxTypeOK
<1>2. \A g \in Items : FateOf(g)' = FateOf(g)  BY DEF FateOf
<1>3. /\ applied'[f][c] = IF applied[f][c] < MaxRepeats THEN applied[f][c] + 1 ELSE applied[f][c]
      /\ \A g \in Items, d \in Consumers : g # f \/ d # c => applied'[g][d] = applied[g][d]
  BY <1>0, <1>1 DEF Effect
<1>4. applied'[f][c] > 0  BY <1>1, <1>3
<1>5. Remembers
  <2> SUFFICES ASSUME NEW g \in Items, NEW d \in Consumers, Handled(g, d)
               PROVE  applied'[g][d] > 0 \/ d \in denied'[g]
    BY DEF Remembers, Handled, Fenced
  <2> QED  BY <1>3, <1>4 DEF Handled
<1>6. Handled(f, c)'  BY <1>4 DEF Handled
<1>7. \A g \in Items, d \in Consumers : g # f \/ d # c => (Handled(g, d)' => Handled(g, d))
  BY <1>3 DEF Handled
<1>8. PromiseStep
  <2>1. CASE applied[f][c] < MaxRepeats
    <3>1. applied' = [applied EXCEPT ![f][c] = @ + 1]  BY <2>1 DEF Effect
    <3>2. [g \in Items |-> FateOf(g)]' = [g \in Items |-> FateOf(g)]  BY <1>2
    <3>3. Promise!Apply(f, c)  BY <2>1, <3>1, <3>2, Reaches DEF Promise!Apply
    <3> QED  BY <1>0, <3>3 DEF PromiseStep, Promise!Next
  <2>2. CASE ~(applied[f][c] < MaxRepeats)
    <3>1. applied' = applied
      <4>1. applied' = [applied EXCEPT ![f][c] = applied[f][c]]  BY <2>2 DEF Effect
      <4> QED  BY <1>0, <1>1, <4>1
    <3> QED  BY <1>2, <3>1, SameFates
  <2> QED  BY <2>1, <2>2
<1> QED  BY <1>5, <1>6, <1>7, <1>8

\* A denial of a fact the consumer has no receipt for.
LEMMA DenialPromised ==
  ASSUME OutboxInv, NEW s \in Slots, pc[s] = "work", NEW f, f = job[s], ~Fenced(f), NEW c \in Consumers,
         c \in Transactional => ~Handled(f, c),
         denied' = [denied EXCEPT ![f] = @ \cup {c}], UNCHANGED <<row, fact, applied>>
  PROVE  /\ PromiseStep /\ Remembers /\ Handled(f, c)'
         /\ \A g \in Items, d \in Consumers :
              g # f \/ d # c => (Handled(g, d)' => Handled(g, d))
<1>0. f \in Items /\ denied \in [Items -> SUBSET Consumers]
  BY HolderFact DEF Holding, OutboxInv, OutboxShape, OutboxTypeOK
<1>1. \A g \in Items, d \in Consumers : d \in denied'[g] <=> d \in denied[g] \/ (g = f /\ d = c)
  BY <1>0
<1>2. [g \in Items |-> FateOf(g)]' = [g \in Items |-> FateOf(g)]  BY DEF FateOf
<1>3. Promise!Waive(f, c)  BY <1>2, Reaches DEF Promise!Waive
<1>4. PromiseStep  BY <1>0, <1>3 DEF PromiseStep, Promise!Next
<1> QED  BY <1>0, <1>1, <1>4 DEF Remembers, Handled, Fenced

\* What insertReceipt leaves, and what ends a consumer's turn.
LEMMA ReceiptAdds ==
  ASSUME OutboxInv, NEW f \in Items, NEW c \in Consumers, InsertReceipt(f, c)
  PROVE  /\ fact[f].status \in {"recorded", "fenced"}
         /\ receipts' \in [Items -> SUBSET Consumers]
         /\ \A g \in Items, d \in Consumers :
              d \in receipts'[g] <=> d \in receipts[g] \/ (g = f /\ d = c)
BY DEF InsertReceipt, Exists, OutboxInv, OutboxShape, OutboxTypeOK

LEMMA FinishedMoves ==
  ASSUME OutboxInv, NEW s \in Slots, NEW failed \in BOOLEAN, Finished(s, failed)
  PROVE  (\A t \in Slots : t # s => call'[t] = call[t]) /\ call'[s].at = "next"
<1> DEFINE new == [call[s] EXCEPT !.at = "next", !.todo = @ \ {call[s].consumer},
                                  !.consumer = NoConsumer, !.failed = @ \/ failed]
<1>1. call[s] \in Call /\ call \in [Slots -> Call]  BY DEF OutboxInv, OutboxShape, OutboxTypeOK
<1>2. new.at = "next"  BY <1>1 DEF Call
<1>3. call' = [call EXCEPT ![s] = new]  BY DEF Finished, Becomes
<1> HIDE DEF new
<1> QED  BY <1>1, <1>2, <1>3

LEMMA TurnKeeps ==
  ASSUME OutboxInv, NEW s \in Slots,
         Deny(s) \/ HandleInTransaction(s) \/ HandleEffect(s) \/ HandleReceipt(s)
  PROVE  Kept
<1> USE DEF OutboxInv
<1>0. pc[s] = "work" /\ call[s].at \in {"deny", "handle", "receipt"} /\ UNCHANGED <<workVars, fact>>
  BY DEF Deny, HandleInTransaction, HandleEffect, HandleReceipt
<1>p. PICK f \in Items, c \in Consumers :
        /\ f = job[s] /\ c = call[s].consumer /\ row[f].state # "absent"
        /\ fact[f].status \in {"recorded", "deleted"} /\ ~Fenced(f)
  BY <1>0, HolderFact DEF Holding, OutboxShape, CallShape, SlotsKnow, Fenced
<1>w. UNCHANGED <<row, pc, job>>  BY <1>0 DEF workVars
<1>b. /\ c \in receipts[f] => Handled(f, c)
      /\ c \in Transactional /\ Handled(f, c) => c \in receipts[f] \/ fact[f].status = "deleted"
  BY DEF Books
<1>q. ASSUME UNCHANGED <<applied, denied>>
      PROVE  /\ PromiseStep /\ Remembers
             /\ \A g \in Items, d \in Consumers : Handled(g, d)' <=> Handled(g, d)
  <2>1. \A g \in Items : FateOf(g)' = FateOf(g)  BY <1>0, <1>w DEF FateOf
  <2> QED  BY <1>0, <1>q, <2>1, SameFates DEF Remembers, Handled, Fenced
<1>r. receipts \in [Items -> SUBSET Consumers]  BY DEF OutboxShape, OutboxTypeOK
<1>k. ASSUME Remembers, PromiseStep, receipts' \in [Items -> SUBSET Consumers],
             \A g \in Items, d \in Consumers : g # f \/ d # c =>
               (d \in receipts'[g] <=> d \in receipts[g]) /\ (Handled(g, d)' => Handled(g, d)),
             c \in receipts'[f] => Handled(f, c)',
             c \in Transactional /\ Handled(f, c)' => c \in receipts'[f] \/ fact[f].status = "deleted",
             \A t \in Slots : t # s => call'[t] = call[t],
             call'[s].at = "receipt" => call'[s].consumer = c /\ Handled(f, c)'
      PROVE  Kept
  BY <1>0, <1>p, <1>k, ConsumerKeeps
\* An attempt that fails before it wrote anything.
<1>f. ASSUME Finished(s, TRUE), UNCHANGED <<receipts, applied, denied>>  PROVE Kept
  BY <1>b, <1>f, <1>k, <1>q, <1>r, FinishedMoves
<1>1. CASE Deny(s)
  <2>1. CASE InsertReceipt(f, c) /\ Finished(s, FALSE) /\ c \in receipts[f] /\ UNCHANGED denied
    BY <1>1, <1>b, <1>k, <1>q, <2>1, ReceiptAdds, FinishedMoves DEF Deny
  <2>2. CASE InsertReceipt(f, c) /\ Finished(s, FALSE) /\ c \notin receipts[f]
             /\ denied' = [denied EXCEPT ![f] = @ \cup {c}]
    <3>1. fact[f].status # "deleted"  BY <2>2, ReceiptAdds
    <3>2. c \in Transactional => ~Handled(f, c)  BY <1>b, <2>2, <3>1
    <3>3. /\ PromiseStep /\ Remembers /\ Handled(f, c)'
          /\ \A g \in Items, d \in Consumers :
               g # f \/ d # c => (Handled(g, d)' => Handled(g, d))
      <4>1. UNCHANGED applied  BY <1>1 DEF Deny
      <4> QED  BY <1>0, <1>p, <1>w, <2>2, <3>2, <4>1, DenialPromised
    <3> QED  BY <1>k, <2>2, <3>3, ReceiptAdds, FinishedMoves
  <2>3. CASE Finished(s, TRUE) /\ UNCHANGED <<receipts, denied>>
    BY <1>1, <1>f, <2>3 DEF Deny
  <2> QED  BY <1>1, <1>p, <2>1, <2>2, <2>3 DEF Deny
<1>2. CASE HandleInTransaction(s)
  <2>0. UNCHANGED denied  BY <1>2 DEF HandleInTransaction
  <2>1. ASSUME InsertReceipt(f, c), NEW failed \in BOOLEAN, Finished(s, failed), c \in receipts[f],
               UNCHANGED applied
        PROVE  Kept
    BY <1>b, <1>k, <1>q, <2>0, <2>1, ReceiptAdds, FinishedMoves
  <2>2. ASSUME InsertReceipt(f, c), NEW failed \in BOOLEAN, Finished(s, failed), c \notin receipts[f],
               c \in Transactional, Effect(f, c)
        PROVE  Kept
    <3>1. fact[f].status # "deleted"  BY <2>2, <1>p, ReceiptAdds
    <3>2. ~Handled(f, c)  BY <1>b, <2>2, <3>1
    <3>3. /\ PromiseStep /\ Remembers /\ Handled(f, c)'
          /\ \A g \in Items, d \in Consumers :
               g # f \/ d # c => (Handled(g, d)' => Handled(g, d))
      BY <1>0, <1>p, <1>w, <2>0, <2>2, <3>2, EffectPromised
    <3> QED  BY <1>k, <2>2, <3>3, ReceiptAdds, FinishedMoves
  <2>3. CASE Finished(s, TRUE) /\ UNCHANGED <<receipts, applied>>
    BY <1>f, <2>0, <2>3
  <2> QED  BY <1>2, <1>p, <2>1, <2>2, <2>3 DEF HandleInTransaction
<1>3. CASE HandleEffect(s)
  <2>0. UNCHANGED <<receipts, denied>> /\ c \notin Transactional  BY <1>3, <1>p DEF HandleEffect
  <2>1. CASE Effect(f, c) /\ Becomes(s, [call[s] EXCEPT !.at = "receipt"])
    <3>1. /\ PromiseStep /\ Remembers /\ Handled(f, c)'
          /\ \A g \in Items, d \in Consumers :
               g # f \/ d # c => (Handled(g, d)' => Handled(g, d))
      BY <1>0, <1>p, <1>w, <2>0, <2>1, EffectPromised
    <3>2. (\A t \in Slots : t # s => call'[t] = call[t]) /\ call'[s].consumer = c
      BY <1>p, <2>1 DEF Becomes, OutboxShape, OutboxTypeOK, Call
    <3> QED  BY <1>k, <1>r, <2>0, <3>1, <3>2
  <2>2. CASE Finished(s, TRUE) /\ UNCHANGED applied
    BY <1>f, <2>0, <2>2
  <2> QED  BY <1>3, <1>p, <2>1, <2>2 DEF HandleEffect
<1>4. CASE HandleReceipt(s)
  <2>0. UNCHANGED <<applied, denied>> /\ call[s].at = "receipt"  BY <1>4 DEF HandleReceipt
  <2>1. CASE InsertReceipt(f, c) /\ Finished(s, FALSE)
    <3>1. Handled(f, c)  BY <1>p, <2>0 DEF SlotsKnow
    <3> QED  BY <1>b, <1>k, <1>q, <2>0, <2>1, <3>1, ReceiptAdds, FinishedMoves
  <2>2. CASE Finished(s, TRUE) /\ UNCHANGED receipts
    BY <1>f, <2>0, <2>2
  <2> QED  BY <1>4, <1>p, <2>1, <2>2 DEF HandleReceipt
<1> QED  BY <1>1, <1>2, <1>3, <1>4

\* Calls that only move on: the fact is read, a consumer is picked or skipped,
\* the loop ends. A callback that returns was done with every consumer the
\* catalogue names, or its fact is gone or fenced.
LEMMA CallMoveKeeps ==
  ASSUME OutboxInv, NEW s \in Slots,
         ReadEvent(s) \/ (\E c \in Consumers : Invoke(s, c)) \/ EndOfLoop(s)
  PROVE  Kept
<1> USE DEF OutboxInv
<1>0. pc[s] = "work" /\ call[s].at \in {"read", "next"}
  BY DEF ReadEvent, Invoke, EndOfLoop
<1>p. /\ job[s] \in Items /\ fact[job[s]].status \in {"recorded", "fenced", "deleted"}
      /\ call[s].at = "next" => ~Fenced(job[s])
      /\ call \in [Slots -> Call] /\ call[s] \in Call /\ pc \in [Slots -> Pc]
  BY <1>0, HolderFact DEF Holding, OutboxShape, OutboxTypeOK, ClaimInv, RowInv, TypeOK, SlotsKnow
<1>k. ASSUME UNCHANGED <<row, job, fact, receipts, applied, denied>>,
             \A t \in Slots : t # s => call'[t] = call[t] /\ pc'[t] = pc[t],
             call'[s].at # "receipt", call'[s].at # "read" => ~Fenced(job[s]),
             pc'[s] \in {"renew", "complete"} => Settleable(job[s])
      PROVE  Kept
  <2>1. Remembers  BY <1>k DEF Remembers, Handled, Fenced
  <2>2. /\ pc'[s] \in {"renew", "complete"} => Settleable(job[s])'
        /\ call'[s].at # "read" => ~Fenced(job[s])'
    BY <1>k DEF Handled, Settleable, Fenced
  <2>3. SlotsKnow'  BY <1>k, <2>1, <2>2, KnowledgeKept
  <2>4. Rowwise({})  BY <1>k DEF Rowwise
  <2> QED  BY <1>k, <2>3, <2>4, QuietKeeps
<1>1. ASSUME NEW t \in BOOLEAN, Throw(s, t)  PROVE Kept
  <2>1. /\ UNCHANGED <<row, job, fact, receipts, applied, denied>>
        /\ pc' = [pc EXCEPT ![s] = "failrenew"] /\ call' = [call EXCEPT ![s] = NoCall]
    BY <1>1 DEF Throw, HandlerThrows, Goto, Becomes, ledger
  <2>2. NoCall.at = "read"  BY DEF NoCall
  <2> QED  BY <1>k, <1>p, <2>1, <2>2
<1>2. ASSUME Return(s), Settleable(job[s])  PROVE Kept
  <2>1. /\ UNCHANGED <<row, job, fact, receipts, applied, denied>>
        /\ pc' = [pc EXCEPT ![s] = "renew"] /\ call' = [call EXCEPT ![s] = NoCall]
    BY <1>2 DEF Return, HandlerReturns, Goto, Becomes, ledger
  <2>2. NoCall.at = "read"  BY DEF NoCall
  <2> QED  BY <1>2, <1>k, <1>p, <2>1, <2>2
<1>3. ASSUME NEW new, Becomes(s, new), new.at # "receipt", ~Fenced(job[s]),
             UNCHANGED <<workVars, fact, receipts, applied, denied, view>>
      PROVE  Kept
  <2>1. UNCHANGED <<row, job, pc>>  BY <1>3 DEF workVars
  <2> QED  BY <1>0, <1>3, <1>k, <1>p, <2>1 DEF Becomes
<1>4. CASE ReadEvent(s)
  <2>1. ASSUME Return(s), ~Found(job[s])  PROVE Kept
    <3>1. Settleable(job[s])
      BY <1>p, <2>1, OutboxConstants DEF Found, Live, Books, Delivered, Fenced, Settleable
    <3> QED  BY <1>2, <2>1, <3>1
  <2>2. ASSUME Becomes(s, [NoCall EXCEPT !.at = "next", !.todo = Registered[HostOf[s]]]),
               Found(job[s]),
               UNCHANGED <<workVars, fact, receipts, applied, denied, view>>
        PROVE  Kept
    <3> DEFINE new == [NoCall EXCEPT !.at = "next", !.todo = Registered[HostOf[s]]]
    <3>1. new.at = "next"  BY DEF NoCall
    <3>2. ~Fenced(job[s])  BY <2>2 DEF Found, Live, Fenced
    <3> HIDE DEF new
    <3> QED  BY <1>3, <2>2, <3>1, <3>2 DEF new
  <2> QED  BY <1>1, <1>4, <2>1, <2>2 DEF ReadEvent
<1>5. ASSUME NEW d \in Consumers, Invoke(s, d)  PROVE Kept
  <2>0. call[s].at = "next"  BY <1>5 DEF Invoke
  <2>1. PICK new : /\ \/ Throw(s, FALSE)
                      \/ /\ Becomes(s, new)
                         /\ UNCHANGED <<workVars, fact, receipts, applied, denied, view>>
                   /\ new.at \in {"next", "deny", "handle"}
    <3>1. /\ [call[s] EXCEPT !.todo = @ \ {d}].at = "next"
          /\ [call[s] EXCEPT !.todo = @ \ {d}, !.failed = TRUE].at = "next"
          /\ \A at : [call[s] EXCEPT !.at = at, !.consumer = d].at = at
      BY <1>p, <2>0 DEF Call
    <3>2. CASE Throw(s, FALSE)  BY <3>1, <3>2
    <3>3. CASE Becomes(s, [call[s] EXCEPT !.todo = @ \ {d}])
               /\ UNCHANGED <<workVars, fact, receipts, applied, denied, view>>
      BY <3>1, <3>3
    <3>4. CASE Becomes(s, [call[s] EXCEPT !.todo = @ \ {d}, !.failed = TRUE])
               /\ UNCHANGED <<workVars, fact, receipts, applied, denied, view>>
      BY <3>1, <3>4
    <3>5. ASSUME NEW at \in {"deny", "handle"}, Becomes(s, [call[s] EXCEPT !.at = at, !.consumer = d]),
                 UNCHANGED <<workVars, fact, receipts, applied, denied, view>>
          PROVE  \E new : /\ \/ Throw(s, FALSE)
                             \/ /\ Becomes(s, new)
                                /\ UNCHANGED <<workVars, fact, receipts, applied, denied, view>>
                          /\ new.at \in {"next", "deny", "handle"}
      BY <3>1, <3>5
    <3> QED  BY <1>5, <3>2, <3>3, <3>4, <3>5 DEF Invoke
  <2> QED  BY <1>1, <1>3, <1>p, <2>0, <2>1
<1>6. CASE EndOfLoop(s)
  <2>1. ASSUME Return(s), Required(s) \subseteq receipts[job[s]]  PROVE Kept
    <3>1. \A c \in Catalogue : c \in receipts[job[s]] /\ c \in Consumers
      BY <2>1, OutboxConstants DEF Required
    <3>2. \A c \in Catalogue : Handled(job[s], c)  BY <1>p, <3>1 DEF Books
    <3> QED  BY <1>2, <2>1, <3>2 DEF Settleable
  <2> QED  BY <1>1, <1>6, <2>1 DEF EndOfLoop
<1> QED  BY <1>4, <1>5, <1>6

\* The worker's protocol: the only way to the completion is the renewal, and a
\* slot inside its callback keeps its job.
LEMMA ProtocolKeeps ==
  ASSUME OutboxInv, NEW s \in Slots, Protocol(s)
  PROVE  Kept
<1> USE DEF OutboxInv
<1>t. /\ pc \in [Slots -> Pc] /\ job \in [Slots -> Items \cup {None}]
      /\ UNCHANGED <<fact, receipts, applied, denied, call>>
  BY DEF ClaimInv, RowInv, TypeOK, Protocol, outbox
<1>1. \A t \in Slots : t # s => pc'[t] = pc[t] /\ job'[t] = job[t]
  BY <1>t DEF Protocol, Claim, Renew, Complete, RenewToFail, Fail, Release, ResetSlots, Goto
<1>2. /\ pc[s] # "work"
      /\ pc'[s] \in {"renew", "complete"} => pc[s] = "renew" /\ job'[s] = job[s]
  BY <1>t DEF Protocol, Claim, Renew, Complete, RenewToFail, Fail, Release, ResetSlots, Goto
<1>3. call[s].at = "read"
  BY <1>2 DEF OutboxShape, CallShape, NoCall
<1>4. Remembers  BY <1>t DEF Remembers, Handled, Fenced
<1>5. SlotsKnow'  BY <1>t, <1>1, <1>2, <1>3, <1>4, KnowledgeKept
<1> QED  BY <1>t, <1>5, ProtocolRows, QuietKeeps

LEMMA LedgerKeeps ==
  ASSUME OutboxInv, Ledger
  PROVE  Kept
<1> USE DEF OutboxInv
<1>t. /\ pc \in [Slots -> Pc] /\ job \in [Slots -> Items \cup {None}]
      /\ UNCHANGED <<fact, receipts, applied, denied, call>>
  BY DEF ClaimInv, RowInv, TypeOK, Ledger, outbox
<1>1. ASSUME NEW s \in Slots, NEW i \in Items, Acquire(s, i)
      PROVE  \A t \in Slots : \/ pc'[t] = pc[t] /\ job'[t] = job[t]
                              \/ pc[t] = "idle" /\ pc'[t] = "locked"
  BY <1>t, <1>1 DEF Acquire, Goto
<1>2. UNCHANGED <<pc, job>> \/ \E s \in Slots, i \in Items : Acquire(s, i)
  BY DEF Ledger, QueueLoses, DueArrives, LeaseExpires, Operate, Refuse, SessionDies,
         Reconcile, ReserveDispatch, slots
<1>3. \A t \in Slots : \/ pc'[t] = pc[t] /\ job'[t] = job[t]
                       \/ pc[t] = "idle" /\ pc'[t] = "locked"
  BY <1>1, <1>2
<1>4. \A t \in Slots : pc[t] = "idle" => call[t].at = "read"
  BY DEF OutboxShape, CallShape, NoCall
<1>5. Remembers  BY <1>t DEF Remembers, Handled, Fenced
<1>6. SlotsKnow'
  <2>1. \A t \in Slots : call'[t].at # "read" => call'[t] = call[t] /\ job'[t] = job[t]
    BY <1>t, <1>3, <1>4
  <2>2. \A t \in Slots : pc'[t] \in {"renew", "complete"} =>
          pc[t] \in {"renew", "complete"} /\ job'[t] = job[t]
    BY <1>3
  <2> QED  BY <1>5, <2>1, <2>2, KnowledgeKept
<1> QED  BY <1>t, <1>6, LedgerRows, QuietKeeps

\* A crash forgets calls, and with them what they knew.
LEMMA CrashKeeps ==
  ASSUME OutboxInv, NEW h \in Hosts, Crash(h)
  PROVE  Kept
<1> USE DEF OutboxInv
<1> DEFINE S == {s \in Slots : HostOf[s] = h /\ pc[s] # "idle"}
<1>0. /\ ResetSlots(S) /\ UNCHANGED <<row, fact, receipts, applied, denied>>
      /\ call' = [s \in Slots |-> IF HostOf[s] = h THEN NoCall ELSE call[s]]
      /\ pc \in [Slots -> Pc] /\ job \in [Slots -> Items \cup {None}]
  BY DEF Crash, HostCrashes, ledger, ClaimInv, RowInv, TypeOK
<1>1. \A s \in Slots : \/ pc'[s] = pc[s] /\ job'[s] = job[s]
                       \/ pc'[s] = "idle" /\ HostOf[s] = h
  BY <1>0 DEF ResetSlots
<1>2. \A s \in Slots : call'[s].at # "read" => HostOf[s] # h /\ call'[s] = call[s]
  <2>1. NoCall.at = "read"  BY DEF NoCall
  <2> QED  BY <1>0, <2>1
<1>3. Remembers  BY <1>0 DEF Remembers, Handled, Fenced
<1>4. SlotsKnow'  BY <1>1, <1>2, <1>3, KnowledgeKept
<1>5. Rowwise({})  BY <1>0 DEF Rowwise
<1> QED  BY <1>0, <1>4, <1>5, QuietKeeps

LEMMA OutboxStep ==
  ASSUME OutboxInv, [OutboxNext]_vars
  PROVE  Kept
<1> USE DEF OutboxInv
<1>1. ASSUME UNCHANGED <<workVars, fact, receipts, applied, denied, call>>  PROVE Kept
  <2>1. UNCHANGED <<row, pc, job>>  BY <1>1 DEF workVars
  <2>2. Remembers  BY <1>1 DEF Remembers, Handled, Fenced
  <2>3. SlotsKnow'  BY <1>1, <2>1, <2>2, KnowledgeKept
  <2>4. Rowwise({})  BY <2>1 DEF Rowwise
  <2> QED  BY <1>1, <2>3, <2>4, QuietKeeps
<1>2. ASSUME NEW r \in Relays, RelayLooks(r) \/ RelayCrashes(r) \/ \E f \in Items : RelaySkips(r, f)
      PROVE  Kept
  BY <1>1, <1>2 DEF RelayLooks, RelayCrashes, RelaySkips
<1>3. ASSUME NEW s \in Slots, Callback(s)  PROVE Kept
  BY <1>3, CallMoveKeeps, TurnKeeps DEF Callback
<1>4. CASE UNCHANGED vars
  BY <1>1, <1>4 DEF vars, outbox
<1> QED
  BY <1>2, <1>3, <1>4, RecordKeeps, RetainKeeps, FenceKeeps, AdmitKeeps, ProtocolKeeps,
     LedgerKeeps, CrashKeeps
  DEF OutboxNext

LEMMA OutboxInvariant == OutboxSpec => []OutboxInv
<1>1. OutboxInit => ClaimInv
  BY TypeInit, RowShapeInit, ClaimInit DEF OutboxInit, ClaimInv, RowInv
<1>2. OutboxInit => OutboxInv  BY <1>1, ShapeInit, OutboxInvInit DEF OutboxInv
<1>3. OutboxInv /\ [OutboxNext]_vars => OutboxInv'
  <2> SUFFICES ASSUME OutboxInv, [OutboxNext]_vars  PROVE OutboxInv'
    OBVIOUS
  <2>1. UNCHANGED vars => UNCHANGED workVars  BY DEF vars
  <2>2. ClaimInv'  BY <2>1, OutboxStepsLedger, ClaimStep DEF OutboxInv
  <2>3. OutboxShape'  BY <2>2, ShapeStep DEF OutboxInv
  <2> QED  BY <2>2, <2>3, OutboxStep DEF OutboxInv, Kept
<1> QED  BY <1>2, <1>3, PTL DEF OutboxSpec

\* A receipt is never written before its effect: no crash, lost reply, late
\* handler or deleted fact leaves a receipt for work that was not done.
THEOREM ReceiptsFollow == OutboxSpec => []ReceiptFollowsEffect
<1>1. OutboxInv => ReceiptFollowsEffect
  <2> SUFFICES ASSUME OutboxInv, NEW f \in Items, NEW c \in receipts[f]
               PROVE  applied[f][c] > 0 \/ c \in denied[f]
    BY DEF ReceiptFollowsEffect
  <2>1. c \in Consumers  BY DEF OutboxInv, OutboxShape, OutboxTypeOK
  <2> QED  BY <2>1 DEF OutboxInv, Books, Handled
<1> QED  BY <1>1, OutboxInvariant, PTL

\* The outbox keeps the promise of FactDelivery: every step of the ledger, the
\* relay, the dispatcher and retention is a step of the promise or none.
THEOREM PromiseKept == OutboxSpec => KeepsPromise
<1>1. OutboxInit => Promise!Init
  <2> SUFFICES ASSUME OutboxInit  PROVE Promise!Init
    OBVIOUS
  <2>1. \A f \in Items : /\ row[f].state = "absent" /\ receipts[f] \in SUBSET Consumers
                         /\ fact[f].status \in {"unrecorded", "recorded"}
                         /\ fact[f].status = "unrecorded" => receipts[f] = {}
    BY DEF OutboxInit, WorkInit, NoRow
  <2>2. \A f \in Items : /\ fact[f].status = "unrecorded" => FateOf(f) = "unrecorded"
                         /\ fact[f].status = "recorded" => FateOf(f) = "open"
    BY <2>1 DEF FateOf
  <2>3. applied = [f \in Items |-> [c \in Consumers |-> IF c \in receipts[f] THEN 1 ELSE 0]]
    BY DEF OutboxInit
  <2>4. applied \in [Items -> [Consumers -> {0, 1}]]  BY <2>3
  <2>5. \A f \in Items : fact[f].status = "unrecorded" => applied[f] = [c \in Consumers |-> 0]
    BY <2>1, <2>3
  <2>6. denied = [f \in Items |-> {}]  BY DEF OutboxInit
  <2> QED  BY <2>1, <2>2, <2>4, <2>5, <2>6 DEF Promise!Init
<1>2. OutboxInv /\ [OutboxNext]_vars => [Promise!Next]_(Promise!factVars)
  BY OutboxStep DEF Kept, PromiseStep
<1> QED  BY <1>1, <1>2, OutboxInvariant, PTL DEF OutboxSpec, KeepsPromise, Promise!Spec
=============================================================================
