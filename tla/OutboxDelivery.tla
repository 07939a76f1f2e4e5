---------------------------- MODULE OutboxDelivery ----------------------------
(***************************************************************************)
(* The transactional outbox: a command records a fact in its own           *)
(* transaction, the relay admits the fact into the work ledger (WorkItems, *)
(* whose items are the facts), and the dispatcher, as the callback of the  *)
(* claimed work, gives the fact to every registered consumer. A receipt    *)
(* row says that one consumer is done with one fact; retention deletes a   *)
(* fact, and with it its receipts, once no catalogued consumer owes one.   *)
(*                                                                         *)
(* All facts are of one event type. The transaction of schedulePending is  *)
(* cut into the snapshot its query reads and, per candidate, the step that *)
(* locks the row, looks for its work and schedules it: the row lock is     *)
(* held from there to the commit, so nothing comes between them. What the  *)
(* query saw of the row itself is not looked at again.                     *)
(***************************************************************************)
EXTENDS WorkItems

CONSTANTS
  Relays,         \* relay polls that may run at once
  Consumers,      \* durable consumer names
  Catalogue,      \* the consumers the catalogue names for the event type
  Registered,     \* the consumers each process has registered
  Transactional,  \* those that write their receipt with their state change
  MaxRepeats,     \* bound on counted effects of one consumer on one fact
  NoConsumer

ASSUME OutboxConstants ==
  /\ Catalogue \subseteq Consumers /\ Transactional \subseteq Consumers
  /\ Registered \in [Hosts -> SUBSET Consumers]
  /\ MaxRepeats \in Nat \ {0}
  /\ NoConsumer \notin Consumers
  /\ Recoveries = {"retry"}

VARIABLES
  fact,       \* outbox_events, one row per fact
  receipts,   \* event_consumer_receipts: per fact, the consumers that have one
  applied,    \* per fact and consumer, how often its effect was committed
  denied,     \* per fact, the consumers whose receipt is a terminal denial
  view,       \* the facts a relay's running query found eligible
  call        \* where each slot's callback is

outbox == <<fact, receipts, applied, denied, view, call>>
vars == <<workVars, outbox>>

\* A fact is valid when its envelope and payload pass the dispatcher's schemas.
Fact == [status: {"unrecorded", "recorded", "fenced", "deleted"},
         published: BOOLEAN, valid: BOOLEAN]
Call == [at: {"read", "next", "deny", "handle", "receipt"}, todo: SUBSET Consumers,
         consumer: Consumers \cup {NoConsumer}, failed: BOOLEAN]
\* Deviation of the next definition: the outcome of the loop is not set.
NoCallWithoutOutcome == [at |-> "read", todo |-> {}, consumer |-> NoConsumer]

NoCall == [at |-> "read", todo |-> {}, consumer |-> NoConsumer, failed |-> FALSE]

\* A fact may also be one an earlier release published without work, after
\* some of its consumers had their receipts.
OutboxInit ==
  /\ WorkInit
  /\ fact \in [Items -> {x \in Fact :
                  <<x.status, x.published>> \in {<<"unrecorded", FALSE>>, <<"recorded", TRUE>>}}]
  /\ receipts \in {had \in [Items -> SUBSET Consumers] :
                     \A f \in Items : fact[f].status = "unrecorded" => had[f] = {}}
  /\ applied = [f \in Items |-> [c \in Consumers |-> IF c \in receipts[f] THEN 1 ELSE 0]]
  /\ denied = [f \in Items |-> {}]
  /\ view = [r \in Relays |-> {}]
  /\ call = [s \in Slots |-> NoCall]

-----------------------------------------------------------------------------
(* Facts *)

Live(f) == fact[f].status = "recorded"
Exists(f) == fact[f].status \in {"recorded", "fenced"}
Owed(f) == Catalogue \ receipts[f]

\* insertOutboxRow, insertOutboxRowIfNew: the row commits with its command.
Record(f) ==
  /\ fact[f].status = "unrecorded"
  /\ fact' = [fact EXCEPT ![f].status = "recorded"]
  /\ UNCHANGED <<workVars, receipts, applied, denied, view, call>>

\* Deviation of the next definition: a published fact is taken for delivered.
UnpublishedOnly(f) == Live(f) /\ row[f].state = "absent" /\ ~fact[f].published

\* lockPending reads its snapshot.
Eligible(f) ==
  /\ Live(f)
  /\ row[f].state = "absent"
  /\ ~fact[f].published \/ Owed(f) # {}

RelayLooks(r) ==
  /\ view[r] = {}
  /\ \E f \in Items : Eligible(f)
  /\ view' = [view EXCEPT ![r] = {f \in Items : Eligible(f)}]
  /\ UNCHANGED <<workVars, fact, receipts, applied, denied, call>>

\* A row that is still there can be locked. Its conditions are inside the
\* ranked subquery and are not evaluated again for the locked version: only its
\* work is looked for afresh (admittedElsewhere). So a relay that looked before
\* the recovery fence gives a fenced fact work and publishes it.
Admissible(f) == Exists(f) /\ row[f].state = "absent"

RelayAdmits(r, f) ==
  /\ f \in view[r] /\ Admissible(f)
  /\ Schedule(f)
  /\ fact' = [fact EXCEPT ![f].published = TRUE]
  /\ view' = [view EXCEPT ![r] = @ \ {f}]
  /\ UNCHANGED <<receipts, applied, denied, call>>

\* A candidate locked or taken by another relay, gone, or beyond the limit.
RelaySkips(r, f) ==
  /\ f \in view[r]
  /\ view' = [view EXCEPT ![r] = @ \ {f}]
  /\ UNCHANGED <<workVars, fact, receipts, applied, denied, call>>

\* Deviation of the next definition: retention looks at publication alone.
PublishedLongAgo(f) == Live(f) /\ fact[f].published

\* The retention sweep; receipts leave with their fact. (The thirty days are
\* left out: the sweep may come at any time.)
Settled(f) == Live(f) /\ fact[f].published /\ Owed(f) = {}

Retain(f) ==
  /\ Settled(f)
  /\ fact' = [fact EXCEPT ![f].status = "deleted"]
  /\ receipts' = [receipts EXCEPT ![f] = {}]
  /\ UNCHANGED <<workVars, applied, denied, view, call>>

\* Deviation of the next definition: published facts are fenced as well.
FenceEverything ==
  /\ \E f \in Items : Live(f)
  /\ fact' = [f \in Items |-> IF Live(f) THEN [fact[f] EXCEPT !.status = "fenced"] ELSE fact[f]]
  /\ UNCHANGED <<workVars, receipts, applied, denied, view, call>>

\* The recovery fence stops every unpublished fact for good.
Fence ==
  LET unpublished == {f \in Items : Live(f) /\ ~fact[f].published} IN
  /\ unpublished # {}
  /\ fact' = [f \in Items |-> IF f \in unpublished THEN [fact[f] EXCEPT !.status = "fenced"]
                                                   ELSE fact[f]]
  /\ UNCHANGED <<workVars, receipts, applied, denied, view, call>>

-----------------------------------------------------------------------------
(* The dispatcher: the callback of claimed work *)

Becomes(s, c) == call' = [call EXCEPT ![s] = c]

\* The callback returns to, or throws out of, the guarded block.
Return(s) ==
  HandlerReturns(s) /\ Becomes(s, NoCall) /\ UNCHANGED <<fact, receipts, applied, denied, view>>
Throw(s, isTerminal) ==
  HandlerThrows(s, isTerminal) /\ Becomes(s, NoCall)
  /\ UNCHANGED <<fact, receipts, applied, denied, view>>

\* Deviation of the next definition: the fence is not looked at.
FoundAnyway(f) == Exists(f)

\* readEvent finds no fact that is gone or fenced.
Found(f) == Live(f)

\* readEvent, and the checks before the first consumer. A fact it does not find
\* needs no delivery.
ReadEvent(s) ==
  LET f == job[s]
      registered == Registered[HostOf[s]]
  IN
  /\ pc[s] = "work" /\ call[s].at = "read"
  /\ \/ ~Found(f) /\ Return(s)
     \/ Found(f) /\ ~fact[f].valid /\ Throw(s, TRUE)
     \/ Found(f) /\ fact[f].valid /\ registered = {} /\ Catalogue # {} /\ Throw(s, FALSE)
     \/ /\ Found(f) /\ fact[f].valid /\ (registered # {} \/ Catalogue = {})
        /\ Becomes(s, [NoCall EXCEPT !.at = "next", !.todo = registered])
        /\ UNCHANGED <<workVars, fact, receipts, applied, denied, view>>
     \/ Throw(s, FALSE)

\* A finished consumer; a failure is kept until all have been invoked.
Finished(s, failed) ==
  Becomes(s, [call[s] EXCEPT !.at = "next", !.todo = @ \ {call[s].consumer},
                             !.consumer = NoConsumer, !.failed = @ \/ failed])

\* invokeConsumer: the receipt check, then the policy gate. An unavailable
\* policy leaves the whole loop; a failed read counts against the consumer.
Invoke(s, c) ==
  LET f == job[s] IN
  /\ pc[s] = "work" /\ call[s].at = "next" /\ c \in call[s].todo
  /\ \/ /\ \/ c \in receipts[f] /\ Becomes(s, [call[s] EXCEPT !.todo = @ \ {c}])
           \/ Becomes(s, [call[s] EXCEPT !.todo = @ \ {c}, !.failed = TRUE])
           \/ /\ c \notin receipts[f]
              /\ \E at \in {"deny", "handle"} :
                   Becomes(s, [call[s] EXCEPT !.at = at, !.consumer = c])
        /\ UNCHANGED <<workVars, fact, receipts, applied, denied, view>>
     \/ c \notin receipts[f] /\ Throw(s, FALSE)

\* Deviation of the next definition: the receipt does not refer to its fact.
ReceiptWithoutFact(f, c) == receipts' = [receipts EXCEPT ![f] = @ \cup {c}]

\* insertReceipt: its foreign key needs the fact, a second receipt is ignored.
InsertReceipt(f, c) == Exists(f) /\ receipts' = [receipts EXCEPT ![f] = @ \cup {c}]

\* A terminal denial is recorded as an 'obsolete' receipt.
Deny(s) ==
  LET f == job[s]  c == call[s].consumer IN
  /\ pc[s] = "work" /\ call[s].at = "deny"
  /\ \/ /\ InsertReceipt(f, c)
        /\ denied' = IF c \in receipts[f] THEN denied ELSE [denied EXCEPT ![f] = @ \cup {c}]
        /\ Finished(s, FALSE)
     \/ Finished(s, TRUE) /\ UNCHANGED <<receipts, denied>>
  /\ UNCHANGED <<workVars, fact, applied, view>>

Effect(f, c) ==
  applied' = [applied EXCEPT ![f][c] = IF @ < MaxRepeats THEN @ + 1 ELSE @]

\* A handler of the first form: receipt and state change in one transaction,
\* whose commit may outlive its reply. An existing receipt makes it a
\* duplicate without effect.
HandleInTransaction(s) ==
  LET f == job[s]  c == call[s].consumer IN
  /\ pc[s] = "work" /\ call[s].at = "handle" /\ c \in Transactional
  /\ \/ /\ InsertReceipt(f, c)
        /\ IF c \in receipts[f] THEN UNCHANGED applied ELSE Effect(f, c)
        /\ \E failed \in BOOLEAN : Finished(s, failed)
     \/ Finished(s, TRUE) /\ UNCHANGED <<receipts, applied>>
  /\ UNCHANGED <<workVars, fact, denied, view>>

\* Deviation of the next definition: the receipt is written before the effect.
ReceiptFirst(s) ==
  LET f == job[s]  c == call[s].consumer IN
  /\ pc[s] = "work" /\ call[s].at = "handle" /\ c \notin Transactional
  /\ \/ InsertReceipt(f, c) /\ Becomes(s, [call[s] EXCEPT !.at = "receipt"])
     \/ UNCHANGED receipts /\ Finished(s, TRUE)
  /\ UNCHANGED <<workVars, fact, applied, denied, view>>

\* A handler of the second form: a repeatable effect, then its receipt.
HandleEffect(s) ==
  LET f == job[s]  c == call[s].consumer IN
  /\ pc[s] = "work" /\ call[s].at = "handle" /\ c \notin Transactional
  /\ \/ Effect(f, c) /\ Becomes(s, [call[s] EXCEPT !.at = "receipt"])
     \/ UNCHANGED applied /\ Finished(s, TRUE)
  /\ UNCHANGED <<workVars, fact, receipts, denied, view>>

HandleReceipt(s) ==
  LET f == job[s]  c == call[s].consumer IN
  /\ pc[s] = "work" /\ call[s].at = "receipt"
  /\ \/ InsertReceipt(f, c) /\ Finished(s, FALSE)
     \/ Finished(s, TRUE) /\ UNCHANGED receipts
  /\ UNCHANGED <<workVars, fact, applied, denied, view>>

\* Deviation of the next definition: only what this process registered counts.
RegisteredHere(s) == Registered[HostOf[s]]

\* The end of the loop: an aggregate error, or the check that every required
\* consumer has its receipt.
Required(s) == Catalogue \cup Registered[HostOf[s]]

EndOfLoop(s) ==
  /\ pc[s] = "work" /\ call[s].at = "next" /\ call[s].todo = {}
  /\ \/ ~call[s].failed /\ Required(s) \subseteq receipts[job[s]] /\ Return(s)
     \/ /\ call[s].failed \/ ~(Required(s) \subseteq receipts[job[s]])
        /\ Throw(s, FALSE)

Callback(s) ==
  \/ ReadEvent(s) \/ \E c \in Consumers : Invoke(s, c)
  \/ Deny(s) \/ HandleInTransaction(s) \/ HandleEffect(s) \/ HandleReceipt(s)
  \/ EndOfLoop(s)

-----------------------------------------------------------------------------
(* The ledger's own steps *)

Protocol(s) ==
  /\ Claim(s) \/ Renew(s) \/ Complete(s) \/ RenewToFail(s) \/ Fail(s) \/ Release(s)
  /\ UNCHANGED outbox

Crash(h) ==
  /\ HostCrashes(h)
  /\ call' = [s \in Slots |-> IF HostOf[s] = h THEN NoCall ELSE call[s]]
  /\ UNCHANGED <<fact, receipts, applied, denied, view>>

RelayCrashes(r) ==
  /\ view[r] # {}
  /\ view' = [view EXCEPT ![r] = {}]
  /\ UNCHANGED <<workVars, fact, receipts, applied, denied, call>>

Ledger ==
  /\ \/ \E i \in Items : \/ QueueLoses(i) \/ DueArrives(i) \/ LeaseExpires(i)
                         \/ \E a \in Action : Operate(i, a)
                         \/ \E s \in Slots : Acquire(s, i) \/ Refuse(s, i)
     \/ \E s \in Slots : SessionDies(s)
     \/ Reconcile
  /\ UNCHANGED outbox

OutboxNext ==
  \/ \E f \in Items : Record(f) \/ Retain(f)
  \/ \E r \in Relays : \/ RelayLooks(r) \/ RelayCrashes(r)
                       \/ \E f \in Items : RelayAdmits(r, f) \/ RelaySkips(r, f)
  \/ Fence
  \/ \E s \in Slots : Callback(s) \/ Protocol(s)
  \/ \E h \in Hosts : Crash(h)
  \/ Ledger

OutboxSpec == OutboxInit /\ [][OutboxNext]_vars

-----------------------------------------------------------------------------
(* Properties *)

\* Every variable of the outbox ranges over what its table or slot can hold.
OutboxTypeOK ==
  /\ fact \in [Items -> Fact]
  /\ receipts \in [Items -> SUBSET Consumers]
  /\ applied \in [Items -> [Consumers -> 0..MaxRepeats]]
  /\ denied \in [Items -> SUBSET Consumers]
  /\ view \in [Relays -> SUBSET Items]
  /\ call \in [Slots -> Call]

\* "Never before the effect: a receipt for work not done is work lost."
ReceiptFollowsEffect ==
  \A f \in Items : \A c \in receipts[f] : applied[f][c] > 0 \/ c \in denied[f]

\* The outbox implements the promise of FactDelivery: a consumer of the first
\* form has a fact once at most and never both applied and denied, though the
\* receipt check is a read made long before the handler commits, sessions and
\* leases can be lost in between and retention can delete the receipts under a
\* late handler; a fact is called delivered, or is deleted, only when every
\* consumer the catalogue names has had it, whatever the process had
\* registered; and a fenced fact is stopped: a relay that looked before the
\* fence may still give it work and publish it, but nobody has it.
FateOf(f) ==
  IF fact[f].status = "unrecorded" THEN "unrecorded"
  ELSE IF fact[f].status = "fenced" THEN "stopped"
  ELSE IF row[f].state = "succeeded" \/ fact[f].status = "deleted" THEN "delivered"
  ELSE "open"

Promise == INSTANCE FactDelivery WITH
  Facts <- Items, Exact <- Transactional,
  fate <- [f \in Items |-> FateOf(f)], effects <- applied, waived <- denied

KeepsPromise == Promise!Spec

-----------------------------------------------------------------------------
(* Fairness: that of WorkItems, and of the relay's timer. One relay attempt  *)
(* in infinitely many is assumed to commit.                                  *)

LedgerStep(A) == A /\ UNCHANGED outbox

OutboxFairness ==
  /\ \A s \in Slots : WF_vars(Callback(s) \/ Protocol(s))
  /\ \A r \in Relays : WF_vars(RelayLooks(r) \/ \E f \in Items : RelayAdmits(r, f) \/ RelaySkips(r, f))
  /\ \A f \in Items :
       /\ SF_vars(\E r \in Relays : RelayAdmits(r, f))
       /\ WF_vars(LedgerStep(DueArrives(f))) /\ WF_vars(LedgerStep(LeaseExpires(f)))
       /\ SF_vars(LedgerStep(Reclaims(f))) /\ SF_vars(LedgerStep(Enqueues(f)))
       /\ SF_vars(LedgerStep(\E s \in Slots : Acquire(s, f)))
       /\ SF_vars(LedgerStep(\E s \in Slots : job[s] = f /\ Claim(s)))

FairOutbox == OutboxSpec /\ OutboxFairness

\* Every recorded fact comes to rest: every catalogued consumer has had it, or
\* its work waits for an operator or was ended by one, or the fence stopped it.
Handled(f, c) == applied[f][c] > 0 \/ c \in denied[f]
AtRest(f) ==
  \/ \A c \in Catalogue : Handled(f, c)
  \/ row[f].state \in {"quarantined", "cancelled", "discarded"}
  \/ fact[f].status = "fenced"
FactsComeToRest == \A f \in Items : fact[f].status = "recorded" ~> AtRest(f)
=============================================================================
