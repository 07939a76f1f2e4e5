# Verification of Reputation Key's delivery core

Reputation Key is a TypeScript product for hospitality reputation work. Its
authority is PostgreSQL; Redis carries BullMQ jobs that may be lost, repeated
or delayed; web and worker processes run side by side and are replaced by
rolling deployments. This directory models the parts where that matters most
and checks them with TLC and TLAPS.

## Inventory

| Part | State it keeps | Operations | Interacts with | Hard behaviour | What makes it correct |
| --- | --- | --- | --- | --- | --- |
| Durable work ledger (`shared/db/work-items.server.ts`) | `work_items` rows, advisory session locks | schedule, claim, renew, complete, fail, resolveUncertain, reserveDispatch, operate, runExclusive | every producer of work, the queue | expired leases under live callbacks, crashes, lost replies, operators | an attempt ends only by its owner or after its lease and lock are gone; budgets hold; work settles |
| Transactional outbox (`shared/outbox`) | `outbox_events`, `event_consumer_receipts` | record, admit, dispatch, deny, receipt, retain, fence | ledger, every consumer, retention, recovery | effect and receipt apart, rolling deployments, deletion under a late delivery | each consumer has each fact; transactional ones once |
| Pool reservation and apply admission (`shared/db/pool-client-reservation.ts`, `review/.../exact-current-apply-admission.ts`) | who holds which client, two FIFO queues, a counter | admit, reserve, lend, park, return | dispatcher, Review authorities | deadlock of pool against row lock, half-way failures | a fence holder never waits for a client; nothing leaks |
| Queues and schedulers (`shared/jobs`) | BullMQ jobs, dead-letter queue | enqueue, stall recovery, quarantine, redrive | ledger, all jobs | redelivery, staged quarantine | a terminal job is redrivable once and only once failed |
| Delayed execution gate | policy snapshot | decide | dispatcher, jobs | stale policy | nothing runs against current policy |
| Reply publication (`contexts/review`) | replies, attempts, reconciliation runs | draft, approve, publish, reconcile, cancel | Google, observations, Inbox | ambiguous provider outcomes | at most one live publication, never an unread retry |
| Google reply observation | heads, revisions | observe, supersede | publication, Inbox | observations race publications | heads only move forward |
| Review source lifecycle | epochs, revisions, contents | observe, snapshot, expire, erase | Property, AI, Inbox | stale snapshots | content of a dead epoch is not used |
| Inbox handling cycles | items, cycles | open, close, reopen | Review, Feed | out-of-order facts | one open cycle, closed by its own reason |
| Google import | sagas, item claims | claim, effect, release, reap | ledger, provider control | lease against lock timeouts | each item settles once |
| Google provider control and the credential (`shared/google-provider-control`, `contexts/integration`) | connection row, refresh lock, disconnect attempts, permits, OAuth receipts, quota | refresh, require reauthorization, disconnect, settle, reconnect, fence; issue, start and settle a permit | every provider call, Redis, Google, departures | late answers, a lock that lapses, a disconnect whose process died | a late answer changes nothing that happened since; a revoke owns its row; one refresh |
| AI operations, merchant AI authorization, ephemeral store | operations, epochs, leases | admit, execute, reap, withdraw | providers, Review | withdrawal under running work | nothing is delivered past a withdrawal |
| Feed, Reporting, Identity, Portal, Guest, Property | rows | single-transaction commands and consumers | outbox | mostly the outbox's | their own invariants |
| Web interface, shutdown, observability | - | - | - | - | - |

PROJECT.json lists the same parts with their status, and the hazards of the
code line by line.

## Plan

Order of work, most important first. The first five are done, and the credential
part of the sixth.

1. `WorkItems` and `WorkItemsProofs`: the ledger.
2. `FactDelivery` (abstract), `OutboxDelivery`, which extends `WorkItems` and
   implements the abstract module, and `OutboxProofs`.
3. `PoolReservation` and `PoolReservationProofs`, the deadlock discipline around
   both.
4. `PublicationPromise` (abstract), `ReplyPublication`, with the observations that
   decide it, which implements it, `ReplyPublicationProofs` and
   `PublicationPromiseProofs`; next the restore fence's rows.
5. `HandlingCycles` and `HandlingCyclesProofs`: the source of one review, and
   the Inbox work its facts open and close in any order.
6. `GoogleCredential` and `GoogleCredentialProofs`: refresh, disconnect and
   reconnect of one connection; next the permits and quota of the other routes,
   and `GoogleImport` over the ledger.
7. `MerchantAi` (epochs, leases, invalidation) and the AI operation reaper.
8. Dead-letter quarantine of BullMQ.

The invariants, the action properties and the two refinements of the passing runs
are proved. Theorems worth proving next are those of steps 6 to 8, and of the
rows the restore fence leaves behind in step 4. Liveness stays with TLC.

## Modules

### WorkItems

`row` is the table, one record per item. Instants are abstracted to what the
queries compare: a lease is none, live or expired; a pending row is not due
(`later`), due but dispatched within the minute (`due`), or due and
dispatchable (`dispatch`). `LeaseExpires` and `DueArrives` are the clock. A
`randomUUID` token is the number of the attempt it was issued for: that two tokens
differ is the UUID's doing and no property here. `pc`, `job`,
`held`, `session`, `terminal` are the worker executions (slots): the phase in
`createDispatcherHandler`, the item, the claimed token, whether the
advisory-lock session is alive, whether the error is unrecoverable. `queued` is
BullMQ reduced to the set of items with a waiting job. `seen` holds, per item,
the attempts that unfinished read-backs started from.

| Action | Code |
| --- | --- |
| `Schedule`, `QueueLoses` | `schedule` and the producer's enqueue; an existing row is untouched |
| `Acquire`, `Refuse` | `runExclusive` up to the lock; a refused job is consumed |
| `Claim` | `claim`, with the case that the commit survives its reply |
| `HandlerReturns`, `HandlerThrows` | the callback, left open here and refined by the outbox |
| `Renew`, `Complete`, `RenewToFail`, `Fail`, `Release` | the guarded block, the catch block and the finally block, each statement with its lost reply |
| `SessionDies`, `HostCrashes` | the environment |
| `ReserveDispatch` | one transaction of `reserveDispatch` and the enqueues of `reconcileWorkItems`; any batch, skipped row or failed enqueue |
| `ReadBackStarts`, `ReadBackSettles` | `resolveUncertain` around its provider read |
| `Operate` | `operate` |

A slot's process (`HostOf`) stands for one ledger instance, with its own
`executing` set; a second instance in one operating-system process is another
host. `updated_at` in the read-back's comparison is left out because state and
attempts already determine it: a row cannot leave `uncertain` and return
without a claim, which raises `attempts`. `resolveUncertain` is used by tests
and owners of read_back work; the outbox uses `retry`.

### OutboxDelivery and FactDelivery

`OutboxDelivery` extends `WorkItems`: items are facts, and the callback of a
slot in phase `work` is the dispatcher's (`call`). The transaction of
`schedulePending` is cut into the snapshot it reads (`RelayLooks`) and, per
candidate, the row lock with the search for its work and the admission
(`RelayAdmits`), which is where READ COMMITTED lets others in between. The
conditions of `lockPending` are inside its ranked subquery and are not evaluated
again for the locked version of the row (`Admissible`), so a relay that looked
before the recovery fence still gives a fenced fact work and publishes it; what
stops it there is the dispatcher, whose `readEvent` does not find it (`Found`). `Invoke` is the receipt check and
the policy gate, `HandleInTransaction` a consumer whose receipt commits with its
state (modelled from the metric command store), `HandleEffect` and
`HandleReceipt` one whose repeatable effect precedes its receipt (from
`removedMemberConsumerHandler`). `Retain` deletes a fact and its receipts,
`Fence` is the recovery fence. A fact may start as one that an earlier release
published without ledger work, with any receipts.

`FactDelivery` states the promise without any of this: exact consumers once or
waived, delivered means every catalogued consumer had it, a stopped fact reaches
nobody. `KeepsPromise` is the refinement, with a fact's fate read off its row,
its work and its deletion; a fenced fact is stopped whatever a late relay does
to it, so a consumer that had it would break the refinement.
`docs/operations/backup-and-lifecycle.md:219` goes further, fenced rows "cannot be
claimed or published": that rests on its procedure, which fences an isolated
sibling where no relay runs, not on the statements modelled here.

Abstracted: facts of one event type, thirty days of retention (the sweep may
come at any time), batch sizes (any subset), payloads (valid or not), and the
draining of envelopes from the previous release, which does not use the ledger.

### PoolReservation

Clients of the pool are slots with a holder and a use. `queue` is pg-pool's
FIFO of waiting `connect` calls, `waiters` and `active` are the admission,
`turnQueue` and `turn` are the promise chain of `acquireInTurn`. Units are
dispatcher executions, which hold a session client, make plain reads and make
applies, and plain transactions that hold one client and take the same fence.
`Dropped` evicts a parked client, `CheckIn` may find a lent one unusable,
`ConnectFails` is a checkout that times out or is refused, `EndTransaction`
from `locking` is the lock timeout. The assumption on `Clients` is the part of
`pool-budget.ts` the argument needs: one client for each session and one
reservation besides. `PoolReservationProofs` proves the safety of all of this for
any number of each.

### ReplyPublication and PublicationPromise

One Reply to one review, the attempt rows of its cycles, the provider permit of
each attempt (`call`), the authorization against the present (`fence`), the
observation head, the BullMQ job and what Google holds and shows. The write to
Google is an upsert whose answer may be lost, and a read may lag, so what the
rows claim has to stay behind what is known.

Five kinds of process share the rows: executions of the publish job (two may
run one stalled job), the leased sweep, "Check Google again", the review sync,
and the manager's and guest's commands, which are single transactions. A process
holds the row it read (`snap`); every guarded update compares it (`StillAsRead`).

| Action | Code |
| --- | --- |
| `SaveDraft`, `SubmitReply`, `RejectReply`, `ApproveReply`, `RetryPublication`, `EditPublished`, `CancelUndispatched` | the reply commands and their preconditions; `Authorize` is `authorizePublicationCycle` with the queued job |
| `StartJob`, `PrereadFails`, `Reload` | the job up to its read before the claim, whose failures prove that nothing was written |
| `Claim`, `ClaimRefused`, `AfterLostClaim` | `markPublicationSending` and what the job does with a claim it lost |
| `AdmitPermit`, `StartPermit`, `SendReply`, `NotSent`, `SourceRefused`, `GoogleAnswers`, `RecordVerdict` | the provider call, one step per commit, and the classification of its failure |
| `Begin`, `Lapse`, `AskEvidence`, `SettleNeverDispatched`, `Weigh` | the sweep, the check and the job's read-back |
| `Fetch`, `ReadFails`, `Allocate`, `Record` | a read of Google, its generation, and the observation transaction with what it confirms or supersedes |
| `GuestEdit` | the fence of replies written for an older source |
| `Tick`, `Crash`, `LoseJob`, `Land`, `Outsider`, `Echo` | time, losses and Google |

Texts are model values. Revisions are kept as what is compared: `fence.moved`
for the head revision named by the authorization, `gens` and `late` for the
order of read generations: `gens` pairs a reader with the later ones whose
record would overtake it. Ages of an attempt are the classes the code tells
apart: evidence may be asked, the fifteen-minute grace is over, the ladder has
ended; nothing asks for the age of a closed attempt, so none is kept. A manager's retry of an unknown outcome is a check that settles it and
then `RetryPublication`. A sweep's crash is a step it never takes before its
lease and its successor, so the sweep needs no `Crash`.

Left out: the approved and ambiguous rows the restore fence makes, withdrawal of
AI text, deletion of drafts, moderation, expiry of the review, replies that
differ in whitespace, rows of the previous workflow (`NULL`, `requested`), and
snapshots in flight across a guest edit.

`PublicationPromise` says what all of this is for, without job, claims, permits,
reads or crashes: per cycle a fate, the request on its way and the request
applied. A cycle begins over settled ones, sends when nothing of it is on Google,
may fall into doubt, and settles as published, given up or unwritten; unwritten
only when nothing was written, and then for good. A late worker may still send
for a cycle in doubt, published or given up: the code does not prevent that, and
the promise does not claim it. `CycleFate` reads the fate of a cycle off its
attempts and, while they have no verdict, off the Reply; a request is the number
of the attempt it was made for. `KeepsPublicationPromise` is the refinement.

The module does not check the transition table of `reply-publication-workflow.ts`:
`confirmReplyOnGoogle` (sending to published) and `editPublishedReply` (published
to authorized) make moves that the table does not list.

### HandlingCycles

One review. `epoch` is the property's `source_epoch`, `review` the row with its
material revision, state and transition sequence, `revisions` the chain of
attested revisions (a carry re-binds unchanged material to a new epoch),
`shown` what Google shows, `attempt` RepKey's one publication attempt,
`observed` the newest reading, with whether any recorded reading still holds
reply text (`held`). An erasure's instant is abstracted to what the code compares
it with: `erasedAgain` says that `source_content_erased_at` was stamped again since
the transition's fact took it. `head`, `cycles` and `item` are the Inbox's three
rows for the review. `facts` are the recorded outbox facts and `handled` those
with an Inbox receipt; a fact is delivered whenever it is pending, so every order
is possible. `permit` is the time between Review's answer to a consumer and the
Inbox's commit, two transactions during which Review's lock is held.

| Action | Code |
| --- | --- |
| `FirstSighting`, `ObserveChange`, `Reobserve`, `ReobserveOverdue` | an observation of the review: new, changed, after erasure, and past a deadline that no sweep has seen yet |
| `EraseSource` | expiry by the sweep, or deletion at Google |
| `RepairErasure` | the sweep over an erased review that holds reply text again: `shouldRepairTombstone` |
| `AdvanceEpoch` | archive and restore, or a relink of the property |
| `GoogleShows`, `StartAttempt` | the outside world and RepKey's own reply |
| `SnapshotRead`, `TargetedRead` | the reply observation transaction with its fact |
| `Permit`, `Obsolete` | the exact-current authorities: granted and waited for, or receipted without effect |
| `ApplyProjection`, `ApplySourceTransitioned`, `ApplyReplyObserved` | the Inbox's three transactions |
| `PrepareReopen`, `ReopenReviewCycle`, `AbandonReopen` | a manager's reopen, prepared on a page that may be stale |

A delivery that throws, or that finds its receipt, changes nothing and is not a
step. `commandRevision` adds a reason to refuse a reopen, which `AbandonReopen`
already covers. Read generations are in `ReplyPublication`, the retry budget and
quarantine of a fact in `OutboxDelivery`.

Four behaviours of the code shape the properties. Only a measured Response
Target refuses a reading older than a reopened cycle, so `ReopenOutlivesOldReading`
is stated for `Measured` cycles; without one the late answer closes the manager's
work. After an erasure a review that is observed again unchanged keeps its item
closed: nothing asks for a new cycle, and `InboxCatchesUp` speaks of the revision
only. And a targeted read that restates the head replaces it without a fact
(the cause of `PublishRefused` below), which makes an answer whose fact is still
on its way obsolete and leaves the item open; `AnsweredReviewCloses` therefore
speaks of a head that told the Inbox (`AnsweredByHead`).

The fourth is the repair of an erasure. Nothing keeps a reply reading off an erased
review (the observation store compares epoch and revision only), and the next
sweep then erases the review once more: `applyLifecycleToReview` takes
`shouldRepairTombstone` for it, which gives the row a new erasure instant and
records no fact. If the first erasure's fact has not been handled by then,
`source-transition-authority.ts:73` finds another instant than the fact's, and the
fact is receipted without effect. Nothing else tells the Inbox, so the item stays
open over erased content, although `inbox-command-store.ts:468` says that an erased
source "cannot keep an open Response Target or an open cycle". The shortest such
behaviour needs two readings, because a reading that finds the reply closes the
item as answered if its own fact is handled: a projection opened the item, the
review is erased, two targeted reads of an uncertain attempt are recorded (the
second replaces the head of the first without a fact), the sweep repairs, and
both pending facts are obsolete. `ErasedSourceCloses` therefore excludes a
repeated erasure (`~review.erasedAgain`); checked without that conjunct it fails
in `CyclesOutOfOrder` with this behaviour. An item closed before the repair stays
closed, which is `OpenWorkNeedsLiveSource`.

`InboxCatchesUp`, `ErasedSourceCloses` and `AnsweredReviewCloses` are stated in
states where nothing more can be delivered (`Delivered`) and not as liveness:
a delivery that goes on settles one of finitely many facts, and the relay
redelivers until there is a receipt, so such a state is reached when Review is
left alone.

Left out: the diverged and earlier-publication outcomes of a reading, the
authorization before any attempt, private feedback, bulk reopen, the rebuild of
stranded items, and the consumer of `review.expired`, which only scrubs text.

### GoogleCredential

`row` is one `google_connections` row. A token is the number of the grant it
belongs to; `google` has the account of every grant given to this client and the
ones that live. A consent may be given with any account: over a live grant of
that account it gives a token of the same grant, otherwise a new grant, and
revoking any token of a grant ends it. The model takes this from Google, not
from the code. The row's `google_subject` is the account of its token: a redaction
forgets both, and a row that names an account accepts no other (`IdentityFits`),
while a redacted one accepts any. `lease` is the refresh lock in Redis, `snap` the row a refresh
started from, `held` the token a disconnect read and may have revoked,
`attempt`, `permit` and `window` its receipt, permit and cleanup window,
`ceremony` the OAuth receipt.

| Action | Code |
| --- | --- |
| `LoadConnection`, `Contend`, `LoadLatest`, `Recheck`, `Leave` | `refreshGoogleToken` in the single flight: look, SET NX, sleep and look again, the winner's second look, the compare-and-delete |
| `GoogleAnswers`, `RefreshFails`, `CommitTokens`, `RequireReauthorization` | the provider call with the proof of leadership after it, every failure, and the two guarded writes |
| `ReadConnection`, `Prepare`, `AcquireDispatch`, `DispatchDenied` | the governed disconnect up to the gateway: token, attempt, permit and the row's `disconnecting` |
| `StartReads`, `StartCommits`, `SendRevoke`, `AnswerMissing`, `Settle` | the start of the permit, the revoke with a lost answer, the settlement that redacts |
| `LocalDisconnect` | `disconnectGoogleAccount` for every request without authorization or attempt |
| `WindowCloses`, `ReconcileElapsed` | the clock and the five-minute sweep |
| `BeginCeremony`, `ExchangeCode`, `EndCeremony`, `ClaimPreservedResult`, `ReconnectGoogleAccount`, `ReleaseClaim` | a reconnect from its approved target to its commit, at any time in between |
| `FenceForDeparture`, `UserRevokes`, `LeaseLapses` | the departing connector, the user at Google, a stalled owner |

Abstracted: `access_version` moves only with the other two versions and is
implied by them. A process that dies is a `pc` that never moves again. The
backoff, the provider authorization and the quota only refuse a refresh
(`RefreshFails`), so their reads are one step with what follows. A claim names
no owner, so any execution that ever claimed the response may apply, give back
or discard it, and one taken over looks as it did before: claims are a state of
the receipt. `ReconcileElapsed` closes an attempt also when the row moved
on without it, as the code does. Left out: the first connection, the status
`degraded`, a cleanup of a row that is disconnected already (it writes no row),
the same account on another connection (its refusal is `ReleaseClaim`, its revoke
`UserRevokes`), and the closure of an organization.

Two things are open. A disconnect reads the token, then asks for the
authorization, which reads the versions afresh. In between another disconnect may
redact the row and a ceremony connect another Google account, which
`assertGoogleIdentityAvailable` allows since the subject is gone. The attempt is
then made for the new account's row and sends the old account's token: Google
confirms, and the new account's live token is redacted as `revoked`, its grant
left at Google. TLC reaches this in twelve steps when asked for the property without
its condition on the account, so `RevokedEndsItsAccount` claims only that no live
grant of the account whose token was sent is forgotten.

The other is the start of a permit. `start_google_execution_permit` takes its time
at the start and reads receipt and connection without a lock; `reconcileElapsed` reads the
permit without one. Around the end of the window the sweep can therefore settle
"not sent" and the start still commit, where `google-disconnect-revoke.ts` says
that an unstarted permit proves it. The model has these orders; no property
says that "not sent" is never wrong.

### MC modules

`MCWorkItems`, `MCOutboxDelivery`, `MCPoolReservation`, `MCReplyPublication`,
`MCHandlingCycles` and `MCGoogleCredential` only name values and symmetries for
the .cfg files. Definitions introduced as "Deviation of the next definition"
are wrong variants of code definitions. No specification uses them; putting one
in place of its target must break a property.

## Runs

| Run | Instance | Properties |
| --- | --- | --- |
| `WorkFencing` | 1 item, retry or read_back, 3 slots in 2 processes, budget 2 growing to 3, fair | types, row shape, locked callbacks, how attempts end, finality, read-back discipline, due work settles |
| `OutboxEffects` | 1 fact, 2 consumers (one of each form), 2 processes of which one lacks a consumer, 2 relays | types, a receipt follows its effect, and the refinement: once at most, delivered means handled, fenced is stopped |
| `OutboxRest` | 1 consumer, one process with nothing registered, fair | facts come to rest |
| `PoolContention` | 3 dispatcher executions, 1 other transaction, 5 clients, limit 2 | counter, leaks, no wait under the fence, no standstill |
| `PoolUnitsEnd` | 2 dispatcher executions, 4 clients, fair | every unit ends without a timeout |
| `PublishStalledJob` | 2 executions of one job, 2 runs, 1 cycle | a failure is honest, one write per cycle |
| `PublishSweep` | 1 worker, the sweep, 2 cycles, fair | open cycles settle, no cycle over an unknown outcome |
| `PublishGuestEdit` | 1 worker, 1 check, 1 guest edit, 2 texts, 2 cycles | types, rows in step, and the refinement: one request a cycle, unwritten is unwritten, cycles begin over settled ones, verdicts stay |
| `PublishOverGoogle` | 1 worker, the sync, 2 outside changes, 2 runs | no write over a reply that was seen |
| `PublishRefused` | 1 worker, 1 check, 2 runs | finding, below |
| `CyclesOutOfOrder` | 1 review: 3 writes that record a fact, 1 new epoch, 2 readings, cycles up to 3 | types, one cycle per material revision, answered by its own reading, reopen outlives an old reading, no open work over erased content, and at rest: caught up, closed when erased, closed when answered |
| `CredentialRaces` | 2 refreshes, 1 governed disconnect beside local ones, 1 ceremony with either of 2 accounts, 1 lapse of the lock | types, the leader is current, a revoke owns its row, late answers land on their own token, a ceremony lands on what it saw, a confirmed revoke leaves no live grant of its account |

Bounds. `InitialMax`, `Grant` and `Ceiling` stand for 32 (8 by default), 8 and
100: two attempts and one operator retry reach every comparison of the budget,
including a quarantine with budget left and one without. Items do not interact
except through slots and batches, which the actions leave open anyway, so one
item suffices for safety; three slots in two processes are the least with a
live holder, a stale one in the same process and a competitor elsewhere. Two
consumers, one of each receipt form, and two executions cover every race of a
receipt; `MaxRepeats` only stops counting repeats of a repeatable effect. Three
applies under a limit of two are the least with a waiter for admission, and
five clients the least the budget allows for three sessions.

In the publication runs two cycles reach a retry and the edit of a published
reply, two runs of a job (five in the code) a requeue and the last run, two outside
changes a foreign reply and its deletion, one guest edit a moved source, and one
absent read of grace (three in the code) both sides of its limit; the run with
the guest has none, which the other runs have. Which process
may interfere is split over the runs: a stalled twin, the sweep, a check with a
guest edit, and the sync with an outsider. Two texts, and the two executions of
a job, are interchangeable, so the runs without liveness use that symmetry.

In `CyclesOutOfOrder` three writes reach a guest edit with an expiry between its
projection and its answer, an erasure followed by a re-observation, and a
revision the Inbox learns of only through the next one; one new epoch reaches a
carry before, between and after them; two readings reach a deleted answer and an
answer that arrives after the next; three cycles a reopen of a reopened item.

In `CredentialRaces` two refreshes are the least that contend, and one lapse the
least that lets both ask Google. Local disconnects, departures and reconnects
alternate as often as the one ceremony allows, so there is a disconnect before,
during and after a reconnect. Two Google accounts are the least with a grant
that the disconnect's token says nothing of. With two governed disconnects, whose
attempts may not overlap (`Prepare`), the state space is several times as large; that
instance is not part of the runs. Refreshes are interchangeable, and so are the
accounts, so the run uses both symmetries.

`PublishRefused` is expected to be violated. The comment at
`publish-reply-preread.ts:173` says that when the head moved since the manager
authorized a requeued cycle, "a reply RepKey had not seen is live". An absent
targeted read also moves the head (`restatesCurrentHead` exempts only snapshots),
so a "Check Google again" during the first call makes the next execution end the
cycle as provider truth although Google never showed a reply. Nothing is lost on
Google; the manager's cycle is cancelled where a retry would have been right.

Deadlock checking is off where the system may really stop: an item that is
discarded, or a fact that is settled, may be the end of the run. The pool's run
checks deadlock.

## Fairness

`WorkItems!Fairness`: a slot's next step happens if it stays possible
(callbacks end; statements end); due times and lease ends come; the
reconciler's timer runs and its transaction for an item, and one of its
enqueues, succeed if tried for ever; the lock is granted and a claim commits if
tried for ever. Nothing is assumed of the queue, crashes or sessions. A queue
that loses a job each time all slots are busy would starve a second item; the
liveness runs use one item for that reason, which amounts to assuming that a
waiting job waits for a free slot at least once.

`OutboxDelivery!OutboxFairness` adds the relay's timer and that one relay
attempt in infinitely many commits.

`PoolReservation!Fairness` assumes statements end, a callback does finitely
many things, and that pool and row lock serve their waiters. It assumes nothing
of timeouts, so `UnitsEnd` shows progress that does not wait for one. After a
connection drops inside a reservation the holder may wait (the code says so),
and only then.

`ReplyPublication!FairSpec` relies on the clock and on the recurring sweep: it
goes on taking steps while it has any. Nothing is assumed of the job, workers,
checks, the sync, Google's echo or the outcome of a read. Within a sweep's step
the read may fail each time, so `OpenCyclesSettle` rests on the bounded grace and
the end of the ladder, as the code's does.

## Proofs

`WorkItemsProofs` proves, for all values of the constants under
`WorkConstants`:

- `TypeCorrect`, `LedgerShapeHolds`, `LockedCallback`,
  `AttemptEnds` and `FinalRows`, behind the invariants and action properties of
  `WorkFencing`;
- `ReadBackFirst`, behind its read-back discipline.

`LedgerShape` alone is not inductive: that a lease token exists exactly while a
row runs has to be known with the type of every row, and that attempts stay
within the budget with what `AfterAttempt` does at the boundary (`RowInv`).
`LockedCallbackOwnsRow` needs `Claims`: a slot in a phase between claim and
settlement holds a token, of its own, no newer than its item's attempts; two
sessions never hold one item's lock; a locked slot between claim and settlement
owns its row. The lock half is what a reclaim must see (`~LockHeld`), the token
half what a settlement must compare. The proof has a lemma per group of
actions; `EndStep`, `FinalStep` and `ReadBackStep` then read the action properties
off it.

`OutboxProofs` proves, for any number of facts, consumers, relays, slots and
processes, under `WorkConstants` and `OutboxConstants`:

- `OutboxTyped` and `ReceiptsFollow`, the two invariants of `OutboxEffects`;
- `PromiseKept`: `OutboxSpec` implements `FactDelivery`, initial states and
  every step.

`OutboxStepsLedger` shows that each step of the outbox is one of `WorkItems` or
leaves it alone, so `ClaimInv` carries over. On top of it, `OutboxInv` has
`FactLife` (only published facts have work, only published facts that are not
fenced reach anybody, deleted ones were published), `Books` (a receipt means an
effect or a denial, a transactional consumer that had a fact has its receipt as
long as the fact exists, a delivered fact was had by the whole catalogue) and
`SlotsKnow` (a callback past its read has a fact that is not fenced; a handler
about to write its receipt has had its effect; a slot about to renew for
completion or to complete was done with the whole catalogue, or its fact is
fenced). A token proves a row, a row proves a published fact (`HolderFact`), and
the fence takes unpublished ones only: this is why no callback past its read
loses its fact to the fence, and why one that finds no fact may complete its
work. One lemma per group of steps proves both halves, the invariant kept and
the step promised (`Kept`).

`PoolReservationProofs` proves all five invariants of `PoolContention`
(`PoolTyped`, `AdmissionCounts`, `ClientsReturn`, `HolderIsServed`,
`NobodyStandsStill`) under `PoolConstants`: for any number of executions, other
transactions and clients, any reservation of two or more and any admission
limit, as long as there is a client per execution and one reservation besides.
None of them is inductive. The strengthening, `PoolInv`, has five parts, each
with a step lemma of its own:

- `PcInv`: each line (`queue`, `waiters`, `turnQueue`) lists the units at its
  places, each once, and the turn is with the one unit that acquires. It rests on
  lemmas about lines: what appending, serving and giving up do to one.
- `ClientInv`: where a unit is decides what its clients may be checked out for
  (`MayHold`), with one session, one outer and one inner client at most, and an
  outer one in every transaction. A step disturbs one unit's clients
  (`ClientMove`).
- `ReserveInv`: a reservation that lost nothing has two clients from its last
  checkout to its settlement, whoever they are lent to. One of them is therefore
  parked when the transaction or the consumer inside it asks, which is
  `HolderIsServed`. One that is still filling is short of `Reserve`.
- `FenceInv`: the holder of the fence is inside its transaction.
- `AdmissionExact` itself.

`NobodyStandsStill` counts: waiters hold at most one session per execution and
fewer than `Reserve` clients of the one reservation whose turn it is
(`WaitersCannotHoldAll`), which is less than the pool has. Two reservations
that fill at once, or a budget one client smaller, would break it.

`GoogleCredentialProofs` proves all six properties of `CredentialRaces`
(`CredentialTyped`, `NobodyAsksTwice`, `RevokeKeepsItsRow`, `LateAnswersLand`,
`CeremonyLands`, `RevokeEndedItsAccount`) under `CredentialAssumption`: for any number
of refreshes, disconnect requests, Google accounts and lapsed leases. The argument is one
lemma, `RowMoves`: whoever writes the row moves a version on, none back. So
whoever finds the versions it read finds the row it read (`Precedes`, kept for
every refresh at work and for the ceremony). A row that moved past a dispatched
attempt is never again one it may redact (`DispatchBehind`, `RedactableStays`).
`IInv` adds what the steps must know of each other:

- `TokensIssued`, `HeldHonest`: every token in use is of a grant Google has given,
  so its account stays what it is and one that was refused or revoked stays dead
  (`GoogleMoves`, `FenceDead`);
- `OneLive`: an account has at most one live grant, so a confirmed revoke of one
  of its tokens leaves it none, and `RevokedDead`: the row the attempt may redact
  then holds a dead token or another account's;
- `OwnerInside`: until a lease lapses, whoever is past the lock owns it, so only
  the leader commits;
- `OneOpen`, and `CeremonyHonest`: a ceremony was not begun while a revoke held
  the row. With both, only the attempt itself, or a local disconnect after the
  window, takes a disconnecting row away (`HeldRowMoves`).

`ReplyPublicationProofs` proves the safety of reply publication
(`PublicationTyped`, `RowsAgree`, `FailuresAreHonest`, `WritesOncePerCycle`,
`ClosedStaysClosed`, `CyclesBeginSettled`, `SeenRepliesAreKept`) under
`PublicationConstants`: for any number of workers, sweeps, checks and readers,
and any bound on cycles, runs, outsiders, edits and reads. Every step either
changes the Reply and its attempts in one of a few ways (`RowStep`: drafting,
starting, taking, or one of the endings) and leaves the calls to their callers
(`Calm`), or is one step of a call (`CallStep`, `Land`). The rows are then
handled once for all writers, and the calls for the few that make them. `IInv`
adds to the two agreeing rows:

- `StatusAgrees`, `CycleAgrees`, `TriesCount`: status goes with state, the text
  with the authorization, and the attempts with the operation keys used, which
  is what bounds them by `MaxRuns`;
- `Chain` and `LaterUnknown`: an attempt is repeated in its cycle only after it
  failed for certain, and none exists after the Reply's own. With
  `FailedAreDead` this is `OneWritePerCycle`;
- `CallersClaimed`, `OneCaller`, `CallerTells`: a caller holds an attempt that
  has a row, alone, has sent nothing before it sends, and calls failed only what
  did not arrive. A failed attempt therefore has neither a request under way nor
  a caller that could still use its permit (`FailedAreDead`), which is stronger
  than `FailureIsHonest` and, unlike it, inductive;
- `HeadAgrees`: while a write is in progress under a current authorization, the
  head is the one written over or nothing, because a read that records anything
  else ends the write (`RecordMovesHead`).

`PublicationPromiseProofs` proves from the same invariant that `Spec` implements
`PublicationPromise` (`PublicationKept`), under `PublicationConstants`. Two
arguments meet in it, and each is made for all writers at once:

- `FatesTold`: the state of the Reply row tells the fate of its cycle, since of a
  cycle's attempts only the last can have a verdict (`OthersUntold`); cycles
  before it are settled and later ones have not begun. A step of the rows
  therefore decides one cycle at most (`RowsDecideOne`), and one it leaves
  unwritten has only failed attempts, which are dead (`FailedSilent`).
- `OneRequestMoves`: a step of a call moves one request and leaves the rows
  alone. What sends does so for an attempt that did not fail, so nothing else of
  its cycle is on Google (`OneMayBe`) and the cycle is not unwritten (`LiveFate`).

`ClosedStaysClosed` has no run of its own: the refinement is what the run checks,
and there a verdict that is rewritten changes the fate of a settled cycle.

`HandlingCyclesProofs` proves all eight properties of `CyclesOutOfOrder`
(`CyclesTyped`, `OneCycleEach`, `AnsweredByItsOwn`, `ReopenOutlives`,
`CatchesUp`, `ErasureCloses`, `AnswerCloses`, `OpensOverLiveSource`) under
`CyclesAssumption` and `NothingIsNoRecord` (an absent row is told apart from every
row, reading and fact): for any number of writes, epochs, readings and reopens.
`ReopenOutlives` keeps the condition `Measured`, `ErasureCloses` that no erasure was
repeated. The properties at rest say
nothing of how the Inbox got there, so `IInv` relates what was recorded to what
was delivered, in three groups:

- what the Inbox's rows say of each other (`InboxSound`): the cycles opened for
  revisions are exactly those of the material revisions the head passed, the head
  mirrors the newest cycle but for carries, an answered cycle names a delivered
  reading of its own revision, and a Response Target is dated by what opened the
  cycle. It takes the rows as an argument, because `CatchUp` passes through
  half-caught-up inboxes inside one transaction;
- what Review recorded: no fact is ahead of its row or reading (`FactsLag`), a
  reading has one fact at most (`OneFactPerReading`), the newest revision was told
  and so was an erasure in the current epoch (`RevisionTold`, `ErasureTold`);
- what deliveries did with it: a fact of the current epoch that has a receipt
  brought the head to its revision (`RevisionsDelivered`), a transition that is
  still current closed the item (`ErasureDelivered`), an answer that is still
  current closed it or a manager reopened it later (`AnswerDelivered`). What
  Review attested for a permit stays true until the Inbox commits
  (`PermitAttests`); without its lock none of the three would be kept.

`CaughtUp`, `ErasureCloses` and `AnswerCloses` then read the properties at rest off
the last two groups: the fact that tells of the present was recorded, and if it
had no receipt it could be delivered. For an answer that is the argument that
the Response Target does not refuse it: the open cycle was dated by its revision,
by an earlier deleted reply, or by a reopen since.

`CatchUp` takes any number of revisions in one step, so that step needs an
induction. `Passed` is the recursive function of the inboxes on the way;
`PassedExists` and `PassedStepwise` show that it is what its equation says, and
`CatchUpSound` that each one is sound. The induction itself is `SetInduction`,
about a set of naturals that holds 0 and every successor, which follows from the
order on the naturals being well founded: the theorems of the library that take
an operator cannot be used, this one has none.

Only model-checked: the liveness properties (TLAPS has no fairness rules) and
the counterexample of `PublishRefused`.

## Not modelled

See the plan and the components of PROJECT.json. Out of reach or of little use
to a model: provider SDKs, rendering, SQL planning, cryptography, single
transactions over rows with one writer.
