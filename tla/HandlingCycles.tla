--------------------------- MODULE HandlingCycles ---------------------------
(***************************************************************************)
(* One Google review and the Inbox work it opens.  Review owns the source  *)
(* (epochs, material revisions, erasure) and what Google shows as reply;   *)
(* Inbox owns one item with its Handling Cycles.  Review only tells Inbox  *)
(* of a change by an outbox fact, and facts arrive late and in any order.  *)
(* Every consumer therefore asks Review for a permit first: Review locks   *)
(* the review, compares the fact with the current source, and holds the    *)
(* lock until Inbox has committed.                                         *)
(*                                                                         *)
(* A delivery that throws changes nothing and comes again, a redelivery of *)
(* a fact with a receipt changes nothing: neither is a step here.          *)
(***************************************************************************)
EXTENDS Integers, Sequences, FiniteSets

CONSTANTS
  Own,           \* the reply text RepKey's publication attempt carries
  Other,         \* a reply text written on Google by someone else
  NoReply,       \* Google shows no reply
  Erased,        \* an observed text that source erasure blanked
  Nothing,       \* an absent record (review row, item, page, permit)
  ReadSources,   \* the kinds of reply read in use
  Measured,      \* the review's cycles carry a measured Response Target
  MaxSequence,   \* bound: writes of the review row that record a fact
  MaxEpoch,      \* bound: archive/restore or relink of the property
  MaxReadings,   \* bound: recorded reply observations
  MaxCycles      \* bound: cycles up to which a manager reopens

ASSUME CyclesAssumption ==
  /\ ReadSources \subseteq {"provider_snapshot", "targeted_reconciliation"}
  /\ Measured \in BOOLEAN
  /\ {MaxSequence, MaxEpoch, MaxReadings, MaxCycles} \subseteq Nat
  /\ Cardinality({Own, Other, NoReply, Erased, Nothing}) = 5
  /\ Nothing \notin {"open", "closed"}

VARIABLES
  epoch,      \* properties.source_epoch
  review,     \* the reviews row; erasedAgain: sourceContentErasedAt was re-stamped
  revisions,  \* material_review_revisions, numbered by position
  shown,      \* the reply Google shows now
  attempt,    \* RepKey's one publication attempt
  observed,   \* google_reply_observation_heads with its observation; held: some
              \* recorded observation still holds text
  facts,      \* facts in the outbox
  handled,    \* facts Inbox holds a receipt for
  permit,     \* what Review attests while it holds its lock for Inbox
  item,       \* inbox_items.status
  head,       \* inbox_handling_cycle_heads
  cycles,     \* inbox_handling_cycles with how each closed, by number
  page        \* the head a manager's reopen was prepared on

reviewVars == <<epoch, review, revisions>>
replyVars  == <<shown, attempt, observed>>
inboxVars  == <<item, head, cycles>>
vars == <<reviewVars, replyVars, facts, handled, permit, inboxVars, page>>

-----------------------------------------------------------------------------
(* Facts. *)

SourceFact(kind, row) ==
  [kind |-> kind, epoch |-> row.epoch, revision |-> row.revision,
   number |-> row.sequence, says |-> row.state]

ReplyFact(o, says) ==
  [kind |-> "observed", epoch |-> o.epoch, revision |-> o.revision,
   number |-> o.number, says |-> says]

FactSpace ==
  [kind : {"created", "updated", "transitioned", "observed"},
   epoch : 0..MaxEpoch, revision : Nat, number : Nat,
   says : {"active", "source_expired", "provider_deleted", "answered", "deleted"}]

-----------------------------------------------------------------------------
(* Review: the source.  Every write takes the review's lock. *)

\* Deviation of the next definition: the lock is given back before Inbox commits.
LockIsShort == TRUE

Unlocked == permit = Nothing

\* Publication work authorized for an older source ends with the write.
FenceAttempt(row) ==
  attempt' = IF attempt.state = "open"
                /\ <<attempt.epoch, attempt.revision>> # <<row.epoch, row.revision>>
             THEN [attempt EXCEPT !.state = "settled"] ELSE attempt

\* The row after an observation: a change of the material, or a first
\* observation in a newer epoch, gives it the next revision.
ObservedRow(from, material) ==
  [epoch |-> epoch, state |-> "active", sequence |-> from.sequence + 1,
   erasedAgain |-> FALSE, revision |-> from.revision + (IF material \/ from.epoch < epoch THEN 1 ELSE 0)]

\* The chain after it; a revision that only re-binds the material is a carry.
ObservedRevisions(row, material) ==
  IF row.revision > review.revision
  THEN Append(revisions, [epoch |-> epoch, carry |-> ~material])
  ELSE revisions

\* Deviation of the next definition: the text becomes absent.
AbsentReply(o) == IF o # Nothing THEN [o EXCEPT !.text = Nothing] ELSE o

\* Erasure blanks the reply text every reading of the review still holds.
BlankReply(o) ==
  IF o # Nothing
  THEN [o EXCEPT !.held = FALSE, !.text = IF @ = NoReply THEN NoReply ELSE Erased]
  ELSE o

FirstSighting ==
  /\ Unlocked /\ review = Nothing /\ MaxSequence > 0
  /\ LET row == [epoch |-> epoch, revision |-> 1, state |-> "active", sequence |-> 1,
                 erasedAgain |-> FALSE]
     IN /\ review' = row
        /\ facts' = facts \cup {SourceFact("created", row)}
  /\ revisions' = <<[epoch |-> epoch, carry |-> FALSE]>>
  /\ UNCHANGED <<epoch, replyVars, handled, permit, inboxVars, page>>

\* A changed review is observed while its content is held.
ObserveChange(material) ==
  /\ Unlocked /\ review # Nothing /\ review.state = "active"
  /\ review.sequence < MaxSequence
  /\ LET row == ObservedRow(review, material)
     IN /\ review' = row
        /\ revisions' = ObservedRevisions(row, material)
        /\ facts' = facts \cup {SourceFact("updated", row)}
        /\ FenceAttempt(row)
  /\ UNCHANGED <<epoch, shown, observed, handled, permit, inboxVars, page>>

\* Content expires or Google deletes the review.  A row of an older epoch is
\* erased without a fact, and only by expiry.
EraseSource(state) ==
  /\ Unlocked /\ review # Nothing /\ review.state = "active"
  /\ observed' = BlankReply(observed)
  /\ \/ /\ review.epoch = epoch /\ review.sequence < MaxSequence
        /\ LET row == [review EXCEPT !.state = state, !.sequence = @ + 1]
           IN /\ review' = row
              /\ facts' = facts \cup {SourceFact("transitioned", row)}
     \/ /\ review.epoch < epoch /\ state = "source_expired"
        /\ review' = [review EXCEPT !.state = state]
        /\ UNCHANGED facts
  /\ UNCHANGED <<epoch, revisions, shown, attempt, handled, permit,
                 inboxVars, page>>

\* Readings are recorded over an erased review too.  The sweep finds the reply
\* text they hold and erases the review again, whatever its epoch: it takes a
\* new erasure instant, and no fact tells of it.
RepairErasure ==
  /\ Unlocked /\ review # Nothing /\ review.state # "active"
  /\ observed # Nothing /\ observed.held
  /\ review' = [review EXCEPT !.erasedAgain = TRUE]
  /\ observed' = BlankReply(observed)
  /\ UNCHANGED <<epoch, revisions, shown, attempt, facts, handled, permit,
                 inboxVars, page>>

\* An erased review is observed again.
Reobserve(material) ==
  /\ Unlocked /\ review # Nothing /\ review.state # "active"
  /\ review.sequence < MaxSequence
  /\ LET row == ObservedRow(review, material)
     IN /\ review' = row
        /\ revisions' = ObservedRevisions(row, material)
        /\ facts' = facts \cup {SourceFact("updated", row)}
        /\ FenceAttempt(row)
  /\ UNCHANGED <<epoch, shown, observed, handled, permit, inboxVars, page>>

\* A review past its deadline that nobody erased yet is redacted and observed
\* again in one transaction; an older epoch's row gets no expiry fact.
ReobserveOverdue(material) ==
  /\ Unlocked /\ review # Nothing /\ review.state = "active"
  /\ LET fresh   == review.epoch = epoch
         expired == IF fresh
                    THEN [review EXCEPT !.state = "source_expired", !.sequence = @ + 1]
                    ELSE review
         row     == ObservedRow(expired, material)
     IN /\ row.sequence <= MaxSequence
        /\ review' = row
        /\ revisions' = ObservedRevisions(row, material)
        /\ facts' = facts \cup {SourceFact("updated", row)}
              \cup (IF fresh THEN {SourceFact("transitioned", expired)} ELSE {})
        /\ observed' = IF fresh THEN BlankReply(observed) ELSE observed
        /\ FenceAttempt(row)
  /\ UNCHANGED <<epoch, shown, handled, permit, inboxVars, page>>

\* Archive and restore, or a relink, starts a new source epoch.  A permit for
\* a source fact holds the property row too; one for a reading does not.
AdvanceEpoch ==
  /\ permit # Nothing => permit.fact.kind = "observed"
  /\ review # Nothing /\ epoch < MaxEpoch
  /\ epoch' = epoch + 1
  /\ UNCHANGED <<review, revisions, replyVars, facts, handled, permit, inboxVars, page>>

-----------------------------------------------------------------------------
(* Google, and Review's record of what it shows. *)

\* Someone writes on Google, RepKey's attempt lands, or the reply goes.
GoogleShows(text) ==
  /\ review # Nothing /\ text # shown
  /\ text = Own => attempt.state # "none"
  /\ shown' = text
  /\ UNCHANGED <<reviewVars, attempt, observed, facts, handled, permit,
                 inboxVars, page>>

\* RepKey authorizes its reply for the current source and starts to send it.
StartAttempt ==
  /\ review # Nothing /\ review.state = "active" /\ attempt.state = "none"
  /\ attempt' = [state |-> "open", epoch |-> review.epoch, revision |-> review.revision]
  /\ UNCHANGED <<reviewVars, shown, observed, facts, handled, permit,
                 inboxVars, page>>

InScope(o, row) == o # Nothing /\ o.epoch = row.epoch /\ o.revision = row.revision

IsLive(o) == o # Nothing /\ o.text # NoReply

\* The answered reply, word for word, after a guest edit in the same epoch.
CarriedOver ==
  /\ IsLive(observed) /\ shown = observed.text
  /\ observed.epoch = review.epoch /\ observed.revision < review.revision

ReplyChange ==
  IF CarriedOver THEN "unchanged"
  ELSE IF ~InScope(observed, review)
  THEN IF shown # NoReply THEN "added" ELSE "unchanged"
  ELSE CASE IsLive(observed) /\ shown = NoReply           -> "deleted"
         [] ~IsLive(observed) /\ shown # NoReply          -> "added"
         [] shown # NoReply /\ shown # observed.text      -> "edited"
         [] OTHER                                         -> "unchanged"

\* An attempt whose outcome is open and whose source is the observed one.
CurrentCandidate == attempt.state = "open" /\ InScope(attempt, review)

\* What a reading tells the Inbox: a reply that answers the review (confirmed
\* as RepKey's or written on Google), a deleted one, or nothing.
ReadingSays ==
  CASE shown # NoReply /\ (CurrentCandidate \/ ReplyChange # "unchanged") -> "answered"
    [] shown = NoReply /\ ReplyChange = "deleted"                         -> "deleted"
    [] OTHER                                                              -> "nothing"

\* A snapshot read that says nothing new leaves the head as it is.
RestatesHead(source) ==
  /\ source = "provider_snapshot" /\ ReadingSays = "nothing"
  /\ InScope(observed, review) /\ shown = observed.text

RecordReading(source) ==
  IF RestatesHead(source) THEN UNCHANGED <<attempt, observed, facts>>
  ELSE LET number == IF observed = Nothing THEN 1 ELSE observed.number + 1
           new    == [number |-> number, epoch |-> review.epoch,
                      revision |-> review.revision, text |-> shown,
                      held |-> shown # NoReply \/ (observed # Nothing /\ observed.held)]
       IN /\ number <= MaxReadings
          /\ observed' = new
          /\ facts' = IF ReadingSays = "nothing" THEN facts
                      ELSE facts \cup {ReplyFact(new, ReadingSays)}
          /\ attempt' = IF CurrentCandidate /\ shown # NoReply
                        THEN [attempt EXCEPT !.state = "settled"] ELSE attempt

\* A sync (snapshot page, push fetch, head check) reads the reply it finds.
SnapshotRead ==
  /\ Unlocked /\ review # Nothing /\ "provider_snapshot" \in ReadSources
  /\ RecordReading("provider_snapshot")
  /\ UNCHANGED <<reviewVars, shown, handled, permit, inboxVars, page>>

\* The reconciler or the publish read-back learns what became of an uncertain
\* attempt.  It set out while the attempt was open and records only if the
\* source has not moved; the attempt is matched by number, so another read may
\* have settled it meanwhile.
TargetedRead ==
  /\ Unlocked /\ "targeted_reconciliation" \in ReadSources
  /\ attempt.state # "none" /\ review # Nothing /\ InScope(attempt, review)
  /\ RecordReading("targeted_reconciliation")
  /\ UNCHANGED <<reviewVars, shown, handled, permit, inboxVars, page>>

-----------------------------------------------------------------------------
(* Inbox: cycles. *)

\* Deviation of the next definition: every cycle is dated when it is opened.
CycleDatedNow(revision, opened, after) ==
  [revision |-> revision, opened |-> opened, closed |-> "no", by |-> 0,
   after |-> IF observed = Nothing THEN 0 ELSE observed.number]

\* "after" dates the cycle's Response Target among the readings.  A cycle for a
\* revision is dated when Review first saw that revision: every reading of the
\* revision is later, so it is 0.
Cycle(revision, opened, after) ==
  [revision |-> revision, opened |-> opened, closed |-> "no", by |-> 0,
   after |-> after]

CloseLast(cs, reason, by) ==
  [cs EXCEPT ![Len(cs)].closed = reason, ![Len(cs)].by = by]

\* The next cycle; an open one is closed as superseded first, which costs the
\* head a state revision of its own.
OpenNext(inbox, revision, opened, after) ==
  LET open == inbox.head.status = "open"
  IN [cycles |-> Append(IF open THEN CloseLast(inbox.cycles, "superseded", 0)
                                ELSE inbox.cycles, Cycle(revision, opened, after)),
      head |-> [revision |-> revision, status |-> "open",
                stateRevision |-> inbox.head.stateRevision + IF open THEN 2 ELSE 1]]

CloseCycle(inbox, reason, by) ==
  [cycles |-> CloseLast(inbox.cycles, reason, by),
   head |-> [inbox.head EXCEPT !.status = "closed", !.stateRevision = @ + 1]]

\* A carry only moves the head's revision.
CarryHead(inbox) == [inbox EXCEPT !.head.revision = @ + 1]

Inbox == [head |-> head, cycles |-> cycles]

\* A new item's first cycle is for the review's first revision.
NewInbox ==
  [cycles |-> <<Cycle(1, "review_observed", 0)>>,
   head |-> [revision |-> 1, stateRevision |-> 1, status |-> "open"]]

\* Deviations of the next definition: a carry opens a cycle; only the next
\* revision is caught up with.
CatchUpOverCarries(inbox, upTo) ==
  LET reached[r \in inbox.head.revision .. upTo] ==
        IF r = inbox.head.revision THEN inbox
        ELSE OpenNext(reached[r - 1], r, "material_revision_changed", 0)
  IN reached[upTo]

CatchUpByOne(inbox, upTo) ==
  IF inbox.head.revision >= upTo THEN inbox
  ELSE IF revisions[inbox.head.revision + 1].carry THEN CarryHead(inbox)
  ELSE OpenNext(inbox, inbox.head.revision + 1, "material_revision_changed", 0)

\* An attested revision the head has not reached opens a cycle, or is a carry.
PassRevision(inbox, r) ==
  IF revisions[r].carry THEN CarryHead(inbox)
  ELSE OpenNext(inbox, r, "material_revision_changed", 0)

Passed(inbox, upTo) ==
  LET passed[r \in inbox.head.revision .. upTo] ==
        IF r = inbox.head.revision THEN inbox ELSE PassRevision(passed[r - 1], r)
  IN passed

\* One cycle for every attested revision the head has not reached.
CatchUp(inbox, upTo) == Passed(inbox, upTo)[upTo]

\* The item row is written with the head it mirrors.
Write(inbox) ==
  /\ head' = inbox.head /\ cycles' = inbox.cycles
  /\ item' = inbox.head.status

-----------------------------------------------------------------------------
(* Inbox: consumers. *)

\* A transition is attested while it is the row's last word, to the instant of
\* the erasure: one repeated since has another.
TransitionCurrent(f) ==
  /\ epoch = f.epoch /\ review.epoch = f.epoch
  /\ review.revision = f.revision /\ review.sequence = f.number
  /\ review.state = f.says /\ ~review.erasedAgain

\* Review attests the fact against the current source.
ExactCurrent(f) ==
  CASE f.kind \in {"created", "updated"} ->
         /\ epoch = f.epoch /\ review.epoch = f.epoch
         /\ review.revision >= f.revision
         /\ f.kind = "created" => f.revision = 1
    [] f.kind = "transitioned" -> TransitionCurrent(f)
    [] f.kind = "observed" ->
         /\ InScope(f, review) /\ InScope(observed, review)
         /\ observed.number = f.number

\* Deviation of the next definition: any next revision will do.
FollowsHead(f) == f.revision = head.revision + 1

\* The revision a reading's own revision only carries, if it does.
CarriesHead(f) ==
  /\ f.revision = head.revision + 1 /\ revisions[f.revision].carry

\* Deviation of the next definition: the old reading is accepted.
TargetTakesAny(f) == FALSE

\* The trigger on a measured Response Target refuses an update dated before
\* the row was written: a reading older than the cycle cannot complete it.
TargetRefuses(f) ==
  Measured /\ f.says = "answered" /\ item = "open" /\ f.number <= cycles[Len(cycles)].after

\* Whether the callback has what it waits for.  A callback that throws gives
\* the lock back and leaves the fact for the next delivery.
CallbackReady(f) ==
  CASE f.kind \in {"created", "updated"} ->
         item # Nothing => head.revision <= review.revision
    [] f.kind = "transitioned" -> item # Nothing
    [] f.kind = "observed" ->
         /\ item # Nothing /\ item = head.status
         /\ head.revision >= f.revision \/ CarriesHead(f)
         /\ head.revision > f.revision \/ ~TargetRefuses(f)

Pending(f) == f \in facts /\ f \notin handled

Permit(f) ==
  /\ Unlocked /\ Pending(f) /\ ExactCurrent(f) /\ CallbackReady(f)
  /\ permit' = [fact |-> f, revision |-> review.revision, state |-> review.state]
  /\ UNCHANGED <<reviewVars, replyVars, facts, handled, inboxVars, page>>

\* A fact the source has moved past is receipted and changes nothing.
Obsolete(f) ==
  /\ Unlocked /\ Pending(f) /\ ~ExactCurrent(f)
  /\ handled' = handled \cup {f}
  /\ UNCHANGED <<reviewVars, replyVars, facts, permit, inboxVars, page>>

\* Each apply commits its receipt, and Review's lock is given back.
Applies(kinds) ==
  /\ permit # Nothing /\ permit.fact.kind \in kinds
  /\ handled' = handled \cup {permit.fact}
  /\ permit' = Nothing
  /\ UNCHANGED <<reviewVars, replyVars, facts, page>>

\* Deviation of the next definition: the projection opens over erased content.
KeepOpen(inbox) == inbox

\* Review attests the content's state with the revisions: erased content closes.
CloseIfErased(inbox) ==
  IF permit.state # "active" /\ inbox.head.status = "open"
  THEN CloseCycle(inbox, "source_ineligible", 0) ELSE inbox

ApplyProjection ==
  /\ Applies({"created", "updated"})
  /\ Write(CloseIfErased(
       CatchUp(IF item = Nothing THEN NewInbox ELSE Inbox, permit.revision)))

ApplySourceTransitioned ==
  /\ Applies({"transitioned"})
  /\ IF head.status = "open"
     THEN Write(CloseCycle(Inbox, "source_ineligible", 0))
     ELSE UNCHANGED inboxVars

ApplyReplyObserved ==
  /\ Applies({"observed"})
  /\ LET f == permit.fact
         carried == IF head.revision < f.revision THEN CarryHead(Inbox) ELSE Inbox
     IN IF head.revision > f.revision THEN UNCHANGED inboxVars
        ELSE Write(
          CASE f.says = "answered" /\ item = "open" ->
                 CloseCycle(carried, "answered", f.number)
            [] f.says = "deleted" /\ item = "closed" /\ permit.state = "active" ->
                 OpenNext(carried, f.revision, "provider_reply_deleted", f.number)
            [] OTHER -> carried)

Apply == ApplyProjection \/ ApplySourceTransitioned \/ ApplyReplyObserved

-----------------------------------------------------------------------------
(* Inbox: a manager reopens finished work. *)

PrepareReopen ==
  /\ page = Nothing /\ item = "closed" /\ Len(cycles) < MaxCycles
  /\ page' = [cycle |-> Len(cycles), head |-> head]
  /\ UNCHANGED <<reviewVars, replyVars, facts, handled, permit, inboxVars>>

\* Review holds its lock for the reopen as it does for a fact.
ReopenReviewCycle ==
  /\ page # Nothing /\ page' = Nothing
  /\ Unlocked /\ review.epoch = epoch /\ review.state = "active"
  /\ review.revision = page.head.revision
  /\ page.cycle = Len(cycles) /\ page.head = head /\ item = "closed"
  /\ Write(OpenNext(Inbox, head.revision, "manual_reopen",
                    IF observed = Nothing THEN 0 ELSE observed.number))
  /\ UNCHANGED <<reviewVars, replyVars, facts, handled, permit>>

\* The command is refused, or never sent.
AbandonReopen ==
  /\ page # Nothing /\ page' = Nothing
  /\ UNCHANGED <<reviewVars, replyVars, facts, handled, permit, inboxVars>>

-----------------------------------------------------------------------------
Init ==
  /\ epoch = 0 /\ review = Nothing /\ revisions = <<>>
  /\ shown = NoReply /\ observed = Nothing
  /\ attempt = [state |-> "none", epoch |-> 0, revision |-> 0]
  /\ facts = {} /\ handled = {} /\ permit = Nothing
  /\ item = Nothing /\ head = Nothing /\ cycles = <<>> /\ page = Nothing

Review ==
  \/ FirstSighting \/ AdvanceEpoch
  \/ \E material \in BOOLEAN :
       ObserveChange(material) \/ Reobserve(material) \/ ReobserveOverdue(material)
  \/ \E state \in {"source_expired", "provider_deleted"} : EraseSource(state)
  \/ RepairErasure

Google ==
  \/ \E text \in {Own, Other, NoReply} : GoogleShows(text)
  \/ StartAttempt \/ SnapshotRead \/ TargetedRead

Deliver == Apply \/ \E f \in facts : Permit(f) \/ Obsolete(f)

Manager == PrepareReopen \/ ReopenReviewCycle \/ AbandonReopen

Next == Review \/ Google \/ Deliver \/ Manager

Spec == Init /\ [][Next]_vars

-----------------------------------------------------------------------------
(* Properties. *)

RowType == [epoch : 0..MaxEpoch, revision : Nat, sequence : Nat,
            state : {"active", "source_expired", "provider_deleted"},
            erasedAgain : BOOLEAN]

ReadingType == [number : Nat, epoch : 0..MaxEpoch, revision : Nat,
                text : {Own, Other, NoReply, Erased}, held : BOOLEAN]

HeadType == [revision : Nat, stateRevision : Nat, status : {"open", "closed"}]

CycleType ==
  [revision : Nat, by : Nat, after : Nat,
   opened : {"review_observed", "material_revision_changed",
             "provider_reply_deleted", "manual_reopen"},
   closed : {"no", "superseded", "source_ineligible", "answered"}]

ASSUME NothingIsNoRecord == Nothing \notin RowType \cup ReadingType \cup FactSpace

\* Every variable keeps its type.
CyclesTypeOK ==
  /\ epoch \in 0..MaxEpoch
  /\ review \in RowType \cup {Nothing}
  /\ revisions \in Seq([epoch : 0..MaxEpoch, carry : BOOLEAN])
  /\ shown \in {Own, Other, NoReply}
  /\ attempt \in [state : {"none", "open", "settled"}, epoch : 0..MaxEpoch, revision : Nat]
  /\ observed \in ReadingType \cup {Nothing}
  /\ facts \subseteq FactSpace /\ handled \subseteq facts
  /\ permit \in [fact : facts, revision : Nat,
                 state : {"active", "source_expired", "provider_deleted"}] \cup {Nothing}
  /\ item \in {"open", "closed", Nothing} /\ head \in HeadType \cup {Nothing}
  /\ cycles \in Seq(CycleType)
  /\ page \in [cycle : Nat, head : HeadType] \cup {Nothing}

ProviderCycles(r) ==
  {i \in DOMAIN cycles : /\ cycles[i].revision = r
                         /\ cycles[i].opened \in {"review_observed",
                                                  "material_revision_changed"}}

\* In whatever order the facts came, every material revision the head has
\* reached opened exactly one cycle and every carry opened none, whether the
\* projection or a reading collapsed it.
OneCyclePerMaterialRevision ==
  item # Nothing =>
    /\ head.revision <= review.revision
    /\ \A r \in 1..head.revision :
         Cardinality(ProviderCycles(r)) = IF revisions[r].carry THEN 0 ELSE 1

\* A cycle is closed as answered only by a reading of its own revision, carries
\* set aside, and no reading closes two.
AnsweredByItsOwnReading ==
  \A i \in DOMAIN cycles : cycles[i].closed = "answered" =>
    /\ \E f \in facts :
         /\ f.kind = "observed" /\ f.number = cycles[i].by /\ f.says = "answered"
         /\ f.revision >= cycles[i].revision
         /\ \A r \in cycles[i].revision + 1 .. f.revision : revisions[r].carry
    /\ \A j \in DOMAIN cycles \ {i} : cycles[j].by # cycles[i].by

\* Work a manager reopened is not undone by a reading made before the reopen
\* and delivered after it (the cycle's Response Target being measured).
ReopenOutlivesOldReading ==
  Measured => \A i \in DOMAIN cycles :
    cycles[i].opened = "manual_reopen" /\ cycles[i].closed = "answered"
      => cycles[i].by > cycles[i].after

\* Nothing opens work over a source whose content is gone.
OpenWorkNeedsLiveSource ==
  [][item' = "open" /\ item # "open" => review.state = "active"]_vars

\* The property's source epoch left this row behind.
SourceMovedOn == review # Nothing /\ review.epoch < epoch

\* No delivery can go on.  Every delivery that goes on settles a fact, so the
\* relays, which redeliver until there is a receipt, always get here.
Delivered ==
  permit = Nothing /\ \A f \in facts \ handled : ExactCurrent(f) /\ ~CallbackReady(f)

\* Once everything deliverable is delivered the Inbox stands at Review's newest
\* revision: no order of facts, epochs and erasures leaves it waiting.
InboxCatchesUp ==
  Delivered /\ review # Nothing /\ ~SourceMovedOn =>
    item # Nothing /\ head.revision = review.revision

\* Review holds no content, and the property's epoch is still the row's.
ContentGone == review # Nothing /\ review.state # "active" /\ ~SourceMovedOn

\* Nor is there open work over content whose erasure stands as it was told: not
\* even if the transition overtook the projection of the last revision.
ErasedSourceCloses == Delivered /\ ContentGone /\ ~review.erasedAgain => item = "closed"

\* Review's newest reading shows a reply and is the one that told the Inbox.
AnsweredByHead ==
  /\ review # Nothing /\ InScope(observed, review) /\ IsLive(observed)
  /\ ReplyFact(observed, "answered") \in facts

ReopenedSince ==
  /\ cycles # <<>> /\ cycles[Len(cycles)].opened = "manual_reopen"
  /\ cycles[Len(cycles)].after >= observed.number

\* Nor is there open work over a review RepKey has seen answered, unless a
\* manager reopened it since.
AnsweredReviewCloses ==
  Delivered /\ AnsweredByHead /\ ~SourceMovedOn /\ ~ReopenedSince => item = "closed"
=============================================================================
