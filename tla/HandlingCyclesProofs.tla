------------------------ MODULE HandlingCyclesProofs ------------------------
(***************************************************************************)
(* Theorems about HandlingCycles for any number of writes, epochs,         *)
(* readings and reopens, and any order in which the facts arrive.          *)
(***************************************************************************)
EXTENDS HandlingCycles, TLAPS, WellFoundedInduction, FiniteSetTheorems

-----------------------------------------------------------------------------
(* The inductive invariant. *)

(* What the Inbox's rows say of each other.  These take the tables they      *)
(* compare as arguments, so that they also speak of an inbox half caught up. *)

InboxType == [head : HeadType, cycles : Seq(CycleType)]

FromReview == {"review_observed", "material_revision_changed"}

Newest(inbox) == inbox.cycles[Len(inbox.cycles)]

OpenedFor(cs, r) == {i \in DOMAIN cs : cs[i].revision = r /\ cs[i].opened \in FromReview}

\* Between the two revisions the material stayed what it was.
OnlyCarries(revs, from, to) == \A r \in from + 1 .. to : revs[r].carry

\* The cycles opened for revisions are those of the revisions the head passed.
EachRevisionOnce(inbox, revs) ==
  /\ \A r \in 1..inbox.head.revision :
       IF revs[r].carry THEN OpenedFor(inbox.cycles, r) = {}
       ELSE \E i \in DOMAIN inbox.cycles : OpenedFor(inbox.cycles, r) = {i}
  /\ \A i \in DOMAIN inbox.cycles :
       inbox.cycles[i].opened \in FromReview =>
         inbox.cycles[i].revision <= inbox.head.revision

\* The head mirrors the newest cycle, carries aside.
HeadMirrors(inbox, revs) ==
  /\ inbox.head.revision >= 1 /\ inbox.cycles # <<>>
  /\ inbox.head.status = "open" <=> Newest(inbox).closed = "no"
  /\ Newest(inbox).revision <= inbox.head.revision
  /\ OnlyCarries(revs, Newest(inbox).revision, inbox.head.revision)

\* A cycle closed as answered names a delivered reading of its own revision.
AnsweredWell(c, done, revs) ==
  IF c.closed = "answered"
  THEN /\ \E f \in done :
            /\ f.kind = "observed" /\ f.number = c.by /\ f.says = "answered"
            /\ f.revision >= c.revision /\ OnlyCarries(revs, c.revision, f.revision)
       /\ Measured => c.by > c.after
  ELSE c.by = 0

\* A cycle's Response Target is dated by what opened it.
DatedWell(c, done) ==
  /\ c.opened \in FromReview => c.after = 0
  /\ c.opened = "provider_reply_deleted" =>
       \E f \in done : f.kind = "observed" /\ f.says = "deleted" /\ f.number = c.after

NoReadingTwice(cs) ==
  \A i, j \in DOMAIN cs : i # j /\ cs[i].by # 0 => cs[j].by # cs[i].by

InboxSound(inbox, done, revs) ==
  /\ inbox \in InboxType
  /\ EachRevisionOnce(inbox, revs) /\ HeadMirrors(inbox, revs)
  /\ \A i \in DOMAIN inbox.cycles :
       AnsweredWell(inbox.cycles[i], done, revs) /\ DatedWell(inbox.cycles[i], done)
  /\ NoReadingTwice(inbox.cycles)

InboxAgrees ==
  IF item = Nothing THEN cycles = <<>>
  ELSE /\ item = head.status /\ head.revision <= review.revision
       /\ InboxSound(Inbox, handled, revisions)

(* What Review's rows say of each other. *)

SourceAgrees ==
  IF review = Nothing
  THEN /\ revisions = <<>> /\ observed = Nothing /\ facts = {}
       /\ permit = Nothing /\ item = Nothing
  ELSE /\ review.revision = Len(revisions) /\ review.revision >= 1
       /\ review.epoch <= epoch /\ ~revisions[1].carry

\* No fact is ahead of the row or the reading it tells of.
FactsLag ==
  \A f \in facts :
    /\ f.epoch <= review.epoch /\ f.revision <= review.revision
    /\ f.kind # "observed" => f.number <= review.sequence
    /\ f.kind = "created" => f.revision = 1
    /\ f.kind = "transitioned" => f.says # "active"
    /\ f.kind = "observed" =>
         observed # Nothing /\ 1 <= f.number /\ f.number <= observed.number

\* One fact at most for a reading.
OneFactPerReading ==
  \A f, g \in facts :
    f.kind = "observed" /\ g.kind = "observed" /\ f.number = g.number => f = g

\* The newest revision was told, and so was an erasure in the current epoch.
RevisionTold ==
  review # Nothing =>
    \E f \in facts : /\ f.kind \in {"created", "updated"}
                     /\ f.epoch = review.epoch /\ f.revision = review.revision

ErasureTold ==
  review # Nothing /\ review.state # "active" /\ review.epoch = epoch =>
    SourceFact("transitioned", review) \in facts

(* What the deliveries have made of it. *)

\* While Review holds its lock nothing it attested changes.
PermitAttests ==
  permit # Nothing =>
    /\ Pending(permit.fact) /\ ExactCurrent(permit.fact) /\ CallbackReady(permit.fact)
    /\ permit.revision = review.revision /\ permit.state = review.state

\* A delivered fact of the current epoch has brought the head to its revision.
RevisionsDelivered ==
  \A f \in handled :
    f.kind \in {"created", "updated"} /\ f.epoch = epoch =>
      item # Nothing /\ head.revision >= f.revision

ErasureDelivered ==
  \A f \in handled : f.kind = "transitioned" /\ ExactCurrent(f) => item = "closed"

ReopenedAfter(n) ==
  /\ cycles # <<>> /\ cycles[Len(cycles)].opened = "manual_reopen"
  /\ cycles[Len(cycles)].after >= n

AnswerDelivered ==
  \A f \in handled :
    f.kind = "observed" /\ f.says = "answered" /\ ExactCurrent(f) =>
      /\ item # Nothing /\ head.revision >= f.revision
      /\ item = "closed" \/ ReopenedAfter(f.number)

IInv ==
  /\ CyclesTypeOK /\ SourceAgrees /\ InboxAgrees
  /\ FactsLag /\ OneFactPerReading /\ RevisionTold /\ ErasureTold
  /\ PermitAttests /\ RevisionsDelivered /\ ErasureDelivered /\ AnswerDelivered

-----------------------------------------------------------------------------
(* Induction over the naturals, for a set of them. *)

Below == {p \in Nat \X Nat : p[1] < p[2]}

LEMMA BelowIsWellFounded == IsWellFoundedOn(Below, Nat)
<1>1. OpToRel(<, Nat) = Below
  BY DEF OpToRel, Below
<1> QED BY <1>1, NatLessThanWellFounded

LEMMA SetInduction ==
  ASSUME NEW S, S \subseteq Nat, 0 \in S, \A n \in S : n + 1 \in S
  PROVE  S = Nat
<1> DEFINE T == Nat \ S
<1> SUFFICES ASSUME T # {} PROVE FALSE
  OBVIOUS
<1>1. T \subseteq Nat
  OBVIOUS
<1>2. PICK x \in T : \A y \in T : <<y, x>> \notin Below
  <2> HIDE DEF T
  <2> QED BY <1>1, BelowIsWellFounded, WFMin
<1>3. x - 1 \in Nat /\ x - 1 < x
  BY <1>1, <1>2
<1>4. x - 1 \in S
  BY <1>1, <1>2, <1>3 DEF Below
<1> QED BY <1>2, <1>3, <1>4

-----------------------------------------------------------------------------
(* Catching up, revision by revision. *)

PassedBody(g, inbox, a, b) ==
  [r \in a..b |-> IF r = a THEN inbox ELSE PassRevision(g[r - 1], r)]

\* The function exists: every prefix of it does.
LEMMA PassedExists ==
  ASSUME NEW inbox, NEW a \in Nat, NEW b \in Nat, a <= b
  PROVE  \E g : g = PassedBody(g, inbox, a, b)
<1> DEFINE S == {n \in Nat : \E g : g = PassedBody(g, inbox, a, a + n)}
<1>1. 0 \in S
  <2> DEFINE g == [r \in a..a |-> inbox]
  <2>1. g = PassedBody(g, inbox, a, a + 0)
    BY DEF PassedBody
  <2> QED BY <2>1
<1>2. ASSUME NEW n \in S PROVE n + 1 \in S
  <2>1. PICK g : g = PassedBody(g, inbox, a, a + n)
    OBVIOUS
  <2> DEFINE h == [r \in a..a + (n + 1) |->
                     IF r = a + (n + 1) THEN PassRevision(g[a + n], r) ELSE g[r]]
  <2>2. ASSUME NEW r \in a..a + (n + 1)
        PROVE  h[r] = IF r = a THEN inbox ELSE PassRevision(h[r - 1], r)
    <3>1. CASE r = a + (n + 1)
      <4>1. r # a /\ r - 1 = a + n /\ r - 1 \in a..a + (n + 1) /\ r - 1 # a + (n + 1)
        BY <3>1
      <4>2. h[r - 1] = g[a + n]
        BY <4>1
      <4> QED BY <3>1, <4>1, <4>2
    <3>2. CASE r # a + (n + 1)
      <4>1. r \in a..a + n
        BY <3>2
      <4>2. g[r] = IF r = a THEN inbox ELSE PassRevision(g[r - 1], r)
        BY <2>1, <4>1 DEF PassedBody
      <4>3. r # a => h[r - 1] = g[r - 1]
        BY <4>1
      <4> QED BY <3>2, <4>2, <4>3
    <3> QED BY <3>1, <3>2
  <2>3. h = PassedBody(h, inbox, a, a + (n + 1))
    BY <2>2 DEF PassedBody
  <2> QED BY <2>3
<1>3. b - a \in S
  <2>1. S \subseteq Nat
    OBVIOUS
  <2> HIDE DEF S
  <2>2. S = Nat
    BY <1>1, <1>2, <2>1, SetInduction
  <2> QED BY <2>2
<1>4. a + (b - a) = b
  OBVIOUS
<1> QED BY <1>3, <1>4

LEMMA PassedStepwise ==
  ASSUME NEW inbox, inbox.head.revision \in Nat,
         NEW b \in Nat, inbox.head.revision <= b
  PROVE  /\ Passed(inbox, b)[inbox.head.revision] = inbox
         /\ \A r \in inbox.head.revision + 1 .. b :
              Passed(inbox, b)[r] = PassRevision(Passed(inbox, b)[r - 1], r)
<1> DEFINE a == inbox.head.revision
<1> DEFINE p == Passed(inbox, b)
<1>1. p = CHOOSE g : g = PassedBody(g, inbox, a, b)
  BY DEF Passed, PassedBody
<1>2. p = PassedBody(p, inbox, a, b)
  <2>1. \E g : g = PassedBody(g, inbox, a, b)
    BY PassedExists
  <2> QED BY <1>1, <2>1
<1> HIDE DEF p
<1>3. a \in a..b /\ \A r \in a + 1 .. b : r \in a..b /\ r # a
  OBVIOUS
<1>4. \A r \in a..b : p[r] = IF r = a THEN inbox ELSE PassRevision(p[r - 1], r)
  BY <1>2 DEF PassedBody
<1>5. p[a] = inbox /\ \A r \in a + 1 .. b : p[r] = PassRevision(p[r - 1], r)
  BY <1>3, <1>4
<1> QED BY <1>5 DEF p

-----------------------------------------------------------------------------
(* What the steps of the Inbox make of its rows. *)

Openings == {"review_observed", "material_revision_changed",
             "provider_reply_deleted", "manual_reopen"}
Closings == {"superseded", "source_ineligible", "answered"}

\* The cycles are those of before but for how the last one is closed.
SameCycles(new, old, last, reason, by) ==
  \A i \in 1..last :
    /\ new[i].revision = old[i].revision /\ new[i].opened = old[i].opened
    /\ new[i].after = old[i].after
    /\ \/ new[i].closed = old[i].closed /\ new[i].by = old[i].by
       \/ i = last /\ new[i].closed = reason /\ new[i].by = by

LEMMA CloseLastCycles ==
  ASSUME NEW cs \in Seq(CycleType), cs # <<>>,
         NEW reason \in Closings, NEW by \in Nat
  PROVE  LET new == CloseLast(cs, reason, by)
         IN /\ new \in Seq(CycleType) /\ Len(new) = Len(cs)
            /\ SameCycles(new, cs, Len(cs), reason, by)
            /\ new[Len(cs)].closed = reason /\ new[Len(cs)].by = by
<1> DEFINE n == Len(cs)
<1> DEFINE c == [cs[n] EXCEPT !.closed = reason, !.by = by]
<1> DEFINE new == CloseLast(cs, reason, by)
<1>1. n \in Nat \ {0} /\ cs[n] \in CycleType
  OBVIOUS
<1>2. c \in CycleType /\ c.revision = cs[n].revision /\ c.opened = cs[n].opened
      /\ c.after = cs[n].after /\ c.closed = reason /\ c.by = by
  BY <1>1 DEF CycleType, Closings
<1>3. new = [cs EXCEPT ![n] = c]
  BY <1>1 DEF CloseLast, CycleType
<1> HIDE DEF c, new
<1>4. new \in Seq(CycleType) /\ Len(new) = n
  BY <1>1, <1>2, <1>3
<1>5. \A i \in 1..n : new[i] = IF i = n THEN c ELSE cs[i]
  BY <1>1, <1>3
<1>6. new[n].closed = reason /\ new[n].by = by
  BY <1>1, <1>2, <1>5
<1>7. SameCycles(new, cs, n, reason, by)
  BY <1>1, <1>2, <1>5 DEF SameCycles
<1> QED BY <1>4, <1>6, <1>7 DEF new

LEMMA OpenNextInbox ==
  ASSUME NEW inbox \in InboxType, inbox.cycles # <<>>,
         NEW revision \in Nat, NEW opened \in Openings, NEW after \in Nat
  PROVE  LET new == OpenNext(inbox, revision, opened, after)
             n   == Len(inbox.cycles)
         IN /\ new \in InboxType
            /\ new.head.revision = revision /\ new.head.status = "open"
            /\ Len(new.cycles) = n + 1
            /\ SameCycles(new.cycles, inbox.cycles, n, "superseded", 0)
            /\ new.cycles[n + 1] = Cycle(revision, opened, after)
<1> DEFINE new == OpenNext(inbox, revision, opened, after)
<1> DEFINE n == Len(inbox.cycles)
<1> DEFINE old == IF inbox.head.status = "open"
                  THEN CloseLast(inbox.cycles, "superseded", 0) ELSE inbox.cycles
<1> DEFINE c == Cycle(revision, opened, after)
<1> DEFINE h == [revision |-> revision, status |-> "open",
                 stateRevision |-> inbox.head.stateRevision
                                   + IF inbox.head.status = "open" THEN 2 ELSE 1]
<1>1. inbox.cycles \in Seq(CycleType) /\ inbox.head \in HeadType /\ n \in Nat \ {0}
  BY DEF InboxType
<1>2. old \in Seq(CycleType) /\ Len(old) = n
      /\ SameCycles(old, inbox.cycles, n, "superseded", 0)
  <2>1. CASE inbox.head.status = "open"
    <3>1. "superseded" \in Closings
      BY DEF Closings
    <3> QED BY <1>1, <2>1, <3>1, CloseLastCycles
  <2>2. CASE inbox.head.status # "open"
    BY <1>1, <2>2 DEF SameCycles
  <2> QED BY <2>1, <2>2
<1>3. c \in CycleType
  BY DEF Cycle, CycleType, Openings
<1>4. h \in HeadType /\ h.revision = revision /\ h.status = "open"
  <2> DEFINE k == inbox.head.stateRevision + IF inbox.head.status = "open" THEN 2 ELSE 1
  <2>1. inbox.head.stateRevision \in Nat
    BY <1>1 DEF HeadType
  <2>2. k \in Nat
    BY <2>1
  <2>3. h = [revision |-> revision, status |-> "open", stateRevision |-> k]
    OBVIOUS
  <2>4. \A m \in Nat :
          [revision |-> revision, status |-> "open", stateRevision |-> m] \in HeadType
    BY DEF HeadType
  <2> HIDE DEF h, k
  <2> QED BY <2>2, <2>3, <2>4
<1>5. new = [cycles |-> Append(old, c), head |-> h]
  BY DEF OpenNext
<1> HIDE DEF new, c, old, h
<1>6. new.cycles = Append(old, c) /\ new.head = h
  BY <1>5
<1>7. new.cycles \in Seq(CycleType) /\ Len(new.cycles) = n + 1
      /\ new.cycles[n + 1] = c /\ \A i \in 1..n : new.cycles[i] = old[i]
  BY <1>1, <1>2, <1>3, <1>6
<1>8. new \in InboxType
  BY <1>4, <1>5, <1>6, <1>7 DEF InboxType
<1>9. SameCycles(new.cycles, inbox.cycles, n, "superseded", 0)
  BY <1>2, <1>7 DEF SameCycles
<1> QED BY <1>4, <1>6, <1>7, <1>8, <1>9 DEF new, c

LEMMA CloseCycleInbox ==
  ASSUME NEW inbox \in InboxType, inbox.cycles # <<>>,
         NEW reason \in Closings, NEW by \in Nat
  PROVE  LET new == CloseCycle(inbox, reason, by)
             n   == Len(inbox.cycles)
         IN /\ new \in InboxType
            /\ new.head.revision = inbox.head.revision /\ new.head.status = "closed"
            /\ Len(new.cycles) = n
            /\ SameCycles(new.cycles, inbox.cycles, n, reason, by)
            /\ new.cycles[n].closed = reason /\ new.cycles[n].by = by
<1> DEFINE new == CloseCycle(inbox, reason, by)
<1> DEFINE h == [inbox.head EXCEPT !.status = "closed", !.stateRevision = @ + 1]
<1>1. inbox.cycles \in Seq(CycleType) /\ inbox.head \in HeadType
  BY DEF InboxType
<1>2. h \in HeadType /\ h.revision = inbox.head.revision /\ h.status = "closed"
  <2>1. inbox.head.stateRevision + 1 \in Nat
    BY <1>1 DEF HeadType
  <2>2. \A m \in Nat :
          [inbox.head EXCEPT !.status = "closed", !.stateRevision = m] \in HeadType
    BY <1>1 DEF HeadType
  <2> QED BY <1>1, <2>1, <2>2 DEF HeadType
<1>3. new.cycles = CloseLast(inbox.cycles, reason, by) /\ new.head = h
      /\ new = [cycles |-> CloseLast(inbox.cycles, reason, by), head |-> h]
  BY DEF CloseCycle
<1> HIDE DEF new, h
<1>4. new \in InboxType
  BY <1>1, <1>2, <1>3, CloseLastCycles DEF InboxType
<1> QED BY <1>1, <1>2, <1>3, <1>4, CloseLastCycles DEF new

LEMMA CarryHeadInbox ==
  ASSUME NEW inbox \in InboxType
  PROVE  LET new == CarryHead(inbox)
         IN /\ new \in InboxType /\ new.cycles = inbox.cycles
            /\ new.head.revision = inbox.head.revision + 1
            /\ new.head.status = inbox.head.status
<1> DEFINE h == [inbox.head EXCEPT !.revision = @ + 1]
<1>1. h \in HeadType /\ h.revision = inbox.head.revision + 1
      /\ h.status = inbox.head.status
  BY DEF InboxType, HeadType
<1>2. CarryHead(inbox) = [inbox EXCEPT !.head = h]
  BY DEF CarryHead, InboxType, HeadType
<1> HIDE DEF h
<1> QED BY <1>1, <1>2 DEF InboxType

-----------------------------------------------------------------------------
(* The steps of the Inbox keep its rows sound. *)

\* What else a sound inbox tells of its cycles.
LEMMA SoundCycles ==
  ASSUME NEW inbox, NEW done, NEW revs, InboxSound(inbox, done, revs)
  PROVE  /\ inbox \in InboxType /\ inbox.cycles # <<>>
         /\ inbox.cycles \in Seq(CycleType) /\ Len(inbox.cycles) \in Nat \ {0}
         /\ DOMAIN inbox.cycles = 1..Len(inbox.cycles)
         /\ Newest(inbox) \in CycleType
         /\ \A i \in 1..Len(inbox.cycles) :
              /\ inbox.cycles[i] \in CycleType
              /\ inbox.cycles[i].revision \in Nat /\ inbox.cycles[i].by \in Nat
         /\ inbox.head.revision \in Nat \ {0}
<1>1. inbox \in InboxType /\ inbox.cycles # <<>> /\ inbox.head.revision >= 1
  BY DEF InboxSound, HeadMirrors
<1>2. inbox.cycles \in Seq(CycleType) /\ inbox.head \in HeadType
  BY <1>1 DEF InboxType
<1>3. Len(inbox.cycles) \in Nat \ {0} /\ DOMAIN inbox.cycles = 1..Len(inbox.cycles)
      /\ \A i \in 1..Len(inbox.cycles) : inbox.cycles[i] \in CycleType
  BY <1>1, <1>2
<1>4. \A c \in CycleType : c.revision \in Nat /\ c.by \in Nat
  BY DEF CycleType
<1>5. inbox.head.revision \in Nat
  BY <1>2 DEF HeadType
<1> QED BY <1>1, <1>2, <1>3, <1>4, <1>5 DEF Newest

\* A cycle that is only closed as superseded, or not at all, stays well.
LEMMA WellKept ==
  ASSUME NEW c, NEW d, NEW done, NEW revs,
         AnsweredWell(c, done, revs), DatedWell(c, done),
         d.revision = c.revision, d.opened = c.opened, d.after = c.after,
         \/ d.closed = c.closed /\ d.by = c.by
         \/ d.closed # "answered" /\ d.by = 0
  PROVE  AnsweredWell(d, done, revs) /\ DatedWell(d, done)
BY DEF AnsweredWell, DatedWell

\* The next cycle, for the head's revision or the one after it.
LEMMA OpenNextSound ==
  ASSUME NEW inbox, NEW done, NEW revs, InboxSound(inbox, done, revs),
         NEW revision \in Nat, NEW opened \in Openings, NEW after \in Nat,
         \/ revision = inbox.head.revision /\ opened \notin FromReview
         \/ /\ revision = inbox.head.revision + 1 /\ opened \in FromReview
            /\ ~revs[revision].carry,
         DatedWell(Cycle(revision, opened, after), done)
  PROVE  LET new == OpenNext(inbox, revision, opened, after)
         IN /\ InboxSound(new, done, revs)
            /\ new.head.revision = revision /\ new.head.status = "open"
            /\ new.cycles[Len(new.cycles)] = Cycle(revision, opened, after)
<1> DEFINE n == Len(inbox.cycles)
<1> DEFINE c == Cycle(revision, opened, after)
<1> DEFINE new == OpenNext(inbox, revision, opened, after)
<1> DEFINE old == inbox.cycles
<1>1. /\ inbox \in InboxType /\ old # <<>> /\ n \in Nat \ {0}
      /\ DOMAIN old = 1..n /\ inbox.head.revision \in Nat \ {0}
      /\ \A i \in 1..n : old[i].revision \in Nat /\ old[i].by \in Nat
  BY SoundCycles
<1>2. /\ c.revision = revision /\ c.opened = opened /\ c.closed = "no"
      /\ c.by = 0 /\ c.after = after
  BY DEF Cycle
<1>3. /\ new \in InboxType /\ new.head.revision = revision /\ new.head.status = "open"
      /\ Len(new.cycles) = n + 1 /\ SameCycles(new.cycles, old, n, "superseded", 0)
      /\ new.cycles[n + 1] = c
  BY <1>1, OpenNextInbox
<1>4. new.cycles \in Seq(CycleType) /\ DOMAIN new.cycles = 1..n + 1
      /\ new.cycles # <<>> /\ Newest(new) = c
  BY <1>1, <1>3 DEF InboxType, Newest
<1> HIDE DEF new, c
<1>5. \A r : OpenedFor(new.cycles, r) =
               OpenedFor(old, r) \cup
                 (IF revision = r /\ opened \in FromReview THEN {n + 1} ELSE {})
  <2> TAKE r
  <2> DEFINE added == IF revision = r /\ opened \in FromReview THEN {n + 1} ELSE {}
  <2>0. /\ OpenedFor(new.cycles, r) \subseteq 1..n + 1
        /\ OpenedFor(old, r) \subseteq 1..n + 1 /\ added \subseteq 1..n + 1
    BY <1>1, <1>4 DEF OpenedFor
  <2> SUFFICES ASSUME NEW i \in 1..n + 1
               PROVE  i \in OpenedFor(new.cycles, r) <=>
                        i \in OpenedFor(old, r) \cup added
    BY <2>0
  <2>1. CASE i = n + 1
    BY <2>1, <1>1, <1>2, <1>3, <1>4 DEF OpenedFor
  <2>2. CASE i \in 1..n
    <3>1. new.cycles[i].revision = old[i].revision /\ new.cycles[i].opened = old[i].opened
      BY <2>2, <1>3 DEF SameCycles
    <3>2. i # n + 1
      BY <2>2, <1>1
    <3> QED BY <2>2, <3>1, <3>2, <1>1, <1>4 DEF OpenedFor
  <2> QED BY <2>1, <2>2, <1>1
<1>6. EachRevisionOnce(new, revs)
  <2>1. EachRevisionOnce(inbox, revs)
    BY DEF InboxSound
  <2>2. \A i \in DOMAIN new.cycles :
          new.cycles[i].opened \in FromReview => new.cycles[i].revision <= revision
    <3> SUFFICES ASSUME NEW i \in 1..n + 1, new.cycles[i].opened \in FromReview
                 PROVE  new.cycles[i].revision <= revision
      BY <1>4
    <3>1. CASE i = n + 1
      BY <3>1, <1>2, <1>3
    <3>2. CASE i \in 1..n
      <4>1. old[i].opened \in FromReview /\ new.cycles[i].revision = old[i].revision
        BY <3>2, <1>3 DEF SameCycles
      <4>2. old[i].revision <= inbox.head.revision
        BY <2>1, <3>2, <4>1, <1>1 DEF EachRevisionOnce
      <4> QED BY <4>1, <4>2, <3>2, <1>1
    <3> QED BY <3>1, <3>2, <1>1
  <2>3. ASSUME NEW r \in 1..revision
        PROVE  IF revs[r].carry THEN OpenedFor(new.cycles, r) = {}
               ELSE \E i \in DOMAIN new.cycles : OpenedFor(new.cycles, r) = {i}
    <3>1. CASE r \in 1..inbox.head.revision /\ ~(revision = r /\ opened \in FromReview)
      <4>1. OpenedFor(new.cycles, r) = OpenedFor(old, r)
        BY <3>1, <1>5
      <4>2. DOMAIN old \subseteq DOMAIN new.cycles
        BY <1>1, <1>4
      <4> QED BY <2>1, <3>1, <4>1, <4>2 DEF EachRevisionOnce
    <3>2. CASE revision = r /\ opened \in FromReview
      <4>1. r = inbox.head.revision + 1 /\ ~revs[r].carry
        BY <3>2
      <4>2. OpenedFor(old, r) = {}
        BY <2>1, <4>1, <1>1 DEF EachRevisionOnce, OpenedFor
      <4>3. OpenedFor(new.cycles, r) = {n + 1} /\ n + 1 \in DOMAIN new.cycles
        BY <3>2, <4>2, <1>1, <1>4, <1>5
      <4> QED BY <4>1, <4>3
    <3>3. r \in 1..inbox.head.revision \/ r = inbox.head.revision + 1
      BY <1>1
    <3> QED BY <3>1, <3>2, <3>3, <1>1
  <2> QED BY <2>2, <2>3, <1>3 DEF EachRevisionOnce
<1>7. HeadMirrors(new, revs)
  BY <1>1, <1>2, <1>3, <1>4 DEF HeadMirrors, OnlyCarries
<1>8. ASSUME NEW i \in DOMAIN new.cycles
      PROVE  AnsweredWell(new.cycles[i], done, revs) /\ DatedWell(new.cycles[i], done)
  <2>1. CASE i = n + 1
    BY <2>1, <1>2, <1>3 DEF AnsweredWell, c
  <2>2. CASE i \in 1..n
    <3>1. AnsweredWell(old[i], done, revs) /\ DatedWell(old[i], done)
      BY <2>2, <1>1 DEF InboxSound
    <3>2. /\ new.cycles[i].revision = old[i].revision
          /\ new.cycles[i].opened = old[i].opened /\ new.cycles[i].after = old[i].after
          /\ \/ new.cycles[i].closed = old[i].closed /\ new.cycles[i].by = old[i].by
             \/ new.cycles[i].closed # "answered" /\ new.cycles[i].by = 0
      BY <2>2, <1>3 DEF SameCycles
    <3> QED BY <3>1, <3>2, WellKept
  <2> QED BY <2>1, <2>2, <1>1, <1>4
<1>9. NoReadingTwice(new.cycles)
  <2> SUFFICES ASSUME NEW i \in 1..n + 1, NEW j \in 1..n + 1, i # j, new.cycles[i].by # 0,
                      new.cycles[j].by = new.cycles[i].by
               PROVE  FALSE
    BY <1>4 DEF NoReadingTwice
  <2>1. i # n + 1 /\ j # n + 1
    BY <1>2, <1>3
  <2>2. i \in 1..n /\ j \in 1..n
    <3>1. \A m \in Nat : \A k \in 1..m + 1 : k # m + 1 => k \in 1..m
      OBVIOUS
    <3>2. n \in Nat
      BY <1>1
    <3> HIDE DEF n
    <3> QED BY <2>1, <3>1, <3>2
  <2>3. new.cycles[i].by = old[i].by /\ new.cycles[j].by = old[j].by
    BY <2>2, <1>3 DEF SameCycles
  <2> QED BY <2>2, <2>3, <1>1 DEF InboxSound, NoReadingTwice
<1> QED BY <1>3, <1>4, <1>6, <1>7, <1>8, <1>9 DEF InboxSound, new, c, Newest

\* A carry opens nothing.
LEMMA CarryHeadSound ==
  ASSUME NEW inbox, NEW done, NEW revs, InboxSound(inbox, done, revs),
         revs[inbox.head.revision + 1].carry
  PROVE  LET new == CarryHead(inbox)
         IN /\ InboxSound(new, done, revs) /\ new.cycles = inbox.cycles
            /\ new.head.revision = inbox.head.revision + 1
            /\ new.head.status = inbox.head.status
<1> DEFINE new == CarryHead(inbox)
<1>1. /\ inbox \in InboxType /\ DOMAIN inbox.cycles = 1..Len(inbox.cycles)
      /\ inbox.head.revision \in Nat \ {0} /\ Newest(inbox) \in CycleType
      /\ \A i \in DOMAIN inbox.cycles : inbox.cycles[i].revision \in Nat
  BY SoundCycles
<1>2. /\ new \in InboxType /\ new.cycles = inbox.cycles
      /\ new.head.revision = inbox.head.revision + 1
      /\ new.head.status = inbox.head.status
  BY <1>1, CarryHeadInbox
<1> HIDE DEF new
<1>3. EachRevisionOnce(new, revs)
  <2>1. EachRevisionOnce(inbox, revs)
    BY DEF InboxSound
  <2>2. OpenedFor(inbox.cycles, inbox.head.revision + 1) = {}
    BY <2>1, <1>1 DEF EachRevisionOnce, OpenedFor
  <2>3. \A i \in DOMAIN new.cycles :
          new.cycles[i].opened \in FromReview =>
            new.cycles[i].revision <= new.head.revision
    BY <2>1, <1>1, <1>2 DEF EachRevisionOnce
  <2>4. \A r \in 1..new.head.revision :
          r \in 1..inbox.head.revision \/ r = inbox.head.revision + 1
    BY <1>1, <1>2
  <2> QED BY <2>1, <2>2, <2>3, <2>4, <1>2 DEF EachRevisionOnce
<1>4. HeadMirrors(new, revs)
  <2>1. HeadMirrors(inbox, revs) /\ Newest(new) = Newest(inbox)
    BY <1>2 DEF InboxSound, Newest
  <2>2. Newest(inbox).revision \in Nat
    BY <1>1 DEF CycleType
  <2>3. OnlyCarries(revs, Newest(new).revision, new.head.revision)
    BY <2>1, <2>2, <1>1, <1>2 DEF HeadMirrors, OnlyCarries
  <2> QED BY <2>1, <2>2, <2>3, <1>1, <1>2 DEF HeadMirrors
<1> QED BY <1>2, <1>3, <1>4 DEF InboxSound, new

\* An open cycle is closed, as answered by a reading nobody closed with before.
LEMMA CloseCycleSound ==
  ASSUME NEW inbox, NEW done, NEW revs, InboxSound(inbox, done, revs),
         NEW reason \in {"source_ineligible", "answered"}, NEW by \in Nat,
         reason # "answered" => by = 0,
         reason = "answered" =>
           /\ \E f \in done :
                /\ f.kind = "observed" /\ f.number = by /\ f.says = "answered"
                /\ f.revision = inbox.head.revision
           /\ Measured => by > Newest(inbox).after,
         by # 0 => \A i \in DOMAIN inbox.cycles : inbox.cycles[i].by # by
  PROVE  LET new == CloseCycle(inbox, reason, by)
         IN /\ InboxSound(new, done, revs)
            /\ new.head.revision = inbox.head.revision /\ new.head.status = "closed"
<1> DEFINE n == Len(inbox.cycles)
<1> DEFINE new == CloseCycle(inbox, reason, by)
<1> DEFINE old == inbox.cycles
<1>1. /\ inbox \in InboxType /\ old # <<>> /\ n \in Nat \ {0}
      /\ DOMAIN old = 1..n /\ inbox.head.revision \in Nat \ {0}
      /\ \A i \in 1..n : old[i].revision \in Nat /\ old[i].by \in Nat
      /\ Newest(inbox) = old[n]
  BY SoundCycles DEF Newest
<1>2. reason \in Closings
  BY DEF Closings
<1>3. /\ new \in InboxType /\ new.head.revision = inbox.head.revision
      /\ new.head.status = "closed" /\ Len(new.cycles) = n
      /\ SameCycles(new.cycles, old, n, reason, by)
      /\ new.cycles[n].closed = reason /\ new.cycles[n].by = by
  BY <1>1, <1>2, CloseCycleInbox
<1>4. DOMAIN new.cycles = 1..n /\ new.cycles # <<>> /\ Newest(new) = new.cycles[n]
  BY <1>1, <1>3 DEF InboxType, Newest
<1> HIDE DEF new
<1>5. \A i \in 1..n : /\ new.cycles[i].revision = old[i].revision
                      /\ new.cycles[i].opened = old[i].opened
                      /\ new.cycles[i].after = old[i].after
  BY <1>3 DEF SameCycles
<1>6. \A r : OpenedFor(new.cycles, r) = OpenedFor(old, r)
  BY <1>1, <1>4, <1>5 DEF OpenedFor
<1>7. EachRevisionOnce(new, revs)
  BY <1>1, <1>3, <1>4, <1>5, <1>6 DEF InboxSound, EachRevisionOnce
<1>8. HeadMirrors(new, revs)
  <2>1. HeadMirrors(inbox, revs) /\ n \in 1..n
    BY <1>1 DEF InboxSound
  <2>2. new.cycles[n].closed # "no" /\ new.head.status # "open"
    BY <1>3
  <2> QED BY <2>1, <2>2, <1>1, <1>3, <1>4, <1>5 DEF HeadMirrors
<1>9. ASSUME NEW i \in 1..n
      PROVE  AnsweredWell(new.cycles[i], done, revs) /\ DatedWell(new.cycles[i], done)
  <2>1. AnsweredWell(old[i], done, revs) /\ DatedWell(old[i], done)
    BY <1>1 DEF InboxSound
  <2>2. CASE new.cycles[i].closed = old[i].closed /\ new.cycles[i].by = old[i].by
    BY <2>1, <2>2, <1>5, WellKept
  <2>3. CASE i = n /\ reason = "answered"
    <3>1. PICK f \in done : /\ f.kind = "observed" /\ f.number = by
                            /\ f.says = "answered" /\ f.revision = inbox.head.revision
      BY <2>3
    <3>2. old[n].revision <= f.revision /\ OnlyCarries(revs, old[n].revision, f.revision)
      BY <3>1, <1>1 DEF InboxSound, HeadMirrors
    <3>3. f.revision >= old[n].revision
      BY <3>1, <3>2, <1>1
    <3>4. AnsweredWell(new.cycles[i], done, revs)
      BY <2>3, <3>1, <3>2, <3>3, <1>1, <1>3, <1>5 DEF AnsweredWell
    <3> QED BY <3>4, <2>1, <1>5 DEF DatedWell
  <2>4. CASE i = n /\ reason # "answered"
    <3>1. new.cycles[i].closed # "answered" /\ new.cycles[i].by = 0
      BY <2>4, <1>3
    <3> QED BY <3>1, <2>1, <1>5, WellKept
  <2> QED BY <2>2, <2>3, <2>4, <1>3 DEF SameCycles
<1>10. NoReadingTwice(new.cycles)
  <2> SUFFICES ASSUME NEW i \in 1..n, NEW j \in 1..n, i # j, new.cycles[i].by # 0,
                      new.cycles[j].by = new.cycles[i].by
               PROVE  FALSE
    BY <1>4 DEF NoReadingTwice
  <2>1. \A k \in 1..n : new.cycles[k].by = old[k].by \/ (k = n /\ new.cycles[k].by = by)
    BY <1>3 DEF SameCycles
  <2>2. old[i].by # 0 => old[j].by # old[i].by
    BY <1>1 DEF InboxSound, NoReadingTwice
  <2>3. by # 0 => old[i].by # by /\ old[j].by # by
    BY <1>1
  <2> QED BY <2>1, <2>2, <2>3
<1> QED BY <1>3, <1>4, <1>7, <1>8, <1>9, <1>10 DEF InboxSound, new

\* More deliveries and more revisions leave a sound inbox sound.
LEMMA LaterSound ==
  ASSUME NEW inbox, NEW done, NEW revs, InboxSound(inbox, done, revs),
         NEW later, done \subseteq later, NEW longer, NEW n \in Nat,
         \A r \in 1..n : longer[r] = revs[r],
         inbox.head.revision <= n,
         \A f \in done : f.revision \in Nat /\ f.revision <= n
  PROVE  InboxSound(inbox, later, longer)
<1>1. /\ inbox \in InboxType /\ DOMAIN inbox.cycles = 1..Len(inbox.cycles)
      /\ inbox.head.revision \in Nat \ {0} /\ Newest(inbox) \in CycleType
      /\ \A i \in 1..Len(inbox.cycles) : inbox.cycles[i].revision \in Nat
  BY SoundCycles
<1>2. \A from \in Nat, to \in Nat :
        to <= n /\ OnlyCarries(revs, from, to) => OnlyCarries(longer, from, to)
  BY DEF OnlyCarries
<1>3. HeadMirrors(inbox, longer)
  <2>1. Newest(inbox).revision \in Nat
    BY <1>1 DEF CycleType
  <2> QED BY <2>1, <1>1, <1>2 DEF InboxSound, HeadMirrors
<1>4. EachRevisionOnce(inbox, longer)
  <2>1. \A r \in 1..inbox.head.revision : longer[r] = revs[r]
    BY <1>1
  <2> QED BY <2>1 DEF InboxSound, EachRevisionOnce
<1>5. ASSUME NEW i \in DOMAIN inbox.cycles
      PROVE  AnsweredWell(inbox.cycles[i], later, longer) /\ DatedWell(inbox.cycles[i], later)
  <2>1. AnsweredWell(inbox.cycles[i], done, revs) /\ DatedWell(inbox.cycles[i], done)
    BY DEF InboxSound
  <2>2. AnsweredWell(inbox.cycles[i], later, longer)
    BY <2>1, <1>1, <1>2 DEF AnsweredWell
  <2> QED BY <2>1, <2>2 DEF DatedWell
<1> QED BY <1>1, <1>3, <1>4, <1>5 DEF InboxSound

LEMMA NewInboxSound ==
  ASSUME NEW done, NEW revs, ~revs[1].carry
  PROVE  InboxSound(NewInbox, done, revs) /\ NewInbox.head.revision = 1
<1> DEFINE c == Cycle(1, "review_observed", 0)
<1>1. /\ c \in CycleType /\ c.revision = 1 /\ c.opened = "review_observed"
      /\ c.closed = "no" /\ c.by = 0 /\ c.after = 0
  BY DEF Cycle, CycleType
<1>2. /\ NewInbox.cycles = <<c>> /\ NewInbox.head \in HeadType
      /\ NewInbox.head.revision = 1 /\ NewInbox.head.status = "open"
      /\ NewInbox = [cycles |-> NewInbox.cycles, head |-> NewInbox.head]
  BY DEF NewInbox, HeadType
<1> HIDE DEF c
<1>3. /\ NewInbox \in InboxType /\ DOMAIN NewInbox.cycles = {1}
      /\ NewInbox.cycles[1] = c /\ Newest(NewInbox) = c /\ NewInbox.cycles # <<>>
  <2>1. /\ <<c>> \in Seq(CycleType) /\ DOMAIN <<c>> = {1} /\ <<c>>[1] = c
        /\ Len(<<c>>) = 1 /\ <<c>> # <<>>
    BY <1>1
  <2> QED BY <1>2, <2>1 DEF InboxType, Newest
<1>4. OpenedFor(NewInbox.cycles, 1) = {1}
  BY <1>1, <1>3 DEF OpenedFor, FromReview
<1>5. EachRevisionOnce(NewInbox, revs)
  BY <1>1, <1>2, <1>3, <1>4 DEF EachRevisionOnce
<1>6. HeadMirrors(NewInbox, revs)
  BY <1>1, <1>2, <1>3 DEF HeadMirrors, OnlyCarries
<1>7. AnsweredWell(c, done, revs) /\ DatedWell(c, done)
  BY <1>1 DEF AnsweredWell, DatedWell
<1>8. NoReadingTwice(NewInbox.cycles)
  BY <1>3 DEF NoReadingTwice
<1> QED BY <1>2, <1>3, <1>5, <1>6, <1>7, <1>8 DEF InboxSound

\* One attested revision.
LEMMA PassRevisionSound ==
  ASSUME NEW inbox, NEW done, InboxSound(inbox, done, revisions)
  PROVE  LET new == PassRevision(inbox, inbox.head.revision + 1)
         IN InboxSound(new, done, revisions)
            /\ new.head.revision = inbox.head.revision + 1
<1> DEFINE r == inbox.head.revision + 1
<1>1. r \in Nat
  BY SoundCycles
<1>2. CASE revisions[r].carry
  BY <1>2, CarryHeadSound DEF PassRevision
<1>3. CASE ~revisions[r].carry
  <2>1. "material_revision_changed" \in Openings
        /\ "material_revision_changed" \in FromReview /\ 0 \in Nat
    BY DEF Openings, FromReview
  <2>2. DatedWell(Cycle(r, "material_revision_changed", 0), done)
    BY DEF DatedWell, Cycle
  <2>3. PassRevision(inbox, r) = OpenNext(inbox, r, "material_revision_changed", 0)
    BY <1>3 DEF PassRevision
  <2> QED BY <1>1, <1>3, <2>1, <2>2, <2>3, OpenNextSound
<1> QED BY <1>2, <1>3

LEMMA CatchUpSound ==
  ASSUME NEW inbox, NEW done, InboxSound(inbox, done, revisions),
         NEW upTo \in Nat, inbox.head.revision <= upTo
  PROVE  InboxSound(CatchUp(inbox, upTo), done, revisions)
         /\ CatchUp(inbox, upTo).head.revision = upTo
<1> DEFINE a == inbox.head.revision
<1> DEFINE p == Passed(inbox, upTo)
<1> DEFINE Fine(r) == InboxSound(p[r], done, revisions) /\ p[r].head.revision = r
<1> DEFINE S == {n \in Nat : a + n <= upTo => Fine(a + n)}
<1>1. a \in Nat
  BY SoundCycles
<1>2. p[a] = inbox /\ \A r \in a + 1 .. upTo : p[r] = PassRevision(p[r - 1], r)
  BY <1>1, PassedStepwise
<1> HIDE DEF p
<1>3. 0 \in S
  <2>1. Fine(a)
    BY <1>2
  <2> QED BY <2>1, <1>1
<1>4. ASSUME NEW n \in S PROVE n + 1 \in S
  <2> SUFFICES ASSUME a + (n + 1) <= upTo PROVE Fine(a + (n + 1))
    OBVIOUS
  <2>1. a + n <= upTo /\ a + (n + 1) \in a + 1 .. upTo /\ (a + (n + 1)) - 1 = a + n
    BY <1>1
  <2>2. Fine(a + n)
    BY <2>1
  <2>3. p[a + (n + 1)] = PassRevision(p[a + n], p[a + n].head.revision + 1)
    BY <2>1, <2>2, <1>1, <1>2
  <2>4. InboxSound(p[a + (n + 1)], done, revisions)
        /\ p[a + (n + 1)].head.revision = p[a + n].head.revision + 1
    BY <2>2, <2>3, PassRevisionSound
  <2> QED BY <2>2, <2>4, <1>1
<1>5. Fine(upTo)
  <2>1. S \subseteq Nat
    OBVIOUS
  <2>2. S = Nat
    <3> HIDE DEF S
    <3> QED BY <1>3, <1>4, <2>1, SetInduction
  <2>3. upTo - a \in S /\ a + (upTo - a) = upTo
    BY <1>1, <2>2
  <2> QED BY <2>3
<1> QED BY <1>5 DEF CatchUp, p

\* An inbox that stands at the attested revision is left alone.
LEMMA CatchUpStands ==
  ASSUME NEW inbox, inbox.head.revision \in Nat
  PROVE  CatchUp(inbox, inbox.head.revision) = inbox
BY PassedStepwise DEF CatchUp

-----------------------------------------------------------------------------
(* Facts the steps below rest on. *)

\* Which of its fields decide whether a fact is current.
LEMMA CurrentSource ==
  ASSUME NEW f, f.kind \in {"created", "updated"}
  PROVE  ExactCurrent(f) <=> /\ epoch = f.epoch /\ review.epoch = f.epoch
                             /\ review.revision >= f.revision
                             /\ f.kind = "created" => f.revision = 1
BY DEF ExactCurrent

LEMMA CurrentTransition ==
  ASSUME NEW f, f.kind = "transitioned"
  PROVE  ExactCurrent(f) <=> /\ epoch = f.epoch /\ review.epoch = f.epoch
                             /\ review.revision = f.revision
                             /\ review.sequence = f.number /\ review.state = f.says
                             /\ ~review.erasedAgain
BY DEF ExactCurrent, TransitionCurrent

LEMMA CurrentReading ==
  ASSUME NEW f, f.kind = "observed"
  PROVE  ExactCurrent(f) <=> /\ InScope(f, review) /\ InScope(observed, review)
                             /\ observed.number = f.number
BY DEF ExactCurrent

\* What the invariant says of the fields of the rows.
LEMMA Fields ==
  ASSUME IInv
  PROVE  /\ epoch \in Nat
         /\ review # Nothing =>
              /\ review \in RowType /\ review.epoch \in Nat /\ review.revision \in Nat \ {0}
              /\ review.sequence \in Nat /\ review.revision = Len(revisions)
         /\ observed # Nothing =>
              observed \in ReadingType /\ observed.number \in Nat
         /\ \A f \in facts : /\ f.epoch \in Nat /\ f.revision \in Nat /\ f.number \in Nat
                             /\ f.kind \in {"created", "updated", "transitioned", "observed"}
         /\ handled \subseteq facts /\ (facts # {} => review # Nothing)
         /\ item # Nothing => /\ head \in HeadType /\ head.revision \in Nat \ {0}
                              /\ item = head.status /\ review # Nothing
                              /\ head.revision <= review.revision
                              /\ cycles \in Seq(CycleType) /\ cycles # <<>>
                              /\ Inbox \in InboxType
         /\ permit # Nothing => permit.fact \in facts /\ permit.fact \notin handled
<1>1. CyclesTypeOK /\ SourceAgrees /\ InboxAgrees /\ PermitAttests
  BY DEF IInv
<1>2. MaxEpoch \in Nat
  BY CyclesAssumption
<1>3. epoch \in Nat
  BY <1>1, <1>2 DEF CyclesTypeOK
<1>4. review # Nothing =>
        /\ review \in RowType /\ review.epoch \in Nat /\ review.revision \in Nat \ {0}
        /\ review.sequence \in Nat /\ review.revision = Len(revisions)
  BY <1>1, <1>2 DEF CyclesTypeOK, RowType, SourceAgrees
<1>5. observed # Nothing => observed \in ReadingType /\ observed.number \in Nat
  BY <1>1 DEF CyclesTypeOK, ReadingType
<1>6. \A f \in facts : /\ f.epoch \in Nat /\ f.revision \in Nat /\ f.number \in Nat
                       /\ f.kind \in {"created", "updated", "transitioned", "observed"}
  BY <1>1, <1>2 DEF CyclesTypeOK, FactSpace
<1>7. handled \subseteq facts /\ (facts # {} => review # Nothing)
  BY <1>1 DEF CyclesTypeOK, SourceAgrees
<1>8. ASSUME item # Nothing
      PROVE  /\ head \in HeadType /\ head.revision \in Nat \ {0}
             /\ item = head.status /\ review # Nothing
             /\ head.revision <= review.revision
             /\ cycles \in Seq(CycleType) /\ cycles # <<>> /\ Inbox \in InboxType
  <2>1. InboxSound(Inbox, handled, revisions)
    BY <1>1, <1>8 DEF InboxAgrees
  <2>2. /\ Inbox \in InboxType /\ Inbox.cycles # <<>>
        /\ Inbox.head.revision \in Nat \ {0}
    BY <2>1, SoundCycles
  <2>3. Inbox.head = head /\ Inbox.cycles = cycles
    BY DEF Inbox
  <2> QED BY <1>1, <1>8, <2>2, <2>3 DEF InboxAgrees, InboxType, SourceAgrees
<1>9. permit # Nothing => permit.fact \in facts /\ permit.fact \notin handled
  BY <1>1 DEF PermitAttests, Pending
<1> QED BY <1>3, <1>4, <1>5, <1>6, <1>7, <1>8, <1>9

\* What Google shows, the attempt and a manager's page are no part of it.
LEMMA OtherVariables ==
  ASSUME IInv, CyclesTypeOK',
         UNCHANGED <<reviewVars, observed, facts, handled, permit, inboxVars>>
  PROVE  IInv'
<1> USE DEF reviewVars, inboxVars
<1>1. \A f : /\ ExactCurrent(f)' <=> ExactCurrent(f)
             /\ CallbackReady(f)' <=> CallbackReady(f)
             /\ Pending(f)' <=> Pending(f)
  BY DEF ExactCurrent, TransitionCurrent, InScope, CallbackReady,
         CarriesHead, TargetRefuses, Pending
<1>2. SourceAgrees' /\ InboxAgrees'
  BY DEF IInv, SourceAgrees, InboxAgrees, Inbox
<1>3. FactsLag' /\ OneFactPerReading' /\ RevisionTold' /\ ErasureTold'
  BY DEF IInv, FactsLag, OneFactPerReading, RevisionTold, ErasureTold, SourceFact
<1>4. PermitAttests'
  BY <1>1 DEF IInv, PermitAttests
<1>5. RevisionsDelivered' /\ ErasureDelivered' /\ AnswerDelivered'
  BY <1>1 DEF IInv, RevisionsDelivered, ErasureDelivered, AnswerDelivered, ReopenedAfter
<1> QED BY <1>2, <1>3, <1>4, <1>5 DEF IInv

LEMMA InitIInv == Init => IInv
<1> SUFFICES ASSUME Init PROVE IInv
  OBVIOUS
<1> USE DEF Init
<1>1. MaxEpoch \in Nat
  BY CyclesAssumption
<1>2. CyclesTypeOK
  BY <1>1 DEF CyclesTypeOK
<1>3. SourceAgrees /\ InboxAgrees
  BY DEF SourceAgrees, InboxAgrees
<1>4. FactsLag /\ OneFactPerReading /\ RevisionTold /\ ErasureTold
  BY DEF FactsLag, OneFactPerReading, RevisionTold, ErasureTold
<1>5. PermitAttests /\ RevisionsDelivered /\ ErasureDelivered /\ AnswerDelivered
  BY DEF PermitAttests, RevisionsDelivered, ErasureDelivered, AnswerDelivered
<1> QED BY <1>2, <1>3, <1>4, <1>5 DEF IInv

LEMMA GoogleShowsStep ==
  ASSUME IInv, NEW text \in {Own, Other, NoReply}, GoogleShows(text)
  PROVE  IInv'
<1>1. CyclesTypeOK'
  BY DEF IInv, GoogleShows, CyclesTypeOK, reviewVars, inboxVars
<1> QED BY <1>1, OtherVariables DEF GoogleShows

LEMMA StartAttemptStep ==
  ASSUME IInv, StartAttempt
  PROVE  IInv'
<1>1. review.epoch \in 0..MaxEpoch /\ review.revision \in Nat
  BY Fields DEF StartAttempt, RowType
<1>2. attempt' \in [state : {"none", "open", "settled"}, epoch : 0..MaxEpoch, revision : Nat]
  BY <1>1 DEF StartAttempt
<1>3. CyclesTypeOK'
  BY <1>2 DEF IInv, StartAttempt, CyclesTypeOK, reviewVars, inboxVars
<1> QED BY <1>3, OtherVariables DEF StartAttempt

LEMMA PrepareReopenStep ==
  ASSUME IInv, PrepareReopen
  PROVE  IInv'
<1>1. item # Nothing
  BY CyclesAssumption DEF PrepareReopen
<1>2. Len(cycles) \in Nat /\ head \in HeadType
  BY <1>1, Fields
<1>3. page' \in [cycle : Nat, head : HeadType]
  BY <1>2 DEF PrepareReopen
<1>4. CyclesTypeOK'
  BY <1>3 DEF IInv, PrepareReopen, CyclesTypeOK, reviewVars, replyVars, inboxVars
<1> QED BY <1>4, OtherVariables DEF PrepareReopen, replyVars

LEMMA AbandonReopenStep ==
  ASSUME IInv, AbandonReopen
  PROVE  IInv'
<1>1. CyclesTypeOK'
  BY DEF IInv, AbandonReopen, CyclesTypeOK, reviewVars, replyVars, inboxVars
<1> QED BY <1>1, OtherVariables DEF AbandonReopen, replyVars

LEMMA AdvanceEpochStep ==
  ASSUME IInv, AdvanceEpoch
  PROVE  IInv'
<1> USE DEF reviewVars, replyVars, inboxVars
<1>1. /\ epoch' = epoch + 1 /\ epoch \in Nat /\ review # Nothing
      /\ UNCHANGED <<review, revisions, observed, facts, handled, permit, inboxVars>>
  BY Fields DEF AdvanceEpoch
<1>2. CyclesTypeOK'
  <2>1. epoch' \in 0..MaxEpoch
    BY <1>1, CyclesAssumption DEF AdvanceEpoch
  <2> QED BY <2>1 DEF IInv, AdvanceEpoch, CyclesTypeOK
<1>3. review.epoch \in Nat /\ review.epoch <= epoch
      /\ \A f \in facts : f.epoch \in Nat /\ f.epoch <= epoch
  BY <1>1, Fields DEF IInv, SourceAgrees, FactsLag
<1>4. SourceAgrees' /\ InboxAgrees'
  BY <1>1, <1>3 DEF IInv, SourceAgrees, InboxAgrees, Inbox
<1>5. FactsLag' /\ OneFactPerReading' /\ RevisionTold'
  BY <1>1 DEF IInv, FactsLag, OneFactPerReading, RevisionTold
<1>6. ErasureTold'
  BY <1>1, <1>3 DEF ErasureTold
<1>7. PermitAttests'
  <2>1. \A f : /\ CallbackReady(f)' <=> CallbackReady(f)
               /\ Pending(f)' <=> Pending(f)
    BY <1>1 DEF CallbackReady, CarriesHead, TargetRefuses, Pending
  <2>2. permit # Nothing => ExactCurrent(permit.fact)' <=> ExactCurrent(permit.fact)
    BY <1>1 DEF AdvanceEpoch, ExactCurrent, TransitionCurrent, InScope
  <2> QED BY <1>1, <2>1, <2>2 DEF IInv, PermitAttests
<1>8. RevisionsDelivered'
  BY <1>1, <1>3, Fields DEF RevisionsDelivered
<1>9. ErasureDelivered'
  BY <1>1, <1>3, Fields DEF ErasureDelivered, ExactCurrent, TransitionCurrent
<1>10. AnswerDelivered'
  <2>1. \A f : f.kind = "observed" => (ExactCurrent(f)' <=> ExactCurrent(f))
    BY <1>1 DEF ExactCurrent, TransitionCurrent, InScope
  <2> QED BY <1>1, <2>1 DEF IInv, AnswerDelivered, ReopenedAfter
<1> QED BY <1>2, <1>4, <1>5, <1>6, <1>7, <1>8, <1>9, <1>10 DEF IInv

-----------------------------------------------------------------------------
(* Review writes its row. *)

\* What every write of a known row has in common: the row moves forward, or
\* stays where no transition is current any more; its chain grows, and what is
\* new is told.
RowMoves ==
  /\ permit = Nothing /\ review # Nothing /\ review' \in RowType
  /\ UNCHANGED <<epoch, handled, permit, inboxVars>>
  /\ review.epoch <= review'.epoch /\ review'.epoch <= epoch
  /\ review.revision <= review'.revision /\ review'.revision = Len(revisions')
  /\ \A r \in 1..review.revision : revisions'[r] = revisions[r]
  /\ review.sequence < review'.sequence
     \/ (review'.sequence = review.sequence /\ (review'.epoch < epoch \/ review'.erasedAgain))
  /\ facts \subseteq facts'
  /\ \A f \in facts' \ facts :
       /\ f.kind \in {"updated", "transitioned"}
       /\ f.epoch <= review'.epoch /\ f.revision <= review'.revision
       /\ f.number <= review'.sequence
       /\ f.kind = "transitioned" => f.says # "active"
  /\ observed' \in {observed, BlankReply(observed)}
  /\ (review'.epoch = review.epoch /\ review'.revision = review.revision)
     \/ \E f \in facts' : /\ f.kind = "updated" /\ f.epoch = review'.epoch
                          /\ f.revision = review'.revision
  /\ \/ review'.state = "active" \/ review'.epoch < epoch
     \/ SourceFact("transitioned", review') \in facts'

\* Blanking changes the text and nothing else.
LEMMA Blanked ==
  ASSUME observed \in ReadingType \cup {Nothing},
         NEW o \in {observed, BlankReply(observed)}
  PROVE  /\ o \in ReadingType \cup {Nothing}
         /\ o = Nothing <=> observed = Nothing
         /\ observed # Nothing =>
              /\ o.number = observed.number /\ o.epoch = observed.epoch
              /\ o.revision = observed.revision
<1> DEFINE t == IF observed.text = NoReply THEN NoReply ELSE Erased
<1> DEFINE b == [observed EXCEPT !.held = FALSE, !.text = t]
<1>1. observed # Nothing => BlankReply(observed) = b
  BY DEF BlankReply, ReadingType
<1>2. t \in {Own, Other, NoReply, Erased}
  OBVIOUS
<1> HIDE DEF t
<1>3. observed # Nothing =>
        /\ b \in ReadingType /\ b.number = observed.number
        /\ b.epoch = observed.epoch /\ b.revision = observed.revision
  BY <1>2 DEF ReadingType
<1>4. observed = Nothing => BlankReply(observed) = Nothing
  BY DEF BlankReply
<1> QED BY <1>1, <1>3, <1>4, NothingIsNoRecord

LEMMA RowMovesStep ==
  ASSUME IInv, RowMoves, CyclesTypeOK'
  PROVE  IInv'
<1> USE DEF inboxVars
<1>1. /\ review # Nothing /\ review' # Nothing /\ permit = Nothing /\ permit' = Nothing
      /\ UNCHANGED <<epoch, handled, item, head, cycles>> /\ facts \subseteq facts'
  BY NothingIsNoRecord DEF RowMoves
<1>2. /\ review.epoch \in Nat /\ review.revision \in Nat \ {0} /\ review.sequence \in Nat
      /\ review'.epoch \in Nat /\ review'.revision \in Nat /\ review'.sequence \in Nat
      /\ epoch \in Nat /\ review.revision = Len(revisions) /\ review.epoch <= epoch
  BY <1>1, Fields, CyclesAssumption DEF RowMoves, RowType, IInv, SourceAgrees
<1>3. /\ review.epoch <= review'.epoch /\ review'.epoch <= epoch
      /\ review.revision <= review'.revision /\ review'.revision = Len(revisions')
      /\ review.sequence <= review'.sequence
      /\ \A r \in 1..review.revision : revisions'[r] = revisions[r]
  BY <1>2 DEF RowMoves
<1>4. /\ observed' = Nothing <=> observed = Nothing
      /\ observed # Nothing =>
           /\ observed'.number = observed.number /\ observed'.epoch = observed.epoch
           /\ observed'.revision = observed.revision
  BY Blanked DEF IInv, CyclesTypeOK, RowMoves
<1>5. \A f \in facts : /\ f.epoch \in Nat /\ f.revision \in Nat /\ f.number \in Nat
                       /\ f.epoch <= review.epoch /\ f.revision <= review.revision
                       /\ f.kind # "observed" => f.number <= review.sequence
                       /\ f.kind \in {"created", "updated", "transitioned", "observed"}
  BY Fields DEF IInv, FactsLag
<1>6. SourceAgrees'
  <2>1. 1 \in 1..review.revision
    BY <1>2
  <2> QED BY <2>1, <1>1, <1>2, <1>3 DEF IInv, SourceAgrees
<1>7. InboxAgrees'
  <2>1. CASE item = Nothing
    BY <2>1, <1>1 DEF IInv, InboxAgrees
  <2>2. CASE item # Nothing
    <3>1. /\ item = head.status /\ head.revision <= review.revision
          /\ InboxSound(Inbox, handled, revisions) /\ head.revision \in Nat
      BY <2>2, Fields DEF IInv, InboxAgrees
    <3>2. \A f \in handled : f.revision \in Nat /\ f.revision <= review.revision
      BY <1>5, Fields
    <3>3. InboxSound(Inbox, handled, revisions')
      BY <3>1, <3>2, <1>2, <1>3, LaterSound DEF Inbox
    <3>4. Inbox' = Inbox /\ handled' = handled
      BY <1>1 DEF Inbox
    <3>5. head.revision <= review'.revision
      BY <3>1, <1>2, <1>3
    <3> QED BY <2>2, <3>1, <3>3, <3>4, <3>5, <1>1 DEF InboxAgrees
  <2> QED BY <2>1, <2>2
<1>8. FactsLag'
  <2> SUFFICES ASSUME NEW f \in facts'
               PROVE /\ f.epoch <= review'.epoch /\ f.revision <= review'.revision
                     /\ f.kind # "observed" => f.number <= review'.sequence
                     /\ f.kind = "created" => f.revision = 1
                     /\ f.kind = "transitioned" => f.says # "active"
                     /\ f.kind = "observed" =>
                          observed' # Nothing /\ 1 <= f.number /\ f.number <= observed'.number
    BY DEF FactsLag
  <2>1. CASE f \in facts
    <3>1. f.epoch <= review'.epoch /\ f.revision <= review'.revision
          /\ (f.kind # "observed" => f.number <= review'.sequence)
      BY <2>1, <1>2, <1>3, <1>5
    <3> QED BY <2>1, <3>1, <1>4 DEF IInv, FactsLag
  <2>2. CASE f \notin facts
    BY <2>2 DEF RowMoves
  <2> QED BY <2>1, <2>2
<1>9. OneFactPerReading'
  BY DEF RowMoves, IInv, OneFactPerReading
<1>10. RevisionTold'
  BY <1>1 DEF RowMoves, IInv, RevisionTold
<1>11. ErasureTold'
  BY <1>1, <1>2 DEF RowMoves, ErasureTold
<1>12. PermitAttests'
  BY <1>1 DEF PermitAttests
<1>13. RevisionsDelivered'
  BY <1>1 DEF IInv, RevisionsDelivered
<1>14. ErasureDelivered'
  <2> SUFFICES ASSUME NEW f \in handled, f.kind = "transitioned",
                      review'.epoch = epoch, review'.sequence = f.number,
                      ~review'.erasedAgain
               PROVE FALSE
    BY <1>1 DEF ErasureDelivered, ExactCurrent, TransitionCurrent
  <2>1. f.number <= review.sequence /\ f.number \in Nat
    BY <1>5, Fields
  <2> QED BY <2>1, <1>2 DEF RowMoves
<1>15. AnswerDelivered'
  <2> SUFFICES ASSUME NEW f \in handled, f.kind = "observed", f.says = "answered",
                      ExactCurrent(f)'
               PROVE  /\ item # Nothing /\ head.revision >= f.revision
                      /\ item = "closed" \/ ReopenedAfter(f.number)
    BY <1>1 DEF AnswerDelivered, ReopenedAfter
  <2>1. /\ f.epoch = review'.epoch /\ f.revision = review'.revision
        /\ observed' # Nothing /\ observed'.epoch = review'.epoch
        /\ observed'.revision = review'.revision /\ observed'.number = f.number
    BY DEF ExactCurrent, TransitionCurrent, InScope
  <2>2. f.epoch <= review.epoch /\ f.revision <= review.revision
        /\ f.epoch \in Nat /\ f.revision \in Nat
    BY <1>5, Fields
  <2>3. f.epoch = review.epoch /\ f.revision = review.revision
        /\ review'.epoch = review.epoch /\ review'.revision = review.revision
    BY <2>1, <2>2, <1>2, <1>3
  <2>4. f # Nothing
    BY <2>1, <1>1 DEF ExactCurrent, TransitionCurrent, InScope
  <2>5. ExactCurrent(f)
    BY <2>1, <2>3, <2>4, <1>4, CurrentReading DEF InScope
  <2> QED BY <2>5 DEF IInv, AnswerDelivered
<1> QED BY <1>6, <1>7, <1>8, <1>9, <1>10, <1>11, <1>12, <1>13, <1>14, <1>15 DEF IInv

\* The row an observation writes over `from`, and the chain with it.
LEMMA ObservedRows ==
  ASSUME IInv, review # Nothing, NEW material \in BOOLEAN,
         NEW from, from.epoch = review.epoch, from.revision = review.revision,
         from.sequence \in Nat
  PROVE  LET row   == ObservedRow(from, material)
             chain == ObservedRevisions(row, material)
         IN /\ row \in RowType /\ row.state = "active" /\ row.epoch = epoch
            /\ row.sequence = from.sequence + 1 /\ review.revision <= row.revision
            /\ chain \in Seq([epoch : 0..MaxEpoch, carry : BOOLEAN])
            /\ Len(chain) = row.revision
            /\ \A r \in 1..review.revision : chain[r] = revisions[r]
<1> DEFINE row == ObservedRow(from, material)
<1> DEFINE chain == ObservedRevisions(row, material)
<1> DEFINE link == [epoch |-> epoch, carry |-> ~material]
<1>1. /\ review.revision \in Nat \ {0} /\ review.revision = Len(revisions)
      /\ epoch \in 0..MaxEpoch
      /\ revisions \in Seq([epoch : 0..MaxEpoch, carry : BOOLEAN])
  BY Fields DEF IInv, CyclesTypeOK
<1>2. /\ row.state = "active" /\ row.epoch = epoch /\ row.sequence = from.sequence + 1
      /\ row.revision \in {review.revision, review.revision + 1}
      /\ row = [epoch |-> epoch, state |-> "active", sequence |-> row.sequence,
                erasedAgain |-> FALSE, revision |-> row.revision]
  <2> DEFINE k == IF material \/ from.epoch < epoch THEN 1 ELSE 0
  <2>1. k \in {0, 1}
    OBVIOUS
  <2>2. row = [epoch |-> epoch, state |-> "active", sequence |-> from.sequence + 1,
               erasedAgain |-> FALSE, revision |-> from.revision + k]
    BY DEF ObservedRow
  <2>3. from.revision + k \in {review.revision, review.revision + 1}
    BY <1>1, <2>1
  <2> HIDE DEF k, row
  <2> QED BY <2>2, <2>3
<1>3. link \in [epoch : 0..MaxEpoch, carry : BOOLEAN]
  BY <1>1
<1>4. chain = IF row.revision > review.revision THEN Append(revisions, link) ELSE revisions
  BY DEF ObservedRevisions
<1> HIDE DEF row, chain, link
<1>5. row \in RowType
  <2> DEFINE n == row.sequence
  <2> DEFINE r == row.revision
  <2>1. n \in Nat /\ r \in Nat
    BY <1>1, <1>2
  <2>2. row = [epoch |-> epoch, state |-> "active", sequence |-> n,
               erasedAgain |-> FALSE, revision |-> r]
    BY <1>2
  <2> HIDE DEF n, r
  <2> QED BY <1>1, <2>1, <2>2 DEF RowType
<1>6. CASE row.revision = review.revision
  BY <1>1, <1>2, <1>4, <1>5, <1>6 DEF row, chain
<1>7. CASE row.revision = review.revision + 1
  <2>1. chain = Append(revisions, link)
    BY <1>1, <1>4, <1>7
  <2>2. chain \in Seq([epoch : 0..MaxEpoch, carry : BOOLEAN])
        /\ Len(chain) = review.revision + 1
        /\ \A r \in 1..review.revision : chain[r] = revisions[r]
    BY <1>1, <1>3, <2>1
  <2> QED BY <1>1, <1>2, <1>5, <1>7, <2>2 DEF row, chain
<1> QED BY <1>2, <1>6, <1>7

\* The fact a row's write records.
LEMMA SourceFactFields ==
  ASSUME NEW row \in RowType, NEW kind \in {"created", "updated", "transitioned"}
  PROVE  LET f == SourceFact(kind, row)
         IN /\ f \in FactSpace /\ f.kind = kind /\ f.epoch = row.epoch
            /\ f.revision = row.revision /\ f.number = row.sequence
            /\ f.says = row.state
BY DEF SourceFact, FactSpace, RowType

LEMMA FencedAttempt ==
  ASSUME IInv, NEW row, FenceAttempt(row)
  PROVE  attempt' \in [state : {"none", "open", "settled"}, epoch : 0..MaxEpoch,
                       revision : Nat]
BY DEF IInv, CyclesTypeOK, FenceAttempt

LEMMA ObserveStep ==
  ASSUME IInv, NEW material \in BOOLEAN, ObserveChange(material) \/ Reobserve(material)
  PROVE  IInv'
<1> USE DEF inboxVars
<1> DEFINE row == ObservedRow(review, material)
<1> DEFINE f == SourceFact("updated", row)
<1>1. /\ permit = Nothing /\ review # Nothing /\ review' = row
      /\ revisions' = ObservedRevisions(row, material)
      /\ facts' = facts \cup {f} /\ FenceAttempt(row)
      /\ UNCHANGED <<epoch, shown, observed, handled, permit, inboxVars, page>>
  BY DEF ObserveChange, Reobserve, Unlocked
<1>2. review \in RowType /\ review.sequence \in Nat /\ review.epoch \in Nat
      /\ epoch \in Nat /\ review.epoch <= epoch
  BY <1>1, Fields DEF IInv, SourceAgrees
<1>3. /\ row \in RowType /\ row.state = "active" /\ row.epoch = epoch
      /\ row.sequence = review.sequence + 1 /\ review.revision <= row.revision
      /\ revisions' \in Seq([epoch : 0..MaxEpoch, carry : BOOLEAN])
      /\ Len(revisions') = row.revision
      /\ \A r \in 1..review.revision : revisions'[r] = revisions[r]
  BY <1>1, <1>2, ObservedRows
<1> HIDE DEF row
<1>4. /\ f \in FactSpace /\ f.kind = "updated" /\ f.epoch = row.epoch
      /\ f.revision = row.revision /\ f.number = row.sequence
  BY <1>3, SourceFactFields
<1> HIDE DEF f
<1>5. row.revision \in Nat /\ row.sequence \in Nat
  BY <1>3 DEF RowType
<1>6. CyclesTypeOK'
  BY <1>1, <1>3, <1>4, FencedAttempt DEF IInv, CyclesTypeOK
<1>7. RowMoves
  BY <1>1, <1>2, <1>3, <1>4, <1>5 DEF RowMoves
<1> QED BY <1>6, <1>7, RowMovesStep

LEMMA ReobserveOverdueStep ==
  ASSUME IInv, NEW material \in BOOLEAN, ReobserveOverdue(material)
  PROVE  IInv'
<1> USE DEF inboxVars
<1> DEFINE fresh == review.epoch = epoch
<1> DEFINE expired == IF fresh
                      THEN [review EXCEPT !.state = "source_expired", !.sequence = @ + 1]
                      ELSE review
<1> DEFINE row == ObservedRow(expired, material)
<1> DEFINE f == SourceFact("updated", row)
<1> DEFINE g == SourceFact("transitioned", expired)
<1>1. /\ permit = Nothing /\ review # Nothing /\ review' = row
      /\ revisions' = ObservedRevisions(row, material)
      /\ facts' = facts \cup {f} \cup (IF fresh THEN {g} ELSE {}) /\ FenceAttempt(row)
      /\ observed' \in {observed, BlankReply(observed)}
      /\ UNCHANGED <<epoch, shown, handled, permit, inboxVars, page>>
  BY DEF ReobserveOverdue, Unlocked
<1>2. review \in RowType /\ review.sequence \in Nat /\ review.epoch \in Nat
      /\ epoch \in Nat /\ review.epoch <= epoch
  BY <1>1, Fields DEF IInv, SourceAgrees
<1>3. /\ expired.epoch = review.epoch /\ expired.revision = review.revision
      /\ expired.sequence \in {review.sequence, review.sequence + 1}
      /\ fresh => expired \in RowType /\ expired.state = "source_expired"
  <2>1. \A n \in Nat : [review EXCEPT !.state = "source_expired", !.sequence = n] \in RowType
    BY <1>2 DEF RowType
  <2>2. review.sequence + 1 \in Nat
    BY <1>2
  <2> QED BY <1>2, <2>1, <2>2 DEF RowType
<1> HIDE DEF expired
<1>4. /\ row \in RowType /\ row.state = "active" /\ row.epoch = epoch
      /\ row.sequence = expired.sequence + 1 /\ review.revision <= row.revision
      /\ revisions' \in Seq([epoch : 0..MaxEpoch, carry : BOOLEAN])
      /\ Len(revisions') = row.revision
      /\ \A r \in 1..review.revision : revisions'[r] = revisions[r]
  <2>1. expired.sequence \in Nat
    BY <1>2, <1>3
  <2> QED BY <1>1, <1>3, <2>1, ObservedRows
<1> HIDE DEF row
<1>5. /\ f \in FactSpace /\ f.kind = "updated" /\ f.epoch = row.epoch
      /\ f.revision = row.revision /\ f.number = row.sequence
      /\ fresh => /\ g \in FactSpace /\ g.kind = "transitioned" /\ g.epoch = expired.epoch
                  /\ g.revision = expired.revision /\ g.number = expired.sequence
                  /\ g.says = expired.state
  BY <1>3, <1>4, SourceFactFields
<1> HIDE DEF f, g
<1>6. row.revision \in Nat /\ row.sequence \in Nat
  BY <1>4 DEF RowType
<1>7. observed' \in ReadingType \cup {Nothing}
  BY <1>1, Blanked DEF IInv, CyclesTypeOK
<1>8. CyclesTypeOK'
  <2>1. facts' \subseteq FactSpace /\ facts \subseteq facts'
    BY <1>1, <1>5 DEF IInv, CyclesTypeOK
  <2> HIDE DEF fresh
  <2> QED BY <1>1, <1>4, <1>7, <2>1, FencedAttempt DEF IInv, CyclesTypeOK
<1>9. RowMoves
  <2>1. review.sequence < row.sequence
    BY <1>2, <1>3, <1>4
  <2>2. \A h \in facts' \ facts :
          /\ h.kind \in {"updated", "transitioned"}
          /\ h.epoch <= row.epoch /\ h.revision <= row.revision
          /\ h.number <= row.sequence
          /\ h.kind = "transitioned" => h.says # "active"
    <3> SUFFICES ASSUME NEW h \in facts' \ facts
                 PROVE /\ h.kind \in {"updated", "transitioned"}
                       /\ h.epoch <= row.epoch /\ h.revision <= row.revision
                       /\ h.number <= row.sequence
                       /\ h.kind = "transitioned" => h.says # "active"
      OBVIOUS
    <3>1. CASE h = f
      BY <3>1, <1>2, <1>4, <1>5, <1>6
    <3>2. CASE fresh /\ h = g
      BY <3>2, <1>2, <1>3, <1>4, <1>5, <1>6
    <3> QED BY <3>1, <3>2, <1>1
  <2>3. f \in facts' /\ facts \subseteq facts'
    BY <1>1
  <2> QED BY <1>1, <1>2, <1>4, <1>5, <2>1, <2>2, <2>3 DEF RowMoves
<1> QED BY <1>8, <1>9, RowMovesStep

LEMMA EraseSourceStep ==
  ASSUME IInv, NEW state \in {"source_expired", "provider_deleted"}, EraseSource(state)
  PROVE  IInv'
<1> USE DEF inboxVars
<1> DEFINE told == [review EXCEPT !.state = state, !.sequence = @ + 1]
<1> DEFINE silent == [review EXCEPT !.state = state]
<1> DEFINE f == SourceFact("transitioned", told)
<1>1. /\ permit = Nothing /\ review # Nothing
      /\ observed' = BlankReply(observed)
      /\ UNCHANGED <<epoch, revisions, shown, attempt, handled, permit, inboxVars, page>>
      /\ \/ review.epoch = epoch /\ review' = told /\ facts' = facts \cup {f}
         \/ review.epoch < epoch /\ review' = silent /\ facts' = facts
  BY DEF EraseSource, Unlocked
<1>2. /\ review \in RowType /\ review.sequence \in Nat /\ review.epoch \in Nat
      /\ epoch \in Nat /\ review.epoch <= epoch /\ review.revision \in Nat
      /\ review.revision = Len(revisions)
  BY <1>1, Fields DEF IInv, SourceAgrees
<1>3. /\ silent \in RowType /\ silent.epoch = review.epoch
      /\ silent.revision = review.revision /\ silent.sequence = review.sequence
  BY <1>2 DEF RowType
<1>4. /\ told \in RowType /\ told.epoch = review.epoch /\ told.state = state
      /\ told.revision = review.revision /\ told.sequence = review.sequence + 1
  <2>1. \A n \in Nat : [review EXCEPT !.state = state, !.sequence = n] \in RowType
    BY <1>2 DEF RowType
  <2>2. review.sequence + 1 \in Nat
    BY <1>2
  <2> QED BY <1>2, <2>1, <2>2 DEF RowType
<1> HIDE DEF told, silent
<1>5. /\ f \in FactSpace /\ f.kind = "transitioned" /\ f.epoch = told.epoch
      /\ f.revision = told.revision /\ f.number = told.sequence /\ f.says = told.state
  BY <1>4, SourceFactFields
<1>6. f = SourceFact("transitioned", told)
  OBVIOUS
<1> HIDE DEF f
<1>7. observed' \in ReadingType \cup {Nothing}
  BY <1>1, Blanked DEF IInv, CyclesTypeOK
<1>8. review' \in RowType /\ facts' \subseteq FactSpace /\ facts \subseteq facts'
  BY <1>1, <1>3, <1>4, <1>5 DEF IInv, CyclesTypeOK
<1>9. CyclesTypeOK'
  BY <1>1, <1>7, <1>8 DEF IInv, CyclesTypeOK
<1>10. CASE review.epoch = epoch /\ review' = told /\ facts' = facts \cup {f}
  <2>1. RowMoves
    BY <1>10, <1>1, <1>2, <1>4, <1>5, <1>6 DEF RowMoves
  <2> QED BY <2>1, <1>9, RowMovesStep
<1>11. CASE review.epoch < epoch /\ review' = silent /\ facts' = facts
  <2>1. RowMoves
    BY <1>11, <1>1, <1>2, <1>3 DEF RowMoves
  <2> QED BY <2>1, <1>9, RowMovesStep
<1> QED BY <1>1, <1>10, <1>11

\* A second erasure keeps the row's place and its fact, and makes it obsolete.
LEMMA RepairErasureStep ==
  ASSUME IInv, RepairErasure
  PROVE  IInv'
<1> USE DEF inboxVars
<1> DEFINE row == [review EXCEPT !.erasedAgain = TRUE]
<1>1. /\ permit = Nothing /\ review # Nothing /\ review.state # "active"
      /\ review' = row /\ observed' = BlankReply(observed)
      /\ UNCHANGED <<epoch, revisions, shown, attempt, facts, handled, permit,
                     inboxVars, page>>
  BY DEF RepairErasure, Unlocked
<1>2. /\ review \in RowType /\ review.epoch \in Nat /\ epoch \in Nat
      /\ review.epoch <= epoch /\ review.revision \in Nat /\ review.sequence \in Nat
      /\ review.revision = Len(revisions)
  BY <1>1, Fields DEF IInv, SourceAgrees
<1>3. /\ row \in RowType /\ row.epoch = review.epoch /\ row.revision = review.revision
      /\ row.sequence = review.sequence /\ row.state = review.state /\ row.erasedAgain
  BY <1>2 DEF RowType
<1>4. SourceFact("transitioned", row) = SourceFact("transitioned", review)
  BY <1>3 DEF SourceFact
<1> HIDE DEF row
<1>5. row.epoch = epoch => SourceFact("transitioned", row) \in facts
  BY <1>1, <1>3, <1>4 DEF IInv, ErasureTold
<1>6. observed' \in ReadingType \cup {Nothing}
  BY <1>1, Blanked DEF IInv, CyclesTypeOK
<1>7. CyclesTypeOK'
  BY <1>1, <1>3, <1>6 DEF IInv, CyclesTypeOK
<1>8. RowMoves
  BY <1>1, <1>2, <1>3, <1>5 DEF RowMoves
<1> QED BY <1>7, <1>8, RowMovesStep

LEMMA FirstSightingStep ==
  ASSUME IInv, FirstSighting
  PROVE  IInv'
<1> USE DEF inboxVars, replyVars
<1> DEFINE row == [epoch |-> epoch, revision |-> 1, state |-> "active", sequence |-> 1,
                   erasedAgain |-> FALSE]
<1> DEFINE f == SourceFact("created", row)
<1>1. /\ permit = Nothing /\ review = Nothing /\ review' = row
      /\ facts' = facts \cup {f} /\ revisions' = <<[epoch |-> epoch, carry |-> FALSE]>>
      /\ UNCHANGED <<epoch, shown, attempt, observed, handled, permit, inboxVars, page>>
  BY DEF FirstSighting, Unlocked
<1>2. /\ epoch \in 0..MaxEpoch /\ epoch \in Nat /\ facts = {} /\ observed = Nothing
      /\ item = Nothing /\ cycles = <<>> /\ handled = {}
  BY <1>1, Fields DEF IInv, CyclesTypeOK, SourceAgrees, InboxAgrees
<1>3. /\ row \in RowType /\ row.epoch = epoch /\ row.revision = 1
      /\ row.state = "active" /\ row.sequence = 1
  BY <1>2 DEF RowType
<1> HIDE DEF row
<1>4. /\ f \in FactSpace /\ f.kind = "created" /\ f.epoch = epoch
      /\ f.revision = 1 /\ f.number = 1
  BY <1>3, SourceFactFields
<1> HIDE DEF f
<1>5. /\ revisions' \in Seq([epoch : 0..MaxEpoch, carry : BOOLEAN])
      /\ Len(revisions') = 1 /\ revisions'[1].carry = FALSE
  BY <1>1, <1>2
<1>6. CyclesTypeOK'
  BY <1>1, <1>2, <1>3, <1>4, <1>5 DEF IInv, CyclesTypeOK
<1>7. review' # Nothing
  BY <1>1, <1>3, NothingIsNoRecord
<1>8. SourceAgrees' /\ InboxAgrees'
  BY <1>1, <1>2, <1>3, <1>5, <1>7 DEF SourceAgrees, InboxAgrees
<1>9. FactsLag' /\ OneFactPerReading'
  BY <1>1, <1>2, <1>3, <1>4 DEF FactsLag, OneFactPerReading
<1>10. RevisionTold' /\ ErasureTold'
  BY <1>1, <1>3, <1>4 DEF RevisionTold, ErasureTold
<1>11. PermitAttests' /\ RevisionsDelivered' /\ ErasureDelivered' /\ AnswerDelivered'
  BY <1>1, <1>2 DEF PermitAttests, RevisionsDelivered, ErasureDelivered, AnswerDelivered
<1> QED BY <1>6, <1>8, <1>9, <1>10, <1>11 DEF IInv

-----------------------------------------------------------------------------
(* Review records what Google shows. *)

LEMMA ReadingSaysOneOf == ReadingSays \in {"answered", "deleted", "nothing"}
BY DEF ReadingSays

LEMMA ReadingStep ==
  ASSUME IInv, NEW source, review # Nothing, permit = Nothing, RecordReading(source),
         UNCHANGED <<reviewVars, shown, handled, permit, inboxVars, page>>
  PROVE  IInv'
<1> USE DEF reviewVars, inboxVars
<1>1. CASE UNCHANGED <<attempt, observed, facts>>
  <2>1. CyclesTypeOK'
    BY <1>1 DEF IInv, CyclesTypeOK
  <2> QED BY <1>1, <2>1, OtherVariables
<1>2. CASE ~RestatesHead(source)
  <2> DEFINE number == IF observed = Nothing THEN 1 ELSE observed.number + 1
  <2> DEFINE keeps == shown # NoReply \/ (observed # Nothing /\ observed.held)
  <2> DEFINE new == [number |-> number, epoch |-> review.epoch,
                     revision |-> review.revision, text |-> shown, held |-> keeps]
  <2> DEFINE f == ReplyFact(new, ReadingSays)
  <2>1. /\ observed' = new
        /\ facts' = IF ReadingSays = "nothing" THEN facts ELSE facts \cup {f}
        /\ attempt' = IF CurrentCandidate /\ shown # NoReply
                      THEN [attempt EXCEPT !.state = "settled"] ELSE attempt
    BY <1>2 DEF RecordReading
  <2>2. /\ review \in RowType /\ review.epoch \in Nat /\ review.revision \in Nat
        /\ review.epoch \in 0..MaxEpoch /\ shown \in {Own, Other, NoReply}
    BY Fields DEF IInv, CyclesTypeOK, RowType
  <2>3. /\ number \in Nat \ {0}
        /\ observed # Nothing => number > observed.number
    BY Fields
  <2> HIDE DEF number
  <2>4. new \in ReadingType /\ new # Nothing
    <3>1. keeps \in BOOLEAN
      BY Fields DEF ReadingType
    <3> HIDE DEF keeps
    <3> QED BY <3>1, <2>2, <2>3, NothingIsNoRecord DEF ReadingType
  <2> HIDE DEF keeps
  <2>5. /\ f.kind = "observed" /\ f.number = number /\ f.epoch = review.epoch
        /\ f.revision = review.revision
        /\ ReadingSays # "nothing" => f \in FactSpace
    <3>1. f = [kind |-> "observed", epoch |-> review.epoch, revision |-> review.revision,
               number |-> number, says |-> ReadingSays]
      BY DEF ReplyFact
    <3>2. ReadingSays # "nothing" => ReadingSays \in {"answered", "deleted"}
      BY ReadingSaysOneOf
    <3> HIDE DEF f
    <3> QED BY <3>1, <3>2, <2>2, <2>3 DEF FactSpace
  <2> HIDE DEF f
  <2>6. \A g \in facts : /\ g.kind = "observed" => observed # Nothing /\ g.number # number
                         /\ g.number \in Nat
    BY <2>3, Fields DEF IInv, FactsLag
  <2>7. CyclesTypeOK'
    <3>1. attempt' \in [state : {"none", "open", "settled"}, epoch : 0..MaxEpoch,
                        revision : Nat]
      BY <2>1 DEF IInv, CyclesTypeOK
    <3> QED BY <2>1, <2>4, <2>5, <3>1 DEF IInv, CyclesTypeOK
  <2>8. SourceAgrees' /\ InboxAgrees'
    <3>1. SourceAgrees'
      BY DEF IInv, SourceAgrees
    <3>2. InboxAgrees'
      BY DEF IInv, InboxAgrees, Inbox
    <3> QED BY <3>1, <3>2
  <2>9. FactsLag'
    <3> SUFFICES ASSUME NEW g \in facts'
                 PROVE /\ g.epoch <= review.epoch /\ g.revision <= review.revision
                       /\ g.kind # "observed" => g.number <= review.sequence
                       /\ g.kind = "created" => g.revision = 1
                       /\ g.kind = "transitioned" => g.says # "active"
                       /\ g.kind = "observed" =>
                            observed' # Nothing /\ 1 <= g.number /\ g.number <= number
      BY <2>1 DEF FactsLag
    <3>1. CASE g \in facts
      <4>1. g.kind = "observed" => g.number <= number /\ 1 <= g.number
        BY <3>1, <2>3, Fields DEF IInv, FactsLag
      <4> QED BY <3>1, <4>1, <2>1, <2>4 DEF IInv, FactsLag
    <3>2. CASE g = f
      BY <3>2, <2>1, <2>2, <2>3, <2>4, <2>5
    <3> QED BY <3>1, <3>2, <2>1
  <2>10. OneFactPerReading'
    BY <2>1, <2>5, <2>6 DEF IInv, OneFactPerReading
  <2>11. RevisionTold' /\ ErasureTold'
    BY <2>1 DEF IInv, RevisionTold, ErasureTold
  <2>12. PermitAttests' /\ RevisionsDelivered'
    BY DEF IInv, PermitAttests, RevisionsDelivered
  <2>13. ErasureDelivered'
    <3>1. \A g : g.kind = "transitioned" => (ExactCurrent(g)' <=> ExactCurrent(g))
      BY DEF ExactCurrent, TransitionCurrent
    <3> QED BY <3>1 DEF IInv, ErasureDelivered
  <2>14. AnswerDelivered'
    <3> SUFFICES ASSUME NEW g \in handled, g.kind = "observed", ExactCurrent(g)'
                 PROVE  FALSE
      BY DEF AnswerDelivered
    <3>1. observed'.number = g.number
      BY DEF ExactCurrent, TransitionCurrent
    <3> QED BY <3>1, <2>1, <2>6, Fields
  <2> QED BY <2>7, <2>8, <2>9, <2>10, <2>11, <2>12, <2>13, <2>14 DEF IInv
<1> QED BY <1>1, <1>2 DEF RecordReading

LEMMA ReadStep ==
  ASSUME IInv, SnapshotRead \/ TargetedRead
  PROVE  IInv'
<1>1. CASE SnapshotRead
  BY <1>1, ReadingStep DEF SnapshotRead, Unlocked
<1>2. CASE TargetedRead
  BY <1>2, ReadingStep DEF TargetedRead, Unlocked
<1> QED BY <1>1, <1>2

-----------------------------------------------------------------------------
(* Deliveries. *)

LEMMA PermitStep ==
  ASSUME IInv, NEW f \in facts, Permit(f)
  PROVE  IInv'
<1> USE DEF reviewVars, replyVars, inboxVars
<1>1. /\ Pending(f) /\ ExactCurrent(f) /\ CallbackReady(f)
      /\ permit' = [fact |-> f, revision |-> review.revision, state |-> review.state]
      /\ UNCHANGED <<epoch, review, revisions, shown, attempt, observed, facts, handled,
                     item, head, cycles, page>>
  BY DEF Permit
<1>2. review # Nothing /\ review \in RowType
  BY Fields
<1>3. CyclesTypeOK'
  <2>1. review.revision \in Nat
        /\ review.state \in {"active", "source_expired", "provider_deleted"}
    BY <1>2 DEF RowType
  <2>2. permit' \in [fact : facts, revision : Nat,
                     state : {"active", "source_expired", "provider_deleted"}]
    BY <1>1, <2>1
  <2> QED BY <1>1, <2>2 DEF IInv, CyclesTypeOK
<1>4. \A g : /\ ExactCurrent(g)' <=> ExactCurrent(g)
             /\ CallbackReady(g)' <=> CallbackReady(g)
             /\ Pending(g)' <=> Pending(g)
  BY <1>1 DEF ExactCurrent, TransitionCurrent, InScope, CallbackReady,
         CarriesHead, TargetRefuses, Pending
<1>5. SourceAgrees' /\ InboxAgrees'
  BY <1>1, <1>2 DEF IInv, SourceAgrees, InboxAgrees, Inbox
<1>6. FactsLag' /\ OneFactPerReading' /\ RevisionTold' /\ ErasureTold'
  BY <1>1 DEF IInv, FactsLag, OneFactPerReading, RevisionTold, ErasureTold, SourceFact
<1>7. PermitAttests'
  BY <1>1, <1>4 DEF PermitAttests
<1>8. RevisionsDelivered' /\ ErasureDelivered' /\ AnswerDelivered'
  BY <1>1, <1>4 DEF IInv, RevisionsDelivered, ErasureDelivered, AnswerDelivered,
                    ReopenedAfter
<1> QED BY <1>3, <1>5, <1>6, <1>7, <1>8 DEF IInv

\* A fact that is not current is behind the source for good.
LEMMA ObsoleteStep ==
  ASSUME IInv, NEW f \in facts, Obsolete(f)
  PROVE  IInv'
<1> USE DEF reviewVars, replyVars, inboxVars
<1>1. /\ permit = Nothing /\ permit' = Nothing /\ ~ExactCurrent(f)
      /\ handled' = handled \cup {f}
      /\ UNCHANGED <<epoch, review, revisions, shown, attempt, observed, facts,
                     item, head, cycles, page>>
  BY DEF Obsolete, Unlocked
<1>2. /\ review # Nothing /\ handled \subseteq facts /\ handled' \subseteq facts
      /\ epoch \in Nat /\ review.epoch \in Nat /\ review.epoch <= epoch
      /\ review.revision \in Nat /\ f.epoch \in Nat /\ f.revision \in Nat
      /\ f.epoch <= review.epoch /\ f.revision <= review.revision
      /\ f.kind = "created" => f.revision = 1
  BY <1>1, Fields DEF IInv, SourceAgrees, FactsLag
<1>3. CyclesTypeOK'
  BY <1>1, <1>2 DEF IInv, CyclesTypeOK
<1>4. \A g : ExactCurrent(g)' <=> ExactCurrent(g)
  BY <1>1 DEF ExactCurrent, TransitionCurrent, InScope
<1>5. SourceAgrees'
  BY <1>1, <1>2 DEF IInv, SourceAgrees
<1>6. InboxAgrees'
  <2>1. CASE item = Nothing
    BY <2>1, <1>1 DEF IInv, InboxAgrees
  <2>2. CASE item # Nothing
    <3>1. /\ item = head.status /\ head.revision <= review.revision
          /\ InboxSound(Inbox, handled, revisions) /\ head.revision \in Nat
      BY <2>2, Fields DEF IInv, InboxAgrees
    <3>2. \A g \in handled : g.revision \in Nat /\ g.revision <= review.revision
      BY <1>2, Fields DEF IInv, FactsLag
    <3>3. InboxSound(Inbox, handled', revisions)
      BY <3>1, <3>2, <1>1, <1>2, LaterSound DEF Inbox
    <3>4. Inbox' = Inbox
      BY <1>1 DEF Inbox
    <3> QED BY <2>2, <3>1, <3>3, <3>4, <1>1 DEF InboxAgrees
  <2> QED BY <2>1, <2>2
<1>7. FactsLag' /\ OneFactPerReading' /\ RevisionTold' /\ ErasureTold'
  BY <1>1 DEF IInv, FactsLag, OneFactPerReading, RevisionTold, ErasureTold, SourceFact
<1>8. PermitAttests'
  BY <1>1 DEF PermitAttests
<1>9. RevisionsDelivered'
  <2>1. f.kind \in {"created", "updated"} => f.epoch # epoch
    BY <1>1, <1>2, CurrentSource
  <2> QED BY <2>1, <1>1 DEF IInv, RevisionsDelivered
<1>10. ErasureDelivered' /\ AnswerDelivered'
  BY <1>1, <1>4 DEF IInv, ErasureDelivered, AnswerDelivered, ReopenedAfter
<1> QED BY <1>3, <1>5, <1>6, <1>7, <1>8, <1>9, <1>10 DEF IInv

-----------------------------------------------------------------------------
(* The Inbox writes its rows. *)

\* What is left to show of a step that writes only the Inbox's rows.
LEMMA InboxWritten ==
  ASSUME IInv, review # Nothing, permit' = Nothing,
         handled' \subseteq facts, page' \in [cycle : Nat, head : HeadType] \cup {Nothing},
         UNCHANGED <<reviewVars, replyVars, facts>>,
         item' # Nothing, item' = head'.status, head'.revision <= review.revision,
         InboxSound(Inbox', handled', revisions),
         RevisionsDelivered', ErasureDelivered', AnswerDelivered'
  PROVE  IInv'
<1> USE DEF reviewVars, replyVars
<1>1. /\ Inbox' \in InboxType /\ Inbox'.head = head' /\ Inbox'.cycles = cycles'
      /\ head' \in HeadType /\ cycles' \in Seq(CycleType)
  BY SoundCycles DEF Inbox, InboxType
<1>2. item' \in {"open", "closed"}
  BY <1>1 DEF HeadType
<1>3. CyclesTypeOK'
  BY <1>1, <1>2 DEF IInv, CyclesTypeOK
<1>4. SourceAgrees' /\ InboxAgrees'
  BY DEF IInv, SourceAgrees, InboxAgrees
<1>5. FactsLag' /\ OneFactPerReading' /\ RevisionTold' /\ ErasureTold'
  BY DEF IInv, FactsLag, OneFactPerReading, RevisionTold, ErasureTold, SourceFact
<1>6. PermitAttests'
  BY DEF PermitAttests
<1> QED BY <1>3, <1>4, <1>5, <1>6 DEF IInv

\* What Review attests to the callback it holds its lock for.
LEMMA Attested ==
  ASSUME IInv, permit # Nothing
  PROVE  LET f == permit.fact
         IN /\ f \in facts /\ f \notin handled /\ ExactCurrent(f) /\ CallbackReady(f)
            /\ permit.revision = review.revision /\ permit.state = review.state
            /\ review # Nothing /\ f.revision \in Nat /\ f.revision <= review.revision
            /\ f.kind \in {"created", "updated", "transitioned", "observed"}
BY Fields DEF IInv, PermitAttests, Pending, FactsLag

\* The rows stay sound when the receipt is written with them.
LEMMA ReceiptSound ==
  ASSUME IInv, permit # Nothing, item # Nothing
  PROVE  InboxSound(Inbox, handled \cup {permit.fact}, revisions)
<1>1. /\ InboxSound(Inbox, handled, revisions) /\ review.revision \in Nat
      /\ Inbox.head.revision <= review.revision
  BY Fields DEF IInv, InboxAgrees, Inbox
<1>2. \A f \in handled : f.revision \in Nat /\ f.revision <= review.revision
  BY Fields DEF IInv, FactsLag
<1> QED BY <1>1, <1>2, LaterSound

\* What is left to show of a callback that commits.
LEMMA AppliedStep ==
  ASSUME IInv, NEW kinds, Applies(kinds),
         item' # Nothing, item' = head'.status, head'.revision <= review.revision,
         InboxSound(Inbox', handled', revisions),
         item # Nothing => head'.revision >= head.revision,
         permit.fact.kind \in {"created", "updated"} => head'.revision >= permit.fact.revision,
         permit.fact.kind = "transitioned" => item' = "closed",
         item = "closed" /\ review.state # "active" => item' = "closed",
         AnswerDelivered'
  PROVE  IInv'
<1> DEFINE f == permit.fact
<1> USE DEF reviewVars, replyVars
<1>1. /\ permit # Nothing /\ permit' = Nothing /\ handled' = handled \cup {f}
      /\ UNCHANGED <<reviewVars, replyVars, facts, page>>
  BY DEF Applies
<1>2. f \in facts /\ review # Nothing /\ handled \subseteq facts
  BY <1>1, Attested, Fields
<1>3. RevisionsDelivered'
  <2> SUFFICES ASSUME NEW g \in handled', g.kind \in {"created", "updated"}, g.epoch = epoch
               PROVE  head'.revision >= g.revision
    BY <1>1 DEF RevisionsDelivered
  <2>1. CASE g = f
    BY <2>1
  <2>2. CASE g \in handled
    <3>1. item # Nothing /\ head.revision >= g.revision
      BY <2>2 DEF IInv, RevisionsDelivered
    <3>2. head'.revision \in Nat
      BY SoundCycles DEF Inbox
    <3>3. head.revision \in Nat /\ g.revision \in Nat
      BY <2>2, <3>1, <1>2, Fields
    <3> QED BY <3>1, <3>2, <3>3
  <2> QED BY <2>1, <2>2, <1>1
<1>4. ErasureDelivered'
  <2> SUFFICES ASSUME NEW g \in handled', g.kind = "transitioned", ExactCurrent(g)'
               PROVE  item' = "closed"
    BY DEF ErasureDelivered
  <2>1. CASE g = f
    BY <2>1
  <2>2. CASE g \in handled
    <3>1. ExactCurrent(g)
      BY <1>1 DEF ExactCurrent, TransitionCurrent, InScope
    <3>2. item = "closed" /\ review.state = g.says
      BY <2>2, <3>1, CurrentTransition DEF IInv, ErasureDelivered
    <3>3. g.says # "active"
      BY <2>2, <1>2 DEF IInv, FactsLag
    <3> QED BY <3>2, <3>3
  <2> QED BY <2>1, <2>2, <1>1
<1>5. page' \in [cycle : Nat, head : HeadType] \cup {Nothing}
  BY <1>1 DEF IInv, CyclesTypeOK
<1>6. handled' \subseteq facts
  BY <1>1, <1>2
<1> QED BY <1>1, <1>2, <1>3, <1>4, <1>5, <1>6, InboxWritten

\* A row that mirrors its head.
LEMMA Written ==
  ASSUME NEW inbox, NEW done, NEW revs, InboxSound(inbox, done, revs), Write(inbox)
  PROVE  /\ Inbox' = inbox /\ head' = inbox.head /\ cycles' = inbox.cycles
         /\ item' = head'.status /\ item' # Nothing /\ item' \in {"open", "closed"}
<1>1. inbox \in InboxType
  BY SoundCycles
<1>2. inbox = [head |-> inbox.head, cycles |-> inbox.cycles]
      /\ inbox.head.status \in {"open", "closed"}
  BY <1>1 DEF InboxType, HeadType
<1>3. head' = inbox.head /\ cycles' = inbox.cycles /\ item' = inbox.head.status
  BY DEF Write
<1> QED BY <1>2, <1>3, CyclesAssumption DEF Inbox

LEMMA ApplySourceTransitionedStep ==
  ASSUME IInv, ApplySourceTransitioned
  PROVE  IInv'
<1> DEFINE f == permit.fact
<1> USE DEF reviewVars, replyVars, inboxVars
<1>1. /\ Applies({"transitioned"}) /\ permit # Nothing /\ f.kind = "transitioned"
      /\ handled' = handled \cup {f} /\ UNCHANGED <<review, epoch, observed, revisions>>
  BY DEF ApplySourceTransitioned, Applies
<1>2. item # Nothing
  BY <1>1, Attested DEF CallbackReady
<1>3. /\ item = head.status /\ head.status \in {"open", "closed"}
      /\ head.revision \in Nat /\ head.revision <= review.revision
      /\ Inbox.head = head /\ Inbox.cycles = cycles
  BY <1>2, Fields DEF HeadType, Inbox
<1>4. InboxSound(Inbox, handled', revisions)
  BY <1>1, <1>2, ReceiptSound
<1>5. \A g \in handled' : g.kind = "observed" => g \in handled
  BY <1>1
<1>6. \A g : ExactCurrent(g)' <=> ExactCurrent(g)
  BY <1>1 DEF ExactCurrent, TransitionCurrent, InScope
<1>7. CASE head.status = "open"
  <2> DEFINE new == CloseCycle(Inbox, "source_ineligible", 0)
  <2>1. Write(new)
    BY <1>7 DEF ApplySourceTransitioned
  <2>2. /\ InboxSound(new, handled', revisions) /\ new.head.revision = head.revision
        /\ new.head.status = "closed"
    BY <1>3, <1>4, <1>7, CloseCycleSound
  <2> HIDE DEF new
  <2>3. /\ Inbox' = new /\ head' = new.head /\ item' = head'.status /\ item' # Nothing
    BY <2>1, <2>2, Written
  <2>4. AnswerDelivered'
    BY <1>5, <1>6, <2>2, <2>3 DEF IInv, AnswerDelivered
  <2> QED BY <1>1, <1>3, <2>2, <2>3, <2>4, AppliedStep
<1>8. CASE head.status # "open"
  <2>1. UNCHANGED <<item, head, cycles>> /\ item = "closed"
    BY <1>3, <1>8 DEF ApplySourceTransitioned
  <2>2. Inbox' = Inbox
    BY <2>1 DEF Inbox
  <2>3. AnswerDelivered'
    BY <1>5, <1>6, <2>1 DEF IInv, AnswerDelivered
  <2> QED BY <1>1, <1>2, <1>3, <1>4, <2>1, <2>2, <2>3, AppliedStep
<1> QED BY <1>7, <1>8

\* The projection brings a sound inbox to the attested revision.
LEMMA ProjectionCatchesUp ==
  ASSUME IInv, ApplyProjection
  PROVE  LET from   == IF item = Nothing THEN NewInbox ELSE Inbox
             caught == CatchUp(from, permit.revision)
         IN /\ InboxSound(caught, handled', revisions)
            /\ caught.head.revision = review.revision
            /\ from.head.revision <= review.revision
<1> DEFINE f == permit.fact
<1> DEFINE from == IF item = Nothing THEN NewInbox ELSE Inbox
<1>1. permit # Nothing /\ handled' = handled \cup {f}
  BY DEF ApplyProjection, Applies
<1>2. /\ review # Nothing /\ review.revision \in Nat \ {0} /\ ~revisions[1].carry
      /\ permit.revision = review.revision
  BY <1>1, Attested, Fields DEF IInv, SourceAgrees
<1>3. InboxSound(from, handled', revisions) /\ from.head.revision <= review.revision
  <2>1. CASE item = Nothing
    BY <2>1, <1>2, NewInboxSound
  <2>2. CASE item # Nothing
    BY <2>2, <1>1, ReceiptSound, Fields DEF Inbox
  <2> QED BY <2>1, <2>2
<1> QED BY <1>2, <1>3, CatchUpSound

LEMMA ApplyProjectionStep ==
  ASSUME IInv, ApplyProjection
  PROVE  IInv'
<1> DEFINE f == permit.fact
<1> DEFINE from == IF item = Nothing THEN NewInbox ELSE Inbox
<1> DEFINE caught == CatchUp(from, permit.revision)
<1> DEFINE new == CloseIfErased(caught)
<1> USE DEF reviewVars, replyVars
<1>1. /\ Applies({"created", "updated"}) /\ permit # Nothing
      /\ f.kind \in {"created", "updated"} /\ handled' = handled \cup {f}
      /\ UNCHANGED <<review, epoch, observed, revisions>> /\ Write(new)
  BY DEF ApplyProjection, Applies
<1>2. /\ review # Nothing /\ review.revision \in Nat \ {0} /\ ~revisions[1].carry
      /\ permit.revision = review.revision /\ permit.state = review.state
      /\ f.revision \in Nat /\ f.revision <= review.revision
  BY <1>1, Attested, Fields DEF IInv, SourceAgrees
<1>3. from.head.revision <= review.revision
  BY ProjectionCatchesUp
<1>4. InboxSound(caught, handled', revisions) /\ caught.head.revision = review.revision
  BY ProjectionCatchesUp
<1> HIDE DEF from
<1>5. /\ InboxSound(new, handled', revisions) /\ new.head.revision = review.revision
      /\ permit.state # "active" => new.head.status = "closed"
      /\ caught.head.status = "closed" => new.head.status = "closed"
      /\ new.head.status # "closed" => new = caught
  <2>1. caught.head.status \in {"open", "closed"}
    BY <1>4, SoundCycles DEF InboxType, HeadType
  <2> HIDE DEF caught
  <2>2. CASE permit.state # "active" /\ caught.head.status = "open"
    <3>1. new = CloseCycle(caught, "source_ineligible", 0)
      BY <2>2 DEF CloseIfErased
    <3>2. InboxSound(CloseCycle(caught, "source_ineligible", 0), handled', revisions)
          /\ CloseCycle(caught, "source_ineligible", 0).head.revision = caught.head.revision
          /\ CloseCycle(caught, "source_ineligible", 0).head.status = "closed"
      BY <1>4, <2>2, CloseCycleSound
    <3> QED BY <1>4, <3>1, <3>2
  <2>3. CASE ~(permit.state # "active" /\ caught.head.status = "open")
    BY <1>4, <2>1, <2>3 DEF CloseIfErased
  <2> QED BY <2>2, <2>3
<1> HIDE DEF new
<1>6. /\ Inbox' = new /\ head' = new.head /\ cycles' = new.cycles /\ item' = head'.status
      /\ item' # Nothing /\ item' \in {"open", "closed"}
  BY <1>1, <1>5, Written
<1>7. item = "closed" /\ review.state # "active" => item' = "closed"
  BY <1>2, <1>5, <1>6
<1>8. AnswerDelivered'
  <2> SUFFICES ASSUME NEW g \in handled, g.kind = "observed", g.says = "answered",
                      ExactCurrent(g)
               PROVE  /\ head'.revision >= g.revision
                      /\ item' = "closed" \/ ReopenedAfter(g.number)'
    <3>1. \A g : ExactCurrent(g)' <=> ExactCurrent(g)
      BY <1>1 DEF ExactCurrent, TransitionCurrent, InScope
    <3>2. \A g \in handled' : g.kind = "observed" => g \in handled
      BY <1>1
    <3> QED BY <3>1, <3>2, <1>6 DEF AnswerDelivered
  <2>1. /\ item # Nothing /\ head.revision >= g.revision
        /\ item = "closed" \/ ReopenedAfter(g.number)
    BY DEF IInv, AnswerDelivered
  <2>2. g.revision = review.revision
    BY CurrentReading DEF InScope
  <2>3. /\ head.revision = review.revision /\ item = head.status
        /\ head.revision \in Nat /\ Inbox.head = head /\ Inbox.cycles = cycles
    BY <2>1, <2>2, <1>2, Fields DEF Inbox
  <2>4. caught = Inbox
    BY <2>1, <2>3, <1>2, CatchUpStands DEF from
  <2> HIDE DEF caught
  <2>5. head'.revision >= g.revision
    BY <2>2, <1>2, <1>5, <1>6
  <2>6. CASE item = "closed"
    BY <2>3, <2>4, <2>5, <2>6, <1>5, <1>6
  <2>7. CASE ReopenedAfter(g.number)
    <3>1. CASE new.head.status = "closed"
      BY <3>1, <2>5, <1>6
    <3>2. CASE new.head.status # "closed"
      <4>1. cycles' = cycles
        BY <3>2, <2>3, <2>4, <1>5, <1>6
      <4> QED BY <4>1, <2>5, <2>7 DEF ReopenedAfter
    <3> QED BY <3>1, <3>2
  <2> QED BY <2>1, <2>6, <2>7
<1>9. item # Nothing => head'.revision >= head.revision
  BY <1>2, <1>5, <1>6, Fields
<1>10. head'.revision >= f.revision /\ head'.revision <= review.revision
  BY <1>2, <1>5, <1>6
<1> QED BY <1>1, <1>5, <1>6, <1>7, <1>8, <1>9, <1>10, AppliedStep

LEMMA ApplyReplyObservedStep ==
  ASSUME IInv, ApplyReplyObserved
  PROVE  IInv'
<1> DEFINE f == permit.fact
<1> DEFINE carried == IF head.revision < f.revision THEN CarryHead(Inbox) ELSE Inbox
<1> USE DEF reviewVars, replyVars, inboxVars
<1>1. /\ Applies({"observed"}) /\ permit # Nothing /\ f.kind = "observed"
      /\ handled' = handled \cup {f} /\ UNCHANGED <<review, epoch, observed, revisions, facts>>
  BY DEF ApplyReplyObserved, Applies
<1>2. /\ f \in facts /\ f \notin handled /\ ExactCurrent(f) /\ review # Nothing
      /\ permit.state = review.state /\ f.revision \in Nat /\ f.number \in Nat \ {0}
      /\ review.revision \in Nat /\ handled \subseteq facts
  BY <1>1, Attested, Fields DEF IInv, FactsLag
<1>3. /\ item # Nothing /\ item = head.status
      /\ head.revision >= f.revision \/ CarriesHead(f)
      /\ head.revision > f.revision \/ ~TargetRefuses(f)
  BY <1>1, Attested DEF CallbackReady
<1>4. f.revision = review.revision /\ observed.number = f.number
  BY <1>1, <1>2, CurrentReading DEF InScope
<1>5. /\ head.revision \in Nat /\ head.revision <= review.revision
      /\ item \in {"open", "closed"} /\ Inbox.head = head /\ Inbox.cycles = cycles
      /\ cycles \in Seq(CycleType) /\ cycles # <<>>
  BY <1>3, Fields DEF HeadType, Inbox
<1>6. InboxSound(Inbox, handled', revisions) /\ InboxSound(Inbox, handled, revisions)
  BY <1>1, <1>3, ReceiptSound DEF IInv, InboxAgrees
<1>7. /\ InboxSound(carried, handled', revisions) /\ carried.cycles = cycles
      /\ carried.head.revision = f.revision /\ carried.head.status = item
  <2>1. CASE head.revision < f.revision
    <3>1. f.revision = head.revision + 1 /\ revisions[Inbox.head.revision + 1].carry
      BY <2>1, <1>2, <1>3, <1>5 DEF CarriesHead
    <3> QED BY <2>1, <3>1, <1>3, <1>5, <1>6, CarryHeadSound
  <2>2. CASE ~(head.revision < f.revision)
    BY <2>2, <1>2, <1>3, <1>4, <1>5, <1>6
  <2> QED BY <2>1, <2>2
<1>8. DOMAIN carried.cycles = DOMAIN cycles
      /\ Newest(carried) = cycles[Len(cycles)] /\ cycles[Len(cycles)].after \in Nat
  <2>1. Newest(carried) \in CycleType
    BY <1>7, SoundCycles
  <2> QED BY <1>7, <2>1 DEF Newest, CycleType
<1>9. ~(head.revision > f.revision) /\ f.revision >= head.revision
  BY <1>2, <1>4, <1>5
<1>10. Write(CASE f.says = "answered" /\ item = "open" ->
                    CloseCycle(carried, "answered", f.number)
               [] f.says = "deleted" /\ item = "closed" /\ permit.state = "active" ->
                    OpenNext(carried, f.revision, "provider_reply_deleted", f.number)
               [] OTHER -> carried)
  BY <1>9 DEF ApplyReplyObserved
<1> HIDE DEF carried
\* A callback that leaves the head at the reading's revision commits.
<1>11. ASSUME NEW new, InboxSound(new, handled', revisions), Write(new),
              new.head.revision = f.revision,
              new.head.status = "closed" \/ item = "open" \/ review.state = "active",
              AnswerDelivered'
       PROVE  IInv'
  <2>1. /\ Inbox' = new /\ head' = new.head /\ item' = head'.status /\ item' # Nothing
    BY <1>11, Written
  <2>2. InboxSound(Inbox', handled', revisions)
    BY <1>11, <2>1
  <2>3. /\ head'.revision <= review.revision /\ head'.revision >= head.revision
    BY <1>2, <1>4, <1>9, <1>11, <2>1
  <2>4. item = "closed" /\ review.state # "active" => item' = "closed"
    BY <1>11, <2>1
  <2>5. f.kind \notin {"created", "updated", "transitioned"}
    BY <1>1
  <2> QED BY <1>1, <1>11, <2>1, <2>2, <2>3, <2>4, <2>5, AppliedStep
\* Any other reading that is current would be this one.
<1>12. ASSUME head'.revision = f.revision, item' # Nothing,
              f.says = "answered" => item' = "closed"
       PROVE  AnswerDelivered'
  <2> SUFFICES ASSUME NEW g \in handled', g.kind = "observed", g.says = "answered",
                      ExactCurrent(g)
               PROVE  head'.revision >= g.revision /\ item' = "closed"
    <3>1. \A g : ExactCurrent(g)' <=> ExactCurrent(g)
      BY <1>1 DEF ExactCurrent, TransitionCurrent, InScope
    <3> QED BY <3>1, <1>12 DEF AnswerDelivered
  <2>1. g \in facts /\ g.number = f.number
    BY <1>1, <1>2, <1>4, CurrentReading
  <2>2. g = f
    BY <2>1, <1>1, <1>2 DEF IInv, OneFactPerReading
  <2> QED BY <2>2, <1>2, <1>12
<1>13. CASE f.says = "answered" /\ item = "open"
  <2> DEFINE new == CloseCycle(carried, "answered", f.number)
  <2>1. Write(new)
    BY <1>10, <1>13
  <2>2. Measured => f.number > Newest(carried).after
    BY <1>2, <1>3, <1>8, <1>9, <1>13 DEF TargetRefuses
  <2>3. \A i \in DOMAIN carried.cycles : carried.cycles[i].by # f.number
    <3> SUFFICES ASSUME NEW i \in DOMAIN cycles, cycles[i].by = f.number PROVE FALSE
      BY <1>7, <1>8
    <3>1. AnsweredWell(cycles[i], handled, revisions)
      BY <1>5, <1>6 DEF InboxSound
    <3>2. PICK g \in handled : g.kind = "observed" /\ g.number = f.number
      BY <3>1, <1>2 DEF AnsweredWell
    <3>3. g = f
      BY <3>2, <1>1, <1>2 DEF IInv, OneFactPerReading
    <3> QED BY <3>2, <3>3, <1>2
  <2>4. \E g \in handled' :
          /\ g.kind = "observed" /\ g.number = f.number /\ g.says = "answered"
          /\ g.revision = carried.head.revision
    BY <1>1, <1>7, <1>13
  <2>5. /\ InboxSound(new, handled', revisions) /\ new.head.revision = f.revision
        /\ new.head.status = "closed"
    <3>1. f.number \in Nat /\ carried.head.status = "open"
      BY <1>2, <1>7, <1>13
    <3>2. InboxSound(carried, handled', revisions) /\ carried.head.revision = f.revision
      BY <1>7
    <3> HIDE DEF f
    <3> QED BY <3>1, <3>2, <2>2, <2>3, <2>4, CloseCycleSound
  <2> HIDE DEF new
  <2>6. /\ Inbox' = new /\ head' = new.head /\ item' = head'.status /\ item' # Nothing
    BY <2>1, <2>5, Written
  <2>7. AnswerDelivered'
    BY <2>5, <2>6, <1>12
  <2> QED BY <2>1, <2>5, <2>7, <1>13, <1>11
<1>14. CASE f.says = "deleted" /\ item = "closed" /\ permit.state = "active"
  <2> DEFINE new == OpenNext(carried, f.revision, "provider_reply_deleted", f.number)
  <2>1. Write(new)
    BY <1>10, <1>14
  <2>2. DatedWell(Cycle(f.revision, "provider_reply_deleted", f.number), handled')
    <3>1. f \in handled'
      BY <1>1
    <3> QED BY <3>1, <1>1, <1>14 DEF DatedWell, Cycle, FromReview
  <2>3. "provider_reply_deleted" \in Openings /\ "provider_reply_deleted" \notin FromReview
    BY DEF Openings, FromReview
  <2>4. /\ InboxSound(new, handled', revisions) /\ new.head.revision = f.revision
    BY <2>2, <2>3, <1>2, <1>7, OpenNextSound
  <2> HIDE DEF new
  <2>5. /\ Inbox' = new /\ head' = new.head /\ item' = head'.status /\ item' # Nothing
    BY <2>1, <2>4, Written
  <2>6. AnswerDelivered'
    BY <2>4, <2>5, <1>12, <1>14
  <2>7. review.state = "active"
    BY <1>2, <1>14
  <2> QED BY <2>1, <2>4, <2>6, <2>7, <1>11
<1>15. CASE /\ ~(f.says = "answered" /\ item = "open")
            /\ ~(f.says = "deleted" /\ item = "closed" /\ permit.state = "active")
  <2>1. Write(carried)
    BY <1>10, <1>15
  <2>2. /\ Inbox' = carried /\ head' = carried.head /\ item' = head'.status /\ item' # Nothing
    BY <2>1, <1>7, Written
  <2>3. AnswerDelivered'
    BY <2>2, <1>5, <1>7, <1>12, <1>15
  <2> QED BY <2>1, <2>3, <1>5, <1>7, <1>11
<1> QED BY <1>13, <1>14, <1>15

LEMMA ReopenReviewCycleStep ==
  ASSUME IInv, ReopenReviewCycle
  PROVE  IInv'
<1> USE DEF reviewVars, replyVars
<1> DEFINE after == IF observed = Nothing THEN 0 ELSE observed.number
<1> DEFINE new == OpenNext(Inbox, head.revision, "manual_reopen", after)
<1>1. /\ item = "closed" /\ review.state = "active" /\ permit = Nothing /\ permit' = Nothing
      /\ page' = Nothing /\ Write(new)
      /\ UNCHANGED <<epoch, review, revisions, shown, attempt, observed, facts, handled>>
  BY DEF ReopenReviewCycle, Unlocked
<1>2. /\ item # Nothing /\ item = head.status /\ review # Nothing
      /\ head.revision \in Nat /\ head.revision <= review.revision
      /\ Inbox.head = head /\ after \in Nat /\ handled \subseteq facts
  BY <1>1, CyclesAssumption, Fields DEF Inbox
<1> HIDE DEF after
<1>3. InboxSound(Inbox, handled, revisions)
  BY <1>2 DEF IInv, InboxAgrees
<1>4. DatedWell(Cycle(head.revision, "manual_reopen", after), handled)
      /\ "manual_reopen" \in Openings /\ "manual_reopen" \notin FromReview
  BY DEF DatedWell, Cycle, FromReview, Openings
<1>5. /\ InboxSound(new, handled, revisions) /\ new.head.revision = head.revision
      /\ new.cycles[Len(new.cycles)] = Cycle(head.revision, "manual_reopen", after)
  BY <1>2, <1>3, <1>4, OpenNextSound
<1> HIDE DEF new
<1>6. /\ Inbox' = new /\ head' = new.head /\ cycles' = new.cycles
      /\ item' = head'.status /\ item' # Nothing
  BY <1>1, <1>5, Written
<1>7. \A g : ExactCurrent(g)' <=> ExactCurrent(g)
  BY <1>1 DEF ExactCurrent, TransitionCurrent, InScope
<1>8. RevisionsDelivered'
  BY <1>1, <1>2, <1>5, <1>6 DEF IInv, RevisionsDelivered
<1>9. ErasureDelivered'
  <2> SUFFICES ASSUME NEW g \in handled, g.kind = "transitioned", ExactCurrent(g)
               PROVE  FALSE
    BY <1>1, <1>7 DEF ErasureDelivered
  <2>1. g.says = "active"
    BY <1>1, CurrentTransition
  <2> QED BY <2>1, <1>2 DEF IInv, FactsLag
<1>10. AnswerDelivered'
  <2> SUFFICES ASSUME NEW g \in handled, g.kind = "observed", g.says = "answered",
                      ExactCurrent(g)
               PROVE  head'.revision >= g.revision /\ ReopenedAfter(g.number)'
    BY <1>1, <1>6, <1>7 DEF AnswerDelivered
  <2>1. head.revision >= g.revision
    BY DEF IInv, AnswerDelivered
  <2>2. after = g.number /\ g.number \in Nat
    BY <1>2, CurrentReading, Fields DEF InScope, after
  <2>3. cycles' # <<>>
    BY <1>5, <1>6, SoundCycles
  <2>4. cycles'[Len(cycles')] = Cycle(head.revision, "manual_reopen", after)
    BY <1>5, <1>6
  <2> QED BY <2>1, <2>2, <2>3, <2>4, <1>5, <1>6 DEF ReopenedAfter, Cycle
<1> QED BY <1>1, <1>2, <1>5, <1>6, <1>8, <1>9, <1>10, InboxWritten

-----------------------------------------------------------------------------
(* The theorems. *)

LEMMA NextIInv == IInv /\ [Next]_vars => IInv'
<1> SUFFICES ASSUME IInv, [Next]_vars PROVE IInv'
  OBVIOUS
<1>1. CASE Review
  BY <1>1, FirstSightingStep, AdvanceEpochStep, ObserveStep, ReobserveOverdueStep,
     EraseSourceStep, RepairErasureStep DEF Review
<1>2. CASE Google
  BY <1>2, GoogleShowsStep, StartAttemptStep, ReadStep DEF Google
<1>3. CASE Deliver
  BY <1>3, PermitStep, ObsoleteStep, ApplyProjectionStep, ApplySourceTransitionedStep,
     ApplyReplyObservedStep DEF Deliver, Apply
<1>4. CASE Manager
  BY <1>4, PrepareReopenStep, ReopenReviewCycleStep, AbandonReopenStep DEF Manager
<1>5. CASE UNCHANGED vars
  <2>1. CyclesTypeOK'
    BY <1>5 DEF vars, IInv, CyclesTypeOK, reviewVars, replyVars, inboxVars
  <2> QED BY <1>5, <2>1, OtherVariables DEF vars, replyVars
<1> QED BY <1>1, <1>2, <1>3, <1>4, <1>5 DEF Next

LEMMA SpecIInv == Spec => []IInv
BY InitIInv, NextIInv, PTL DEF Spec

\* The rows of Review and of the Inbox keep their types, however facts, epochs,
\* erasures and reopens interleave.
THEOREM CyclesTyped == Spec => []CyclesTypeOK
<1>1. IInv => CyclesTypeOK
  BY DEF IInv
<1> QED BY <1>1, SpecIInv, PTL

\* The collapsed catch-up, in any order of the facts, leaves one cycle for every
\* material revision it passed and none for a carry.
THEOREM OneCycleEach == Spec => []OneCyclePerMaterialRevision
<1>1. IInv => OneCyclePerMaterialRevision
  <2> SUFFICES ASSUME IInv, item # Nothing,
                      NEW r \in 1..head.revision
               PROVE  Cardinality(ProviderCycles(r)) = IF revisions[r].carry THEN 0 ELSE 1
    BY Fields DEF OneCyclePerMaterialRevision
  <2>1. ProviderCycles(r) = OpenedFor(cycles, r)
    BY DEF ProviderCycles, OpenedFor, FromReview
  <2>2. EachRevisionOnce(Inbox, revisions) /\ Inbox.cycles = cycles /\ Inbox.head = head
    BY DEF IInv, InboxAgrees, InboxSound, Inbox
  <2>3. CASE revisions[r].carry
    BY <2>1, <2>2, <2>3, FS_EmptySet DEF EachRevisionOnce
  <2>4. CASE ~revisions[r].carry
    BY <2>1, <2>2, <2>4, FS_Singleton DEF EachRevisionOnce
  <2> QED BY <2>3, <2>4
<1> QED BY <1>1, SpecIInv, PTL

\* No late, repeated or reordered reading answers a cycle it is not about, nor two.
THEOREM AnsweredByItsOwn == Spec => []AnsweredByItsOwnReading
<1>1. IInv => AnsweredByItsOwnReading
  <2> SUFFICES ASSUME IInv, NEW i \in DOMAIN cycles, cycles[i].closed = "answered"
               PROVE  /\ \E f \in facts :
                           /\ f.kind = "observed" /\ f.number = cycles[i].by
                           /\ f.says = "answered" /\ f.revision >= cycles[i].revision
                           /\ \A r \in cycles[i].revision + 1 .. f.revision :
                                revisions[r].carry
                      /\ \A j \in DOMAIN cycles \ {i} : cycles[j].by # cycles[i].by
    BY DEF AnsweredByItsOwnReading
  <2>1. InboxSound(Inbox, handled, revisions) /\ Inbox.cycles = cycles
    BY DEF IInv, InboxAgrees, Inbox
  <2>2. AnsweredWell(cycles[i], handled, revisions) /\ NoReadingTwice(cycles)
    BY <2>1 DEF InboxSound
  <2>3. PICK f \in handled : /\ f.kind = "observed" /\ f.number = cycles[i].by
                             /\ f.says = "answered" /\ f.revision >= cycles[i].revision
                             /\ OnlyCarries(revisions, cycles[i].revision, f.revision)
    BY <2>2 DEF AnsweredWell
  <2>4. f \in facts /\ cycles[i].by # 0
    BY <2>3, Fields DEF IInv, FactsLag
  <2> QED BY <2>2, <2>3, <2>4 DEF NoReadingTwice, OnlyCarries
<1> QED BY <1>1, SpecIInv, PTL

\* With a measured Response Target a reading made before a manager's reopen and
\* delivered after it leaves the reopened work open.
THEOREM ReopenOutlives == Spec => []ReopenOutlivesOldReading
<1>1. IInv => ReopenOutlivesOldReading
  <2> SUFFICES ASSUME IInv, Measured, NEW i \in DOMAIN cycles,
                      cycles[i].closed = "answered"
               PROVE  cycles[i].by > cycles[i].after
    BY DEF ReopenOutlivesOldReading
  <2>1. AnsweredWell(cycles[i], handled, revisions)
    BY DEF IInv, InboxAgrees, InboxSound, Inbox
  <2> QED BY <2>1 DEF AnsweredWell
<1> QED BY <1>1, SpecIInv, PTL

\* When nothing can be delivered any more the Inbox stands at Review's revision.
LEMMA CaughtUp ==
  ASSUME IInv, Delivered, review # Nothing, ~SourceMovedOn
  PROVE  item # Nothing /\ head.revision = review.revision
<1>1. PICK f \in facts : /\ f.kind \in {"created", "updated"}
                         /\ f.epoch = review.epoch /\ f.revision = review.revision
  BY DEF IInv, RevisionTold
<1>2. review.epoch = epoch /\ review.revision \in Nat
  BY Fields DEF SourceMovedOn, IInv, SourceAgrees
<1>3. item # Nothing => head.revision <= review.revision /\ head.revision \in Nat
  BY Fields
<1>4. f \in handled
  <2> SUFFICES ASSUME f \notin handled PROVE FALSE
    OBVIOUS
  <2>1. ~CallbackReady(f)
    BY DEF Delivered
  <2> QED BY <2>1, <1>1, <1>3 DEF CallbackReady
<1>5. item # Nothing /\ head.revision >= review.revision
  BY <1>1, <1>2, <1>4 DEF IInv, RevisionsDelivered
<1> QED BY <1>2, <1>3, <1>5

\* No order of facts, epochs and erasures leaves the Inbox behind Review for good.
THEOREM CatchesUp == Spec => []InboxCatchesUp
<1>1. IInv => InboxCatchesUp
  BY CaughtUp DEF InboxCatchesUp
<1> QED BY <1>1, SpecIInv, PTL

\* No order leaves work open over erased content, unless the erasure was
\* repeated since its fact was written.
THEOREM ErasureCloses == Spec => []ErasedSourceCloses
<1>1. IInv => ErasedSourceCloses
  <2> SUFFICES ASSUME IInv, Delivered, review # Nothing, review.state # "active",
                      ~SourceMovedOn, ~review.erasedAgain
               PROVE  item = "closed"
    BY DEF ErasedSourceCloses, ContentGone
  <2> DEFINE f == SourceFact("transitioned", review)
  <2>1. review.epoch = epoch
    BY Fields DEF SourceMovedOn, IInv, SourceAgrees
  <2>2. f \in facts
    BY <2>1 DEF IInv, ErasureTold
  <2>3. f.kind = "transitioned" /\ ExactCurrent(f)
    BY <2>1 DEF SourceFact, ExactCurrent, TransitionCurrent
  <2> HIDE DEF f
  <2>4. f \in handled
    <3> SUFFICES ASSUME f \notin handled PROVE FALSE
      OBVIOUS
    <3>1. ~CallbackReady(f)
      BY <2>2 DEF Delivered
    <3> QED BY <3>1, <2>3, CaughtUp DEF CallbackReady
  <2> QED BY <2>3, <2>4 DEF IInv, ErasureDelivered
<1> QED BY <1>1, SpecIInv, PTL

\* No order leaves work open over a review that was seen answered.
THEOREM AnswerCloses == Spec => []AnsweredReviewCloses
<1>1. IInv => AnsweredReviewCloses
  <2> SUFFICES ASSUME IInv, Delivered, AnsweredByHead, ~SourceMovedOn, ~ReopenedSince
               PROVE  item = "closed"
    BY DEF AnsweredReviewCloses
  <2> DEFINE f == ReplyFact(observed, "answered")
  <2>1. /\ review # Nothing /\ f \in facts /\ InScope(observed, review)
        /\ observed # Nothing /\ observed.number \in Nat
    BY Fields DEF AnsweredByHead, InScope
  <2>2. /\ f.kind = "observed" /\ f.says = "answered" /\ f.number = observed.number
        /\ f.epoch = observed.epoch /\ f.revision = observed.revision
    BY DEF ReplyFact
  <2>3. f # Nothing
    BY <2>1, NothingIsNoRecord DEF IInv, CyclesTypeOK
  <2> HIDE DEF f
  <2>4. ExactCurrent(f) /\ f.revision = review.revision
    BY <2>1, <2>2, <2>3, CurrentReading DEF InScope
  <2>5. item # Nothing /\ head.revision = review.revision /\ item = head.status
        /\ item \in {"open", "closed"} /\ cycles \in Seq(CycleType) /\ cycles # <<>>
        /\ head.revision \in Nat
    BY <2>1, CaughtUp, Fields DEF HeadType
  <2>6. 1 <= f.number
    BY <2>1, <2>2 DEF IInv, FactsLag
  <2>7. ~ReopenedAfter(f.number)
    BY <2>2 DEF ReopenedSince, ReopenedAfter
  <2>8. CASE f \in handled
    BY <2>2, <2>4, <2>7, <2>8 DEF IInv, AnswerDelivered
  <2>9. CASE f \notin handled
    <3> DEFINE c == cycles[Len(cycles)]
    <3>1. c \in CycleType /\ c.after \in Nat /\ DatedWell(c, handled)
      <4>1. Len(cycles) \in DOMAIN cycles /\ c \in CycleType
        BY <2>5
      <4>2. InboxSound(Inbox, handled, revisions) /\ Inbox.cycles = cycles
        BY <2>5 DEF IInv, InboxAgrees, Inbox
      <4> QED BY <4>1, <4>2 DEF InboxSound, CycleType
    <3>2. c.after < f.number
      <4>1. CASE c.opened = "manual_reopen"
        BY <4>1, <3>1, <2>1, <2>2, <2>5, <2>7 DEF ReopenedAfter
      <4>2. CASE c.opened = "provider_reply_deleted"
        <5>1. PICK g \in handled : /\ g.kind = "observed" /\ g.says = "deleted"
                                   /\ g.number = c.after
          BY <4>2, <3>1 DEF DatedWell
        <5>2. g \in facts /\ g.number <= f.number /\ g # f
          BY <5>1, <2>1, <2>2, Fields DEF IInv, FactsLag
        <5>3. g.number # f.number
          BY <5>1, <5>2, <2>1, <2>2 DEF IInv, OneFactPerReading
        <5> QED BY <5>1, <5>2, <5>3, <3>1, <2>1, <2>2
      <4>3. CASE c.opened \in FromReview
        BY <4>3, <3>1, <2>1, <2>2, <2>6 DEF DatedWell
      <4> QED BY <4>1, <4>2, <4>3, <3>1 DEF CycleType, FromReview
    <3>3. ~TargetRefuses(f)
      BY <3>1, <3>2, <2>1, <2>2 DEF TargetRefuses
    <3>4. CallbackReady(f)
      BY <3>3, <2>2, <2>4, <2>5 DEF CallbackReady
    <3> QED BY <3>4, <2>1, <2>9 DEF Delivered
  <2> QED BY <2>8, <2>9
<1> QED BY <1>1, SpecIInv, PTL

\* Work is opened only while Review attests that its content is there.
THEOREM OpensOverLiveSource == Spec => OpenWorkNeedsLiveSource
<1>1. IInv /\ [Next]_vars => [item' = "open" /\ item # "open" => review.state = "active"]_vars
  <2> SUFFICES ASSUME IInv, Next, item' = "open", item # "open"
               PROVE  review.state = "active"
    OBVIOUS
  <2>1. item' # item
    OBVIOUS
  <2>2. CASE ReopenReviewCycle
    BY <2>2 DEF ReopenReviewCycle
  <2>3. CASE Apply
    <3>1. permit # Nothing /\ permit.state = review.state
      BY <2>3, Attested DEF Apply, ApplyProjection, ApplySourceTransitioned,
                            ApplyReplyObserved, Applies
    <3>2. CASE ApplyProjection
      <4> DEFINE caught == CatchUp(IF item = Nothing THEN NewInbox ELSE Inbox, permit.revision)
      <4>1. item' = CloseIfErased(caught).head.status
        BY <3>2 DEF ApplyProjection, Write
      <4>2. caught \in InboxType /\ caught.cycles # <<>>
        BY <3>2, ProjectionCatchesUp, SoundCycles
      <4> HIDE DEF caught
      <4>3. CloseCycle(caught, "source_ineligible", 0).head.status = "closed"
        BY <4>2, CloseCycleInbox DEF Closings
      <4> QED BY <4>1, <4>3, <3>1 DEF CloseIfErased
    <3>3. CASE ApplySourceTransitioned
      <4>1. Inbox \in InboxType /\ Inbox.cycles # <<>>
        BY <3>3, Attested, Fields DEF ApplySourceTransitioned, Applies, CallbackReady, Inbox
      <4>2. CloseCycle(Inbox, "source_ineligible", 0).head.status = "closed"
        BY <4>1, CloseCycleInbox DEF Closings
      <4> QED BY <2>1, <3>3, <4>2 DEF ApplySourceTransitioned, Write, inboxVars
    <3>4. CASE ApplyReplyObserved
      <4> SUFFICES ASSUME permit.state # "active" PROVE FALSE
        BY <3>1
      <4>1. item # Nothing /\ item = head.status
        BY <3>1, <3>4, Attested DEF ApplyReplyObserved, Applies, CallbackReady
      <4>2. CarryHead(Inbox).head.status = item /\ Inbox.head.status = item
        <5>1. Inbox \in InboxType /\ Inbox.head = head
          BY <4>1, Fields DEF Inbox
        <5> QED BY <5>1, <4>1, CarryHeadInbox
      <4>3. item # "open" /\ item' # item
        BY <2>1
      <4> QED BY <3>4, <4>2, <4>3 DEF ApplyReplyObserved, Write, inboxVars
    <3> QED BY <2>3, <3>2, <3>3, <3>4 DEF Apply
  <2>4. CASE Review
    BY <2>1, <2>4 DEF Review, FirstSighting, AdvanceEpoch, ObserveChange, Reobserve,
                      ReobserveOverdue, EraseSource, RepairErasure, inboxVars
  <2>5. CASE Google
    BY <2>1, <2>5 DEF Google, GoogleShows, StartAttempt, SnapshotRead, TargetedRead, inboxVars
  <2>6. CASE \E f \in facts : Permit(f) \/ Obsolete(f)
    BY <2>1, <2>6 DEF Permit, Obsolete, inboxVars
  <2>7. CASE PrepareReopen \/ AbandonReopen
    BY <2>1, <2>7 DEF PrepareReopen, AbandonReopen, inboxVars
  <2> QED BY <2>2, <2>3, <2>4, <2>5, <2>6, <2>7 DEF Next, Deliver, Manager
<1> QED BY <1>1, SpecIInv, PTL DEF Spec, OpenWorkNeedsLiveSource
=============================================================================
