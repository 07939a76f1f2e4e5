-------------------------- MODULE ReplyPublication --------------------------
(***************************************************************************)
(* The publication of one manager's Reply to one Google review.            *)
(*                                                                         *)
(* The write to Google is an upsert without a precondition and its answer  *)
(* can be lost, so the code keeps evidence instead: an authorization per   *)
(* cycle, an attempt per claim, a permit per request, and observations of  *)
(* what Google shows.  Five kinds of process race over these rows: publish *)
(* workers (two may run one stalled job), the reconciliation sweep, a      *)
(* manager's "Check Google again", the review sync, and the manager.       *)
(*                                                                         *)
(* Texts are members of small sets: Drafts are written in RepKey, Foreign  *)
(* are typed on Google.  Head revisions and read generations are kept as   *)
(* what is compared: whether the head moved since the authorization, and   *)
(* whether a newer read was recorded before this one.                      *)
(***************************************************************************)
EXTENDS Integers, FiniteSets

CONSTANTS Workers,     \* executions of the publish job that may overlap
          Sweeps,      \* the leased reconciliation sweep (at most one)
          Checks,      \* managers pressing "Check Google again"
          Syncs,       \* readers of the review sync
          Drafts, Foreign, Absent, NoProc,
          MaxCycle,    \* bound: publication cycles
          MaxRuns,     \* MAX_PUBLISH_ATTEMPTS: executions of one job (five)
          MaxOutside,  \* bound: replies typed or deleted on Google
          MaxEdits,    \* bound: guest edits of the review
          GraceReads   \* PROVIDER_OBSERVATION_PROPAGATION_GRACE_MAX_READS

Procs == Workers \cup Sweeps \cup Checks \cup Syncs
Texts == Drafts \cup Foreign \cup {Absent}
Attempts == (1..MaxCycle) \X (1..MaxRuns)

ASSUME PublicationConstants ==
  /\ MaxCycle \in Nat \ {0} /\ MaxRuns \in Nat \ {0} /\ GraceReads \in Nat
  /\ MaxOutside \in Nat /\ MaxEdits \in Nat
  /\ Absent \notin Drafts \cup Foreign /\ Drafts \cap Foreign = {}
  /\ NoProc \notin Procs /\ Drafts # {}
  /\ Workers \cap (Sweeps \cup Checks \cup Syncs) = {}

VARIABLES
  reply,       \* the Reply row
  outcome,     \* outcome of each attempt row, "none" while there is none
  call,        \* what became of each attempt's one provider request
  wrote,       \* text named by each cycle's authorization
  fence,       \* the current authorization against the present
  head,        \* the observation head of the review
  absentReads, \* absent targeted reads recorded in this cycle
  age,         \* age class of the current attempt while it is open
  job,         \* the publish job of the current cycle
  google,      \* what Google holds, shows, and how often outsiders changed it
  edits,       \* guest edits seen
  proc,        \* local state of each process
  gens         \* pairs of readers with unrecorded generations, the older first

vars == <<reply, outcome, call, wrote, fence, head, absentReads, age, job,
          google, edits, proc, gens>>
local == <<proc, gens>>

\* The two age limits of an attempt, in classes: 1 once dispatch evidence may
\* be asked, 2 once the fifteen-minute grace is over, 3 at the ladder's end.
EvidenceAge == 1
GraceAge == 2
LadderAge == 3

Statuses == {"draft", "pending_approval", "rejected", "approved",
             "publish_failed", "published"}
States == {"null", "authorized", "sending", "pending_observation",
           "published", "terminal", "ambiguous", "cancelled"}
Outcomes == {"none", "sending", "provider_outcome_pending", "ambiguous",
             "retryable_failure", "terminal_rejection", "confirmed", "superseded"}
Errors == {"none", "retryable", "terminal_rejection", "ambiguous"}
Calls == {"none", "admitted", "started", "flying", "landed", "refused"}
Replies == [status : Statuses, state : States, error : Errors,
            cycle : 0..MaxCycle, tries : 0..MaxRuns, text : Drafts]
Verdicts == {"none", "accepted", "retryable", "terminal_rejection", "ambiguous",
             "confirmed", "absent", "earlier", "external", "unchanged", "failed", "missing"}
Steps == {"idle", "read", "fetched", "record", "reload", "claim", "moved", "call",
          "wait", "verdict", "evidence", "settle", "weigh", "lapse"}

ReadSteps == {"evidence", "settle", "read", "fetched", "record"}

\* A process holds the Reply row it read, its job's run, what Google showed it,
\* the attempt its read names, and whether its read is still current.
NoRow == [status |-> "draft", state |-> "null", error |-> "none",
          cycle |-> 0, tries |-> 0, text |-> Absent]
Idle == [pc |-> "idle", snap |-> NoRow, run |-> 0, seen |-> Absent,
         target |-> <<0, 0>>, got |-> "none", fresh |-> TRUE, late |-> FALSE]

Jobs == [made : 0..(MaxRuns - 1), open : BOOLEAN, holder : Procs \cup {NoProc},
         used : SUBSET (1..MaxRuns)]
Rows == Replies \cup {NoRow}
Runs == 0..MaxRuns
Targets == (0..MaxCycle) \X (0..MaxRuns)
ProcStates == [pc : Steps, snap : Rows, run : Runs, seen : Texts, target : Targets,
               got : Verdicts, fresh : BOOLEAN, late : BOOLEAN]

TypeOK ==
  /\ reply \in Replies
  /\ outcome \in [Attempts -> Outcomes] /\ call \in [Attempts -> Calls]
  /\ wrote \in [1..MaxCycle -> Drafts \cup {Absent}]
  /\ fence \in [over : Texts, moved : BOOLEAN, current : BOOLEAN]
  /\ head \in [text : Texts, scoped : BOOLEAN]
  /\ absentReads \in 0..(GraceReads + 1) /\ age \in 0..LadderAge
  /\ job \in Jobs
  /\ google \in [holds : Texts, shows : Texts, outside : 0..MaxOutside]
  /\ edits \in 0..MaxEdits
  /\ proc \in [Procs -> ProcStates]
  /\ gens \in SUBSET (Procs \X Procs)

\* A Reply waiting for approval on a review whose reply head is known.
Init ==
  /\ \E t \in Drafts : reply = [NoRow EXCEPT !.status = "pending_approval", !.text = t]
  /\ wrote = [c \in 1..MaxCycle |-> Absent]
  /\ outcome = [a \in Attempts |-> "none"] /\ call = [a \in Attempts |-> "none"]
  /\ fence = [over |-> Absent, moved |-> FALSE, current |-> FALSE]
  /\ head = [text |-> Absent, scoped |-> TRUE]
  /\ absentReads = 0 /\ age = 0
  /\ job = [made |-> 0, open |-> FALSE, holder |-> NoProc, used |-> {}]
  /\ google = [holds |-> Absent, shows |-> Absent, outside |-> 0]
  /\ edits = 0
  /\ proc = [p \in Procs |-> Idle] /\ gens = {}

-----------------------------------------------------------------------------
(* Rows and guarded writes *)

Attempt(r) == <<r.cycle, r.tries>>
IsOpen(o) == o \in {"sending", "provider_outcome_pending", "ambiguous"}
OpenAttempt(a) == a \in Attempts /\ IsOpen(outcome[a]) /\ fence.current

\* Nothing asks for the age of an attempt that is closed.
AgeWhileOpen == age' = IF OpenAttempt(Attempt(reply))' THEN age ELSE 0

SeemsUnknown(r) ==
  \/ r.status = "approved" /\ r.state = "sending"
  \/ /\ r.status = "publish_failed"
     /\ \/ r.state = "ambiguous"
        \/ r.state = "terminal" /\ r.error = "ambiguous"
InFlight(r) == r.state \in {"sending", "pending_observation", "ambiguous"}

\* Deviation of the next definition: only the cycle is compared.
CycleAsRead(p) == reply.cycle = proc[p].snap.cycle

\* Every publication write compares status, revision, cycle, state and attempt
\* count with the row its caller read.
StillAsRead(p) == reply = proc[p].snap

Cancelled(r) == [r EXCEPT !.status = "draft", !.state = "cancelled", !.error = "none"]
Terminal(r, e) == [r EXCEPT !.status = "publish_failed", !.state = "terminal", !.error = e]
Ambiguous(r) ==
  [r EXCEPT !.status = "publish_failed", !.state = "ambiguous", !.error = "ambiguous"]

\* The attempt row the Reply points at takes outcome o; a cycle nobody claimed
\* has no attempt.
Settle(o) == IF reply.tries = 0 THEN outcome
             ELSE [outcome EXCEPT ![Attempt(reply)] = o]
FailureOutcome(e) == IF e = "retryable" THEN "retryable_failure" ELSE e

MarkTerminal(p, e) ==
  IF StillAsRead(p) /\ reply.state \in {"authorized", "sending", "ambiguous"}
  THEN reply' = Terminal(reply, e) /\ outcome' = Settle(FailureOutcome(e))
  ELSE UNCHANGED <<reply, outcome>>

MarkAmbiguous(p) ==
  IF StillAsRead(p) /\ reply.state \in {"sending", "pending_observation"}
  THEN reply' = Ambiguous(reply) /\ outcome' = Settle("ambiguous")
  ELSE UNCHANGED <<reply, outcome>>

\* Deviation of the next definition: the attempt row is left open.
CancelReplyOnly(p) ==
  IF StillAsRead(p) /\ reply.state \in {"authorized", "sending", "pending_observation"}
  THEN reply' = Cancelled(reply) /\ UNCHANGED outcome
  ELSE UNCHANGED <<reply, outcome>>

CancelCycle(p) ==
  IF StillAsRead(p) /\ reply.state \in {"authorized", "sending", "pending_observation"}
  THEN reply' = Cancelled(reply) /\ outcome' = Settle("superseded")
  ELSE UNCHANGED <<reply, outcome>>

\* Deviation of the next definition: a last run asks for another.
EndJobPastBudget(w, threw) ==
  job' = IF job.holder # w THEN job
         ELSE IF threw THEN [job EXCEPT !.made = proc[w].run, !.holder = NoProc]
              ELSE [job EXCEPT !.open = FALSE, !.holder = NoProc]

\* BullMQ lets only the execution that holds the job's lock finish it.
EndJob(w, threw) ==
  job' = IF job.holder # w THEN job
         ELSE IF threw /\ proc[w].run < MaxRuns
              THEN [job EXCEPT !.made = proc[w].run, !.holder = NoProc]
              ELSE [job EXCEPT !.open = FALSE, !.holder = NoProc]

Goto(p, pc) == proc' = [proc EXCEPT ![p].pc = pc] /\ UNCHANGED gens
Rest(p) == proc' = [proc EXCEPT ![p] = Idle] /\ UNCHANGED gens

\* The generations of these readers are recorded, overtaken or lost.
Release(readers) == gens' = {g \in gens : g[1] \notin readers /\ g[2] \notin readers}

-----------------------------------------------------------------------------
(* The manager *)

Quiet == UNCHANGED <<outcome, call, wrote, fence, head, absentReads, age, job,
                     google, edits, local>>
NoOpenCycle == reply.state \in {"null", "cancelled"}

SaveDraft(t) ==
  /\ reply.status \in {"draft", "rejected"} /\ NoOpenCycle
  /\ reply' = [reply EXCEPT !.status = "draft", !.text = t]
  /\ Quiet

SubmitReply ==
  /\ reply.status = "draft" /\ NoOpenCycle
  /\ reply' = [reply EXCEPT !.status = "pending_approval"]
  /\ Quiet

RejectReply ==
  /\ reply.status = "pending_approval" /\ NoOpenCycle
  /\ reply' = [reply EXCEPT !.status = "rejected"]
  /\ Quiet

\* A new cycle, against the head the manager saw: its row must be the current
\* head and name the current source.  The publish job of the cycle is queued.
Authorize(t) ==
  /\ reply.cycle < MaxCycle
  /\ head.scoped
  /\ reply' = [status |-> "approved", state |-> "authorized", error |-> "none",
               cycle |-> reply.cycle + 1, tries |-> 0, text |-> t]
  /\ wrote' = [wrote EXCEPT ![reply.cycle + 1] = t]
  /\ fence' = [over |-> head.text, moved |-> FALSE, current |-> TRUE]
  /\ job' = [made |-> 0, open |-> TRUE, holder |-> NoProc, used |-> {}]
  /\ absentReads' = 0 /\ age' = 0
  /\ UNCHANGED <<outcome, call, head, google, edits, local>>

ApproveReply ==
  /\ reply.status = "pending_approval" /\ NoOpenCycle
  /\ Authorize(reply.text)

\* Deviation of the next definition: an unknown outcome may be retried.
AnyFailure(r) == r.status = "publish_failed" /\ r.state = "terminal"

MayBeRetried(r) ==
  r.status = "publish_failed" /\ r.state = "terminal" /\ r.error # "ambiguous"

RetryPublication == MayBeRetried(reply) /\ Authorize(reply.text)

EditPublished(t) ==
  /\ reply.status = "published" /\ reply.state = "published"
  /\ t # reply.text
  /\ Authorize(t)

\* A disconnect or a policy ends a cycle that was not yet claimed.
CancelUndispatched ==
  /\ reply.status = "approved" /\ reply.state = "authorized"
  /\ reply' = Cancelled(reply) /\ outcome' = Settle("superseded")
  /\ UNCHANGED <<call, wrote, fence, head, absentReads, age, job, google, edits, local>>

-----------------------------------------------------------------------------
(* The publish job *)

\* The worker takes the job, or takes it over from a holder that stalled.  A
\* Reply that is neither authorized nor sending leaves it nothing to do.
StartJob(w) ==
  /\ proc[w].pc = "idle" /\ job.open
  /\ LET started == [Idle EXCEPT !.snap = reply, !.run = job.made + 1,
                                 !.target = Attempt(reply)]
         ready == reply.status = "approved" /\ fence.current
     IN IF ready /\ reply.state \in {"authorized", "sending"}
        THEN /\ proc' = [proc EXCEPT ![w] = [started EXCEPT
                    !.pc = IF reply.state = "sending" THEN "evidence" ELSE "read"]]
             /\ job' = [job EXCEPT !.holder = w]
        ELSE /\ job' = [job EXCEPT !.open = FALSE, !.holder = NoProc]
             /\ UNCHANGED proc
  /\ UNCHANGED <<reply, outcome, call, wrote, fence, head, absentReads, age,
                 google, edits, gens>>

ReadsBeforeClaim(p) == p \in Workers /\ proc[p].snap.state = "authorized"
ReadsBack(p) == p \in Workers /\ proc[p].snap.state = "sending"

\* A read before the claim proves nothing was written, so its failure is a
\* refusal or is tried again until the last execution.  A source that moved on
\* or a reply Google shows without its text cancels the cycle.
PrereadFails(w, class) ==
  /\ proc[w].pc = "read" /\ ReadsBeforeClaim(w)
  /\ \/ class = "terminal_rejection" /\ MarkTerminal(w, class) /\ EndJob(w, FALSE)
     \/ /\ class = "retryable" /\ EndJob(w, TRUE)
        /\ IF proc[w].run >= MaxRuns THEN MarkTerminal(w, class)
           ELSE UNCHANGED <<reply, outcome>>
     \/ class = "cancelled" /\ CancelCycle(w) /\ EndJob(w, FALSE)
  /\ Rest(w)
  /\ UNCHANGED <<call, wrote, fence, head, absentReads, age, google, edits>>

\* The row as it is after the recorded read, or the end of the job.
Reload(w) ==
  /\ proc[w].pc = "reload"
  /\ IF /\ reply.status = "approved" /\ reply.state = "authorized"
        /\ reply.cycle = proc[w].snap.cycle /\ reply.tries = proc[w].snap.tries
     THEN /\ proc' = [proc EXCEPT ![w].snap = reply, ![w].pc = "claim"]
          /\ UNCHANGED <<job, gens>>
     ELSE Rest(w) /\ EndJob(w, FALSE)
  /\ UNCHANGED <<reply, outcome, call, wrote, fence, head, absentReads, age, google, edits>>

\* Deviation of the next definition: the head may have moved.
ClaimableOverMovedHead(w) ==
  /\ StillAsRead(w) /\ reply.status = "approved" /\ reply.state = "authorized"
  /\ fence.current /\ head.scoped
  /\ wrote[reply.cycle] = reply.text
  /\ proc[w].run \notin job.used

\* The authorization still describes the text, the source and the head, the
\* operation key of this execution is unused, and the row is as it was read.
Claimable(w) ==
  /\ StillAsRead(w) /\ reply.status = "approved" /\ reply.state = "authorized"
  /\ fence.current /\ ~fence.moved /\ head.scoped
  /\ wrote[reply.cycle] = reply.text
  /\ proc[w].run \notin job.used

Claim(w) ==
  /\ proc[w].pc = "claim"
  /\ IF Claimable(w)
     THEN LET claimed == [reply EXCEPT !.state = "sending", !.tries = @ + 1]
          IN /\ reply' = claimed
             /\ outcome' = [outcome EXCEPT ![Attempt(claimed)] = "sending"]
             /\ job' = [job EXCEPT !.used = @ \cup {proc[w].run}]
             /\ age' = 0
             /\ proc' = [proc EXCEPT ![w].snap = claimed, ![w].pc = "call"]
             /\ UNCHANGED gens
     ELSE Goto(w, "moved") /\ UNCHANGED <<reply, outcome, job, age>>
  /\ UNCHANGED <<call, wrote, fence, head, absentReads, google, edits>>

\* The named manager lost authority or the Property left: the claim ends the
\* cycle instead of taking it.
ClaimRefused(w) ==
  /\ proc[w].pc = "claim" /\ reply.state = "authorized"
  /\ CancelCycle(w) /\ EndJob(w, FALSE) /\ Rest(w)
  /\ UNCHANGED <<call, wrote, fence, head, absentReads, age, google, edits>>

\* A refused claim of a cycle that was tried before ends it as provider truth
\* when the head is not the one that was authorized.
EndsAsProviderTruth(w) ==
  /\ proc[w].snap.tries > 0 /\ StillAsRead(w) /\ fence.moved

AfterLostClaim(w) ==
  /\ proc[w].pc = "moved"
  /\ IF EndsAsProviderTruth(w) THEN CancelCycle(w) ELSE UNCHANGED <<reply, outcome>>
  /\ EndJob(w, FALSE) /\ Rest(w)
  /\ UNCHANGED <<call, wrote, fence, head, absentReads, age, google, edits>>

\* What the permit issuer and the start predicate both require.
PermitCurrent(a) ==
  /\ outcome[a] = "sending"
  /\ reply.status = "approved" /\ reply.state = "sending" /\ Attempt(reply) = a
  /\ fence.current

\* The permit is inserted in the transaction that share-locks the attempt row.
AdmitPermit(w) ==
  LET a == Attempt(proc[w].snap)
  IN /\ proc[w].pc = "call" /\ call[a] = "none" /\ PermitCurrent(a)
     /\ call' = [call EXCEPT ![a] = "admitted"]
     /\ UNCHANGED <<reply, outcome, wrote, fence, head, absentReads, age, job,
                    google, edits, local>>

StartPermit(w) ==
  LET a == Attempt(proc[w].snap)
  IN /\ proc[w].pc = "call" /\ call[a] = "admitted" /\ PermitCurrent(a)
     /\ call' = [call EXCEPT ![a] = "started"]
     /\ UNCHANGED <<reply, outcome, wrote, fence, head, absentReads, age, job,
                    google, edits, local>>

SendReply(w) ==
  LET a == Attempt(proc[w].snap)
  IN /\ proc[w].pc = "call" /\ call[a] = "started"
     /\ call' = [call EXCEPT ![a] = "flying"]
     /\ Goto(w, "wait")
     /\ UNCHANGED <<reply, outcome, wrote, fence, head, absentReads, age, job,
                    google, edits>>

\* A call that ended before the request left: refused, denied, unavailable, or
\* without evidence of either.
NotSent(w, class) ==
  /\ proc[w].pc = "call"
  /\ proc' = [proc EXCEPT ![w].pc = "verdict", ![w].got = class]
  /\ UNCHANGED <<reply, outcome, call, wrote, fence, head, absentReads, age, job,
                 google, edits, gens>>

\* The authorizer refused the write because the Property's source moved on.
SourceRefused(w) ==
  /\ proc[w].pc = "call"
  /\ CancelCycle(w) /\ EndJob(w, FALSE) /\ Rest(w)
  /\ UNCHANGED <<call, wrote, fence, head, absentReads, google, edits>>
  /\ AgeWhileOpen

\* Google accepts only what it applied and refuses only what it did not; a
\* timeout or a 5xx says neither, and the request may still be applied.
GoogleAnswers(w, class) ==
  LET a == Attempt(proc[w].snap)
  IN /\ proc[w].pc = "wait"
     /\ \/ class = "accepted" /\ call[a] = "landed" /\ UNCHANGED call
        \/ /\ class \in {"retryable", "terminal_rejection"} /\ call[a] = "flying"
           /\ call' = [call EXCEPT ![a] = "refused"]
        \/ class = "ambiguous" /\ UNCHANGED call
     /\ proc' = [proc EXCEPT ![w].pc = "verdict", ![w].got = class]
     /\ UNCHANGED <<reply, outcome, wrote, fence, head, absentReads, age, job,
                    google, edits, gens>>

\* Deviation of the next definition: an unknown outcome is requeued.
NotKnownApplied(got) == got \in {"retryable", "ambiguous"}

\* Only a failure that proves the write was not applied is requeued.
ProvenNotApplied(got) == got = "retryable"

\* The worker records its call's verdict on the row it claimed.
RecordVerdict(w) ==
  LET got == proc[w].got
      final == proc[w].run >= MaxRuns
  IN /\ proc[w].pc = "verdict"
     /\ \/ /\ got = "accepted"
           /\ IF StillAsRead(w)
              THEN /\ reply' = [reply EXCEPT !.state = "pending_observation"]
                   /\ outcome' = Settle("provider_outcome_pending")
              ELSE UNCHANGED <<reply, outcome>>
           /\ EndJob(w, FALSE)
        \/ got = "terminal_rejection" /\ MarkTerminal(w, got) /\ EndJob(w, FALSE)
        \/ /\ ProvenNotApplied(got) /\ EndJob(w, TRUE)
           /\ IF final THEN MarkTerminal(w, "retryable")
              ELSE IF StillAsRead(w)
              THEN /\ reply' = [reply EXCEPT !.state = "authorized"]
                   /\ outcome' = Settle("retryable_failure")
              ELSE UNCHANGED <<reply, outcome>>
        \/ /\ got = "ambiguous" /\ ~ProvenNotApplied(got) /\ EndJob(w, TRUE)
           /\ IF final THEN MarkAmbiguous(w) ELSE UNCHANGED <<reply, outcome>>
     /\ Rest(w)
     /\ UNCHANGED <<call, wrote, fence, head, absentReads, google, edits>>
     /\ AgeWhileOpen

-----------------------------------------------------------------------------
(* Google *)

External == UNCHANGED <<reply, outcome, wrote, fence, head, absentReads, age, job,
                        edits, local>>

Land(a) ==
  /\ call[a] = "flying"
  /\ call' = [call EXCEPT ![a] = "landed"]
  /\ google' = [google EXCEPT !.holds = wrote[a[1]]]
  /\ External

Outsider(t) ==
  /\ google.outside < MaxOutside /\ t # google.holds
  /\ google' = [google EXCEPT !.holds = t, !.outside = @ + 1]
  /\ UNCHANGED call /\ External

\* Reads lag what Google accepted.
Echo ==
  /\ google.shows # google.holds
  /\ google' = [google EXCEPT !.shows = google.holds]
  /\ UNCHANGED call /\ External

-----------------------------------------------------------------------------
(* Readers: the sweep, Check Google again, the sync, and the publish job's   *)
(* two reads                                                                 *)

Targeted(p) == p \in Sweeps \cup Checks \/ ReadsBack(p)
Reconciliable(r) ==
  \/ r.status = "approved" /\ r.state \in {"sending", "pending_observation"}
  \/ r.status = "publish_failed" /\ r.state \in {"ambiguous", "terminal"}

\* The sweep takes an open row once it is due, which is left to time; a manager
\* asks about a Reply whose Google truth is open; the sync reads at any time.
Begin(p) ==
  /\ proc[p].pc = "idle"
  /\ \/ /\ p \in Sweeps /\ reply.state = "authorized"
        /\ proc' = [proc EXCEPT ![p] = [Idle EXCEPT !.snap = reply, !.pc = "lapse"]]
     \/ /\ p \in Checks \/ (p \in Sweeps /\ InFlight(reply))
        /\ SeemsUnknown(reply)
        /\ proc' = [proc EXCEPT ![p] = [Idle EXCEPT !.snap = reply, !.pc = "evidence"]]
     \/ /\ p \in Sweeps \cup Checks /\ reply.state = "pending_observation"
        /\ proc' = [proc EXCEPT ![p] = [Idle EXCEPT !.snap = reply, !.pc = "read"]]
     \/ /\ p \in Syncs
        /\ proc' = [proc EXCEPT ![p] = [Idle EXCEPT !.pc = "read"]]
  /\ UNCHANGED <<reply, outcome, call, wrote, fence, head, absentReads, age, job,
                 google, edits, gens>>

\* An authorized row past its deadline never began a write.
Lapse(p) ==
  /\ proc[p].pc = "lapse"
  /\ MarkTerminal(p, "retryable") /\ Rest(p)
  /\ UNCHANGED <<call, wrote, fence, head, absentReads, age, job, google, edits>>

\* No permit names the attempt once it is old enough to ask; an unavailable
\* lookup proves nothing and leads to the read.
AskEvidence(p) ==
  LET a == Attempt(proc[p].snap)
      waits == a = Attempt(reply) /\ OpenAttempt(a) /\ age < EvidenceAge
      proven == call[a] = "none" /\ ~waits
  IN /\ proc[p].pc = "evidence"
     /\ \/ proven /\ Goto(p, "settle")
        \/ Goto(p, "read")
     /\ UNCHANGED <<reply, outcome, call, wrote, fence, head, absentReads, age,
                    job, google, edits>>

\* Deviation of the next definition: the evidence is not asked again.
NotDispatchedWhenAsked(p) ==
  /\ StillAsRead(p) /\ SeemsUnknown(reply)
  /\ outcome[Attempt(proc[p].snap)] \in {"sending", "ambiguous"}

\* Under the locks of the Reply and the attempt the evidence is asked again.
NeverDispatched(p) ==
  LET a == Attempt(proc[p].snap)
  IN /\ StillAsRead(p) /\ SeemsUnknown(reply)
     /\ outcome[a] \in {"sending", "ambiguous"}
     /\ call[a] = "none"

SettleNeverDispatched(p) ==
  /\ proc[p].pc = "settle"
  /\ IF NeverDispatched(p)
     THEN reply' = Terminal(reply, "retryable") /\ outcome' = Settle("retryable_failure")
     ELSE UNCHANGED <<reply, outcome>>
  /\ IF p \in Checks /\ ~NeverDispatched(p) THEN Goto(p, "read") ELSE Rest(p)
  /\ IF p \in Workers THEN EndJob(p, FALSE) ELSE UNCHANGED job
  /\ UNCHANGED <<call, wrote, fence, head, absentReads, google, edits>>
  /\ AgeWhileOpen

\* What a reader goes on with after its read came to `got`: the row and the run.
Resumed(p, got) ==
  LET kept == [Idle EXCEPT !.snap = proc[p].snap, !.run = proc[p].run, !.got = got]
      weighs == \/ ReadsBack(p) /\ got \in {"absent", "earlier", "failed", "missing"}
                \/ p \in Sweeps /\ got # "confirmed"
  IN IF ReadsBeforeClaim(p) THEN [kept EXCEPT !.pc = "reload", !.got = "none"]
     ELSE IF weighs THEN [kept EXCEPT !.pc = "weigh"] ELSE Idle

\* A read that records nothing: it failed, Google showed a reply without its
\* text (weighed like an earlier publication), or Google has no such review.
ReadFails(p, got) ==
  /\ proc[p].pc = "read" /\ ~ReadsBeforeClaim(p)
  /\ proc' = [proc EXCEPT ![p] = Resumed(p, got)]
  /\ UNCHANGED <<reply, outcome, call, wrote, fence, head, absentReads, age, job,
                 google, edits, gens>>

\* The sweep and the manager's check load the Reply and its source again
\* before they read.
Fetch(p) ==
  /\ proc[p].pc = "read"
  /\ p \in Sweeps \cup Checks => Reconciliable(reply) /\ reply.tries > 0
  /\ proc' = [proc EXCEPT ![p].pc = "fetched", ![p].seen = google.shows,
                ![p].target = IF p \in Sweeps \cup Checks THEN Attempt(reply) ELSE @,
                ![p].fresh = @ \/ p \in Sweeps \cup Checks]
  /\ UNCHANGED <<reply, outcome, call, wrote, fence, head, absentReads, age, job,
                 google, edits, gens>>

\* Generations are allocated after the answer is in hand.
Allocate(p) ==
  /\ proc[p].pc = "fetched"
  /\ proc' = [proc EXCEPT ![p].pc = "record"]
  /\ gens' = gens \cup ({q \in Procs : proc[q].pc = "record" /\ ~proc[q].late} \X {p})
  /\ UNCHANGED <<reply, outcome, call, wrote, fence, head, absentReads, age, job,
                 google, edits>>

\* The text last confirmed for the Reply in an earlier cycle.
ConfirmedBefore(c) == {b \in 1..(c - 1) : \E n \in 1..MaxRuns : outcome[<<b, n>>] = "confirmed"}
LastConfirmed(c) == wrote[CHOOSE b \in ConfirmedBefore(c) : \A d \in ConfirmedBefore(c) : d <= b]

ShowsEarlierPublication(a, seen) ==
  /\ OpenAttempt(a)
  /\ ConfirmedBefore(a[1]) # {} /\ LastConfirmed(a[1]) = seen
  /\ head = [text |-> seen, scoped |-> TRUE]

\* The authority's decision on text `seen`, for attempt a.
Decision(a, seen) ==
  IF OpenAttempt(a) /\ seen = wrote[a[1]] THEN "confirmed"
  ELSE IF seen = Absent THEN "absent"
  ELSE IF ShowsEarlierPublication(a, seen) THEN "earlier"
  ELSE IF OpenAttempt(a) \/ head.text # seen THEN "external"
  ELSE "unchanged"

\* Only a snapshot that restates the head, and the earlier publication, leave
\* no row; a targeted read always does.
Persists(p, d) ==
  /\ d # "earlier"
  /\ \/ Targeted(p)
     \/ d \in {"confirmed", "external"}
     \/ head # [text |-> proc[p].seen, scoped |-> TRUE]

Overtaken(p) == {q \in Procs : <<q, p>> \in gens}

\* One transaction: the observation and its head, and the publication it closes.
RecordRead(p, a, d) ==
  /\ IF d = "confirmed"
     THEN /\ reply' = [reply EXCEPT !.status = "published", !.state = "published"]
          /\ outcome' = [outcome EXCEPT ![a] = "confirmed"]
     ELSE IF d = "external" /\ OpenAttempt(a)
     THEN /\ reply' = Cancelled(reply)
          /\ outcome' = [outcome EXCEPT ![a] = "superseded"]
     ELSE IF reply.state = "authorized" /\ reply.tries = 0
     THEN reply' = Cancelled(reply) /\ UNCHANGED outcome
     ELSE UNCHANGED <<reply, outcome>>
  /\ head' = [text |-> proc[p].seen, scoped |-> TRUE]
  /\ fence' = [fence EXCEPT !.moved = TRUE]
  /\ absentReads' = IF Targeted(p) /\ d = "absent" /\ absentReads <= GraceReads
                    THEN absentReads + 1 ELSE absentReads
  /\ Release({p} \cup Overtaken(p))
  /\ proc' = [q \in Procs |-> IF q = p THEN Resumed(p, d)
                              ELSE [proc[q] EXCEPT !.late = @ \/ q \in Overtaken(p)]]

\* An overtaken sync read ends in silence; a targeted read that was overtaken,
\* or no longer matches its source or its attempt, is refused.
Record(p) ==
  LET a == IF Targeted(p) THEN proc[p].target ELSE Attempt(reply)
      d == Decision(a, proc[p].seen)
      refused == \/ proc[p].late
                 \/ (Targeted(p) /\ (~proc[p].fresh \/ a # Attempt(reply)))
      next == IF refused THEN Resumed(p, "failed") ELSE Resumed(p, d)
  IN /\ proc[p].pc = "record"
     /\ IF ~refused /\ Persists(p, d)
        THEN RecordRead(p, a, d)
        ELSE /\ Release({p})
             /\ proc' = [proc EXCEPT ![p] = next]
             /\ UNCHANGED <<reply, outcome, head, fence, absentReads>>
     /\ IF p \in Workers /\ next = Idle THEN EndJob(p, FALSE) ELSE UNCHANGED job
     /\ UNCHANGED <<call, wrote, google, edits>>
     /\ AgeWhileOpen

\* Deviation of the next definition: the grace never ends.
MayArriveAnyTime(snap, got) ==
  IF snap.state = "pending_observation"
  THEN got = "earlier" \/ (got = "absent" /\ absentReads \in 1..GraceReads)
  ELSE got \in {"absent", "earlier", "failed"}

\* Whether an undecided read keeps its attempt waiting inside the grace.
MayStillArrive(snap, got) ==
  /\ age < GraceAge
  /\ IF snap.state = "pending_observation"
     THEN got = "earlier" \/ (got = "absent" /\ absentReads \in 1..GraceReads)
     ELSE got \in {"absent", "earlier", "failed"}

\* An undecided read defers its attempt, makes it ambiguous, or ends the ladder.
Weigh(p) ==
  LET snap == proc[p].snap
      got == proc[p].got
  IN /\ proc[p].pc = "weigh"
     /\ IF snap.state = "ambiguous"
        THEN IF age < LadderAge THEN UNCHANGED <<reply, outcome>>
             ELSE MarkTerminal(p, "ambiguous")
        ELSE IF MayStillArrive(snap, got) THEN UNCHANGED <<reply, outcome>>
             ELSE MarkAmbiguous(p)
     /\ IF p \in Workers THEN EndJob(p, got = "failed") ELSE UNCHANGED job
     /\ Rest(p)
     /\ UNCHANGED <<call, wrote, fence, head, absentReads, google, edits>>
     /\ AgeWhileOpen

-----------------------------------------------------------------------------
(* The guest, the clock, and losses *)

\* A guest edit ends every open cycle and takes back what was put forward for
\* the review as it stood.  Snapshots read before it are not modelled.
TakenBack == \/ reply.status = "pending_approval" /\ NoOpenCycle
             \/ reply.status = "publish_failed" /\ reply.state = "terminal"

GuestEdit ==
  /\ edits < MaxEdits
  /\ \A p \in Procs : proc[p].pc \in {"fetched", "record"} => Targeted(p)
  /\ edits' = edits + 1
  /\ head' = [head EXCEPT !.scoped = FALSE]
  /\ fence' = [fence EXCEPT !.current = FALSE]
  /\ proc' = [p \in Procs |-> IF proc[p].pc \in ReadSteps
                              THEN [proc[p] EXCEPT !.fresh = FALSE] ELSE proc[p]]
  /\ IF reply.state = "authorized" \/ InFlight(reply)
     THEN reply' = Cancelled(reply) /\ outcome' = Settle("superseded")
     ELSE IF TakenBack
     THEN /\ reply' = [Cancelled(reply) EXCEPT
                         !.state = IF reply.state = "null" THEN "null" ELSE "cancelled"]
          /\ outcome' = IF reply.error = "ambiguous" THEN Settle("superseded")
                        ELSE outcome
     ELSE UNCHANGED <<reply, outcome>>
  /\ UNCHANGED <<call, wrote, absentReads, job, google, gens>>
  /\ AgeWhileOpen

Tick ==
  /\ OpenAttempt(Attempt(reply)) /\ age < LadderAge
  /\ age' = age + 1
  /\ UNCHANGED <<reply, outcome, call, wrote, fence, head, absentReads, job,
                 google, edits, local>>

\* A process dies where it stands; a worker's job stalls until it is taken over.
Crash(w) ==
  /\ proc[w].pc # "idle"
  /\ proc' = [proc EXCEPT ![w] = Idle]
  /\ Release({w})
  /\ UNCHANGED <<reply, outcome, call, wrote, fence, head, absentReads, age, job,
                 google, edits>>

\* The queue loses the job, or gives it up after it stalled too often.
LoseJob ==
  /\ job.open
  /\ job' = [job EXCEPT !.open = FALSE, !.holder = NoProc]
  /\ UNCHANGED <<reply, outcome, call, wrote, fence, head, absentReads, age,
                 google, edits, local>>

-----------------------------------------------------------------------------
Manager ==
  \/ \E t \in Drafts : SaveDraft(t) \/ EditPublished(t)
  \/ SubmitReply \/ RejectReply \/ ApproveReply \/ RetryPublication
  \/ CancelUndispatched

Publish(w) ==
  \/ StartJob(w) \/ Reload(w) \/ Claim(w) \/ ClaimRefused(w) \/ AfterLostClaim(w)
  \/ AdmitPermit(w) \/ StartPermit(w) \/ SendReply(w) \/ SourceRefused(w)
  \/ RecordVerdict(w)
  \/ \E class \in {"retryable", "terminal_rejection", "cancelled"} : PrereadFails(w, class)
  \/ \E class \in {"retryable", "terminal_rejection", "ambiguous"} : NotSent(w, class)
  \/ \E class \in {"accepted", "retryable", "terminal_rejection", "ambiguous"} :
       GoogleAnswers(w, class)

Reading(p) ==
  \/ AskEvidence(p) \/ SettleNeverDispatched(p)
  \/ \E got \in {"failed", "earlier", "missing"} : ReadFails(p, got)
  \/ Fetch(p) \/ Allocate(p) \/ Record(p) \/ Weigh(p)
Reader(p) == Begin(p) \/ Lapse(p) \/ Reading(p)

Google ==
  \/ \E a \in Attempts : Land(a)
  \/ \E t \in Foreign \cup {Absent} : Outsider(t)
  \/ Echo

Next ==
  \/ Manager \/ Google \/ GuestEdit \/ Tick \/ LoseJob
  \/ \E w \in Workers : Publish(w) \/ Reading(w)
  \/ \E p \in Workers \cup Checks \cup Syncs : Crash(p)
  \/ \E p \in Sweeps \cup Checks \cup Syncs : Reader(p)

Spec == Init /\ [][Next]_vars

\* Only the recurring sweep and the clock are relied on to go on.
FairSpec == Spec /\ WF_vars(Tick) /\ \A p \in Sweeps : WF_vars(Reader(p))

-----------------------------------------------------------------------------
(* The promise this keeps. *)

Pursued(c) ==
  c = reply.cycle /\ reply.state \in {"authorized", "sending", "pending_observation"}

Came(c, o) == \E n \in 1..MaxRuns : outcome[<<c, n>>] = o

\* The fate of a cycle is read off its attempts and, while it has no verdict,
\* off the Reply.  A cycle that ended before a claim wrote nothing.
CycleFate(c) ==
  IF c > reply.cycle THEN "none"
  ELSE IF Came(c, "confirmed") THEN "published"
  ELSE IF Came(c, "superseded") THEN "given up"
  ELSE IF Came(c, "ambiguous") THEN "unknown"
  ELSE IF Pursued(c) THEN "open" ELSE "unwritten"

CallsThat(c, became) == {n \in 1..MaxRuns : call[<<c, n>>] = became}

Promise ==
  INSTANCE PublicationPromise WITH
    Requests <- 1..MaxRuns,
    fate     <- [c \in 1..MaxCycle |-> CycleFate(c)],
    sent     <- [c \in 1..MaxCycle |-> CallsThat(c, "flying")],
    applied  <- [c \in 1..MaxCycle |-> CallsThat(c, "landed")]

-----------------------------------------------------------------------------
(* Properties *)

MayBeOnGoogle(a) == call[a] \in {"flying", "landed"}

\* An attempt is called a failure that may be tried again, or a refusal, only
\* if its request is not, and will not come, on Google: settling, requeueing
\* and refusing never overtake a request that left, however late its worker.
FailureIsHonest ==
  \A a \in Attempts : outcome[a] \in {"retryable_failure", "terminal_rejection"} =>
    ~MayBeOnGoogle(a)

\* A cycle's runs, stalls and retries put at most one request of it to Google
\* that was not refused.
OneWritePerCycle ==
  \A a, b \in Attempts : a[1] = b[1] /\ MayBeOnGoogle(a) /\ MayBeOnGoogle(b) => a = b

\* The two rows every writer updates together tell the same story, and no
\* attempt but the Reply's own is still open.
AttemptAgreesWithReply ==
  LET o == IF reply.tries = 0 THEN "none" ELSE outcome[Attempt(reply)]
  IN /\ \A a \in Attempts : IsOpen(outcome[a]) => a = Attempt(reply)
     /\ (o = "sending") <=> (reply.state = "sending")
     /\ (o = "provider_outcome_pending") <=> (reply.state = "pending_observation")
     /\ (o = "ambiguous") <=> SeemsUnknown(reply) /\ reply.state # "sending"
     /\ reply.state = "published" => o = "confirmed" /\ reply.text = wrote[reply.cycle]
     /\ reply.state = "authorized" => o \in {"none", "retryable_failure"}
     /\ (reply.state = "terminal" /\ reply.error = "retryable") =>
          o \in {"none", "retryable_failure"}

\* A write starts only while the last reply recorded from Google is the one
\* the manager wrote over, or is gone: never over a reply RepKey has seen since.
NeverOverwritesASeenReply ==
  [][\A a \in Attempts : call[a] = "admitted" /\ call'[a] = "started" =>
       head.text \in {fence.over, Absent}]_vars

\* Every step is one of PublicationPromise or none: a cycle puts at most one
\* request on Google, one called unwritten has none there and never will have,
\* the next begins only when it is settled, and no late verdict, sweep or read
\* rewrites what was settled.
KeepsPublicationPromise == Promise!Spec

\* A confirmed or superseded attempt is evidence: no late verdict, sweep or
\* read rewrites it.
ClosedAttemptsStayClosed ==
  [][\A a \in Attempts : outcome[a] \in {"confirmed", "superseded"} =>
       outcome'[a] = outcome[a]]_vars

\* A new cycle is authorized only when every earlier request that may be on
\* Google was confirmed there or given up for another truth.
NoNewCycleOverAnUnknown ==
  [][reply'.cycle # reply.cycle =>
       \A a \in Attempts : MayBeOnGoogle(a) => outcome[a] \in {"confirmed", "superseded"}]_vars

\* The sweep brings every open cycle to an end, whatever becomes of its job,
\* its worker and the reads.
CycleIsOpen == reply.state = "authorized" \/ InFlight(reply)
OpenCyclesSettle == []<>~CycleIsOpen

\* Claimed of a refused requeued cycle: when the head moved since it was
\* authorized, a reply RepKey had not seen is live, and only then does the
\* worker end the cycle as provider truth.
EndsOnlyForAnUnseenReply ==
  [][\A w \in Workers :
       proc[w].pc = "moved" /\ proc'[w].pc = "idle"
         /\ reply.state = "authorized" /\ reply'.state = "cancelled" =>
       head.text \notin {fence.over, Absent}]_vars
=============================================================================
