------------------------ MODULE ReplyPublicationProofs ------------------------
(***************************************************************************)
(* Theorems about ReplyPublication for any number of workers, sweeps,      *)
(* checks and sync readers, and any bounds on cycles, runs, outside        *)
(* changes, edits and reads.                                               *)
(***************************************************************************)
EXTENDS ReplyPublication, TLAPS, FiniteSetTheorems

-----------------------------------------------------------------------------
(* The inductive invariant. *)

(* What the Reply row says of itself. *)

\* The state goes with the status.
StatusAgrees ==
  /\ reply.status \in {"draft", "pending_approval", "rejected"} <=> NoOpenCycle
  /\ reply.status = "approved" <=>
       reply.state \in {"authorized", "sending", "pending_observation"}
  /\ reply.status = "published" <=> reply.state = "published"
  /\ NoOpenCycle => reply.error = "none"

\* A Reply that was ever authorized is in a cycle, and shows its text.
CycleAgrees ==
  /\ reply.state # "null" => reply.cycle > 0
  /\ reply.tries > 0 => reply.cycle > 0
  /\ ~NoOpenCycle => reply.text = wrote[reply.cycle]

\* One attempt per used operation key.
TriesCount == reply.tries = Cardinality(job.used)

(* What the attempts say of each other and of their calls. *)

\* The Reply's own attempt and none after it have a row.
OwnAttemptKnown == reply.tries > 0 => outcome[Attempt(reply)] # "none"
LaterUnknown ==
  \A a \in Attempts :
    a[1] > reply.cycle \/ (a[1] = reply.cycle /\ a[2] > reply.tries) => outcome[a] = "none"

\* A call is made for an attempt that has a row.
CallsAreClaimed == \A a \in Attempts : outcome[a] = "none" => call[a] = "none"

\* An attempt is repeated only after it failed for certain.
Chain ==
  \A a, b \in Attempts :
    a[1] = b[1] /\ b[2] < a[2] /\ outcome[a] # "none" => outcome[b] = "retryable_failure"

Failures == {"retryable_failure", "terminal_rejection"}

(* What a worker knows of the attempt it claimed. *)
Calling == {"call", "wait", "verdict"}

CallersClaimed ==
  \A w \in Procs : proc[w].pc \in Calling =>
    /\ proc[w].snap.state = "sending"
    /\ Attempt(proc[w].snap) \in Attempts
    /\ outcome[Attempt(proc[w].snap)] # "none"

OneCaller ==
  \A v, w \in Procs :
    /\ proc[v].pc \in Calling /\ proc[w].pc \in Calling
    /\ Attempt(proc[v].snap) = Attempt(proc[w].snap)
    => v = w

\* Nothing left before the caller sends it, and nothing that a verdict calls
\* failed will.
CallerTells ==
  \A w \in Procs :
    /\ proc[w].pc = "call" => call[Attempt(proc[w].snap)] \in {"none", "admitted", "started"}
    /\ proc[w].pc = "verdict" /\ proc[w].got \in Failures \cup {"retryable"} =>
         ~MayBeOnGoogle(Attempt(proc[w].snap))

\* A permit of a failed attempt has no caller left that could use it.
Dead(a) ==
  /\ ~MayBeOnGoogle(a)
  /\ call[a] \in {"admitted", "started"} =>
       \A w \in Procs : ~(proc[w].pc = "call" /\ Attempt(proc[w].snap) = a)
FailedAreDead == \A a \in Attempts : outcome[a] \in Failures => Dead(a)

(* What the other steps rely on. *)
LapsesAuthorized == \A p \in Procs : proc[p].pc = "lapse" => proc[p].snap.state = "authorized"
RunsCounted == \A w \in Workers : proc[w].pc # "idle" => proc[w].run > 0

\* The head is the one written over unless a read moved it, and under a write
\* in progress it moves only to nothing.
HeadAgrees ==
  /\ ~fence.moved => head.text = fence.over
  /\ reply.state = "sending" /\ fence.current => head.text \in {fence.over, Absent}

RowInv == StatusAgrees /\ CycleAgrees /\ TriesCount
AttemptInv == OwnAttemptKnown /\ LaterUnknown /\ CallsAreClaimed /\ Chain
CallerInv == CallersClaimed /\ OneCaller /\ CallerTells /\ FailedAreDead
IInv ==
  /\ TypeOK /\ RowInv /\ AttemptAgreesWithReply /\ AttemptInv /\ CallerInv
  /\ LapsesAuthorized /\ RunsCounted /\ HeadAgrees

-----------------------------------------------------------------------------

(* Types. *)

\* What the steps make of the Reply row.
Becomes(status, state, error) ==
  /\ reply' \in Replies
  /\ reply'.status = status /\ reply'.state = state /\ reply'.error = error
  /\ reply'.cycle = reply.cycle /\ reply'.tries = reply.tries /\ reply'.text = reply.text

LEMMA ErrorRow ==
  ASSUME reply \in Replies, NEW s \in Statuses, NEW u \in States, NEW e \in Errors,
         reply' = [reply EXCEPT !.status = s, !.state = u, !.error = e]
  PROVE  Becomes(s, u, e)
<1>1. reply' \in Replies
  BY DEF Replies
<1> QED BY <1>1 DEF Becomes, Replies

LEMMA StateRow ==
  ASSUME reply \in Replies, NEW u \in States, reply' = [reply EXCEPT !.state = u]
  PROVE  Becomes(reply.status, u, reply.error)
<1>1. reply' \in Replies
  BY DEF Replies
<1> QED BY <1>1 DEF Becomes, Replies

LEMMA StatusRow ==
  ASSUME reply \in Replies, NEW s \in Statuses, NEW u \in States,
         reply' = [reply EXCEPT !.status = s, !.state = u]
  PROVE  Becomes(s, u, reply.error)
<1>1. reply' \in Replies
  BY DEF Replies
<1> QED BY <1>1 DEF Becomes, Replies

LEMMA CancelledRow ==
  ASSUME reply \in Replies, reply' = Cancelled(reply)
  PROVE  Becomes("draft", "cancelled", "none")
<1>1. "draft" \in Statuses /\ "cancelled" \in States /\ "none" \in Errors
  BY DEF Statuses, States, Errors
<1> QED BY <1>1, ErrorRow DEF Cancelled

LEMMA TerminalRow ==
  ASSUME reply \in Replies, NEW e \in Errors, reply' = Terminal(reply, e)
  PROVE  Becomes("publish_failed", "terminal", e)
<1>1. "publish_failed" \in Statuses /\ "terminal" \in States
  BY DEF Statuses, States
<1> QED BY <1>1, ErrorRow DEF Terminal

LEMMA AmbiguousRow ==
  ASSUME reply \in Replies, reply' = Ambiguous(reply)
  PROVE  Becomes("publish_failed", "ambiguous", "ambiguous")
<1>1. "publish_failed" \in Statuses /\ "ambiguous" \in States /\ "ambiguous" \in Errors
  BY DEF Statuses, States, Errors
<1> QED BY <1>1, ErrorRow DEF Ambiguous

LEMMA SettleTypes ==
  ASSUME reply \in Replies, outcome \in [Attempts -> Outcomes], NEW o \in Outcomes
  PROVE  /\ Settle(o) \in [Attempts -> Outcomes]
         /\ reply.tries = 0 => Settle(o) = outcome
         /\ reply.tries # 0 /\ Attempt(reply) \in Attempts => Settle(o)[Attempt(reply)] = o
         /\ \A a \in Attempts : a # Attempt(reply) => Settle(o)[a] = outcome[a]
  BY DEF Settle

LEMMA EndJobTypes ==
  ASSUME job \in Jobs, NEW w, proc[w].run \in Runs, proc[w].run > 0, NEW threw, EndJob(w, threw),
         PublicationConstants
  PROVE  job' \in Jobs /\ job'.used = job.used
<1> DEFINE Made == 0..(MaxRuns - 1)
           Holders == Procs \cup {NoProc}
           Used == SUBSET (1..MaxRuns)
<1>1. Jobs = [made : Made, open : BOOLEAN, holder : Holders, used : Used]
  BY DEF Jobs
<1>2. NoProc \in Holders /\ (proc[w].run < MaxRuns => proc[w].run \in Made)
  BY DEF Runs, PublicationConstants
<1> HIDE DEF Made, Holders, Used
<1>3. \A m \in Made, h \in Holders :
        /\ [job EXCEPT !.made = m, !.holder = h] \in Jobs
        /\ [job EXCEPT !.made = m, !.holder = h].used = job.used
  BY <1>1
<1>7. \A h \in Holders :
        /\ [job EXCEPT !.open = FALSE, !.holder = h] \in Jobs
        /\ [job EXCEPT !.open = FALSE, !.holder = h].used = job.used
  BY <1>1
<1>4. CASE job' = job
  BY <1>4
<1>5. CASE job' = [job EXCEPT !.open = FALSE, !.holder = NoProc]
  BY <1>2, <1>5, <1>7
<1>6. CASE job' = [job EXCEPT !.made = proc[w].run, !.holder = NoProc] /\ proc[w].run < MaxRuns
  BY <1>2, <1>3, <1>6
<1> QED BY <1>4, <1>5, <1>6 DEF EndJob

LEMMA IdleTyped ==
  ASSUME PublicationConstants
  PROVE  Idle \in ProcStates
<1>1. NoRow \in Rows
  BY DEF Rows
<1>2. 0 \in Runs /\ <<0, 0>> \in Targets /\ Absent \in Texts
  BY DEF Runs, Targets, Texts, PublicationConstants
<1>3. "idle" \in Steps /\ "none" \in Verdicts
  BY DEF Steps, Verdicts
<1> QED BY <1>1, <1>2, <1>3 DEF Idle, ProcStates

\* The shapes of a process's next state.
LEMMA ProcShapes ==
  ASSUME PublicationConstants
  PROVE  /\ \A s \in Rows, l \in Steps : [Idle EXCEPT !.snap = s, !.pc = l] \in ProcStates
         /\ \A l \in Steps : [Idle EXCEPT !.pc = l] \in ProcStates
         /\ \A s \in Rows, n \in Runs, t \in Targets, l \in Steps :
              [[Idle EXCEPT !.snap = s, !.run = n, !.target = t] EXCEPT !.pc = l] \in ProcStates
         /\ \A s \in Rows, n \in Runs, g \in Verdicts, l \in Steps :
              [[Idle EXCEPT !.snap = s, !.run = n, !.got = g] EXCEPT !.pc = l] \in ProcStates
         /\ \A s \in Rows, n \in Runs, g \in Verdicts, h \in Verdicts, l \in Steps :
              [[Idle EXCEPT !.snap = s, !.run = n, !.got = g] EXCEPT !.pc = l, !.got = h]
                \in ProcStates
<1>1. Idle \in ProcStates
  BY IdleTyped
<1>2. \A s \in Rows, l \in Steps : [Idle EXCEPT !.snap = s, !.pc = l] \in ProcStates
  BY <1>1 DEF ProcStates
<1>3. \A l \in Steps : [Idle EXCEPT !.pc = l] \in ProcStates
  BY <1>1 DEF ProcStates
<1>4. \A s \in Rows, n \in Runs, t \in Targets :
        [Idle EXCEPT !.snap = s, !.run = n, !.target = t] \in ProcStates
  BY <1>1 DEF ProcStates
<1>5. \A s \in Rows, n \in Runs, g \in Verdicts :
        [Idle EXCEPT !.snap = s, !.run = n, !.got = g] \in ProcStates
  BY <1>1 DEF ProcStates
<1>6. \A x \in ProcStates, l \in Steps : [x EXCEPT !.pc = l] \in ProcStates
  BY DEF ProcStates
<1>7. \A x \in ProcStates, l \in Steps, h \in Verdicts :
        [x EXCEPT !.pc = l, !.got = h] \in ProcStates
  BY DEF ProcStates
<1> QED BY <1>2, <1>3, <1>4, <1>5, <1>6, <1>7

LEMMA ProcUpdates ==
  ASSUME proc \in [Procs -> ProcStates], NEW p \in Procs
  PROVE  /\ \A x \in ProcStates : [proc EXCEPT ![p] = x] \in [Procs -> ProcStates]
         /\ \A l \in Steps : [proc EXCEPT ![p].pc = l] \in [Procs -> ProcStates]
         /\ \A l \in Steps, g \in Verdicts :
              [proc EXCEPT ![p].pc = l, ![p].got = g] \in [Procs -> ProcStates]
         /\ \A l \in Steps, s \in Rows :
              [proc EXCEPT ![p].snap = s, ![p].pc = l] \in [Procs -> ProcStates]
         /\ \A l \in Steps, s \in Texts, t \in Targets, f \in BOOLEAN :
              [proc EXCEPT ![p].pc = l, ![p].seen = s, ![p].target = t, ![p].fresh = f]
                \in [Procs -> ProcStates]
<1>1. \A x \in ProcStates, l \in Steps : [x EXCEPT !.pc = l] \in ProcStates
  BY DEF ProcStates
<1>2. \A x \in ProcStates, l \in Steps, h \in Verdicts :
        [x EXCEPT !.pc = l, !.got = h] \in ProcStates
  BY DEF ProcStates
<1>3. \A x \in ProcStates, l \in Steps, s \in Rows :
        [x EXCEPT !.snap = s, !.pc = l] \in ProcStates
  BY DEF ProcStates
<1>4. \A x \in ProcStates, l \in Steps, s \in Texts, t \in Targets, f \in BOOLEAN :
        [x EXCEPT !.pc = l, !.seen = s, !.target = t, !.fresh = f] \in ProcStates
  BY DEF ProcStates
<1>5. \A x \in ProcStates : [proc EXCEPT ![p] = x] \in [Procs -> ProcStates]
  OBVIOUS
<1>6. \A l \in Steps : [proc EXCEPT ![p].pc = l] \in [Procs -> ProcStates]
  BY <1>1
<1>7. \A l \in Steps, g \in Verdicts :
        [proc EXCEPT ![p].pc = l, ![p].got = g] \in [Procs -> ProcStates]
  BY <1>2
<1>8. \A l \in Steps, s \in Rows :
        [proc EXCEPT ![p].snap = s, ![p].pc = l] \in [Procs -> ProcStates]
  BY <1>3
<1>9. \A l \in Steps, s \in Texts, t \in Targets, f \in BOOLEAN :
        [proc EXCEPT ![p].pc = l, ![p].seen = s, ![p].target = t, ![p].fresh = f]
          \in [Procs -> ProcStates]
  <2> TAKE l \in Steps, s \in Texts, t \in Targets, f \in BOOLEAN
  <2> DEFINE x == [proc[p] EXCEPT !.pc = l, !.seen = s, !.target = t, !.fresh = f]
  <2>1. x \in ProcStates
    BY <1>4
  <2>2. [proc EXCEPT ![p].pc = l, ![p].seen = s, ![p].target = t, ![p].fresh = f]
          = [proc EXCEPT ![p] = x]
    OBVIOUS
  <2> QED BY <1>5, <2>1, <2>2
<1> QED BY <1>5, <1>6, <1>7, <1>8, <1>9

-----------------------------------------------------------------------------
(* How a step changes the Reply row and the attempt rows. *)

Written == UNCHANGED wrote /\ job'.used = job.used

\* Outside a cycle the manager rewrites the draft.
Drafting ==
  /\ NoOpenCycle /\ Written /\ UNCHANGED outcome
  /\ reply' \in Replies
  /\ reply'.status \in {"draft", "pending_approval", "rejected"}
  /\ reply'.state = reply.state /\ reply'.error = reply.error
  /\ reply'.cycle = reply.cycle /\ reply'.tries = reply.tries

\* A new cycle begins where the last one was settled.
Starting ==
  /\ \/ NoOpenCycle
     \/ reply.state = "published"
     \/ reply.state = "terminal" /\ reply.error # "ambiguous"
  /\ reply.cycle < MaxCycle
  /\ \E t \in Drafts :
       /\ reply' = [status |-> "approved", state |-> "authorized", error |-> "none",
                    cycle |-> reply.cycle + 1, tries |-> 0, text |-> t]
       /\ wrote' = [wrote EXCEPT ![reply.cycle + 1] = t]
  /\ job'.used = {} /\ UNCHANGED outcome

\* An authorized cycle is claimed under an unused operation key.
Taking ==
  /\ reply.state = "authorized"
  /\ reply' = [reply EXCEPT !.state = "sending", !.tries = @ + 1]
  /\ outcome' = [outcome EXCEPT ![Attempt(reply')] = "sending"]
  /\ \E n \in (1..MaxRuns) \ job.used : job'.used = job.used \cup {n}
  /\ UNCHANGED wrote

Failing(e) ==
  /\ reply.state \in {"authorized", "sending", "ambiguous"} \/ SeemsUnknown(reply)
  /\ e # "ambiguous" \/ reply.state = "ambiguous"
  /\ Becomes("publish_failed", "terminal", e) /\ outcome' = Settle(FailureOutcome(e))

Doubting ==
  /\ reply.state \in {"sending", "pending_observation"}
  /\ Becomes("publish_failed", "ambiguous", "ambiguous") /\ outcome' = Settle("ambiguous")

Cancelling ==
  /\ CycleIsOpen \/ SeemsUnknown(reply)
  /\ Becomes("draft", "cancelled", "none") /\ outcome' = Settle("superseded")

Withdrawing ==
  /\ reply.state = "terminal" /\ reply.error # "ambiguous"
  /\ Becomes("draft", "cancelled", "none") /\ UNCHANGED outcome

Accepting ==
  /\ reply.state = "sending"
  /\ Becomes(reply.status, "pending_observation", reply.error)
  /\ outcome' = Settle("provider_outcome_pending")

Requeueing ==
  /\ reply.state = "sending"
  /\ Becomes(reply.status, "authorized", reply.error)
  /\ outcome' = Settle("retryable_failure")

Confirming ==
  /\ InFlight(reply) \/ SeemsUnknown(reply)
  /\ Becomes("published", "published", reply.error) /\ outcome' = Settle("confirmed")

Ending ==
  /\ Written
  /\ \/ \E e \in Errors \ {"none"} : Failing(e)
     \/ Doubting \/ Cancelling \/ Withdrawing \/ Accepting \/ Requeueing \/ Confirming

CalmRows ==
  \/ Written /\ UNCHANGED <<reply, outcome>>
  \/ Drafting \/ Starting \/ Ending
RowStep == CalmRows \/ Taking

Rowed == TypeOK /\ RowInv /\ AttemptAgreesWithReply /\ AttemptInv

LEMMA OwnAttempt ==
  ASSUME Rowed, PublicationConstants, reply.tries > 0
  PROVE  Attempt(reply) \in Attempts
BY DEF Rowed, TypeOK, Replies, RowInv, CycleAgrees, Attempt, Attempts, PublicationConstants

\* An ending leaves every attempt but the Reply's own as it was.
LEMMA EndingOutcomes ==
  ASSUME Rowed, PublicationConstants, Ending
  PROVE  /\ reply' \in Replies
         /\ outcome' \in [Attempts -> Outcomes]
         /\ Attempt(reply') = Attempt(reply)
         /\ reply'.cycle = reply.cycle /\ reply'.tries = reply.tries
         /\ reply'.text = reply.text
         /\ reply.tries = 0 => outcome' = outcome
         /\ \A a \in Attempts : a # Attempt(reply) => outcome'[a] = outcome[a]
         /\ UNCHANGED wrote /\ job'.used = job.used
<1>1. reply \in Replies /\ outcome \in [Attempts -> Outcomes]
  BY DEF Rowed, TypeOK
<1>2. UNCHANGED outcome \/ \E o \in Outcomes : outcome' = Settle(o)
  <2>1. \A e \in Errors \ {"none"} : FailureOutcome(e) \in Outcomes
    BY DEF Errors, FailureOutcome, Outcomes
  <2>2. {"ambiguous", "superseded", "provider_outcome_pending", "retryable_failure",
         "confirmed"} \subseteq Outcomes
    BY DEF Outcomes
  <2> QED
    BY <2>1, <2>2 DEF Ending, Failing, Doubting, Cancelling, Withdrawing, Accepting,
       Requeueing, Confirming
<1>3. /\ reply' \in Replies /\ reply'.cycle = reply.cycle /\ reply'.tries = reply.tries
      /\ reply'.text = reply.text
  BY DEF Ending, Failing, Doubting, Cancelling, Withdrawing, Accepting, Requeueing,
     Confirming, Becomes
<1>4. /\ outcome' \in [Attempts -> Outcomes]
      /\ reply.tries = 0 => outcome' = outcome
      /\ \A a \in Attempts : a # Attempt(reply) => outcome'[a] = outcome[a]
  BY <1>1, <1>2, SettleTypes
<1> QED BY <1>3, <1>4 DEF Attempt, Ending, Written

LEMMA TakingOutcomes ==
  ASSUME Rowed, PublicationConstants, Taking
  PROVE  /\ reply' \in Replies
         /\ outcome' \in [Attempts -> Outcomes]
         /\ Attempt(reply') = <<reply.cycle, reply.tries + 1>>
         /\ Attempt(reply') \in Attempts
         /\ reply'.cycle = reply.cycle /\ reply'.tries = reply.tries + 1
         /\ reply'.text = reply.text /\ reply'.state = "sending"
         /\ reply'.status = reply.status /\ reply'.error = reply.error
         /\ outcome'[Attempt(reply')] = "sending"
         /\ \A a \in Attempts : a # Attempt(reply') => outcome'[a] = outcome[a]
         /\ TriesCount'
<1>1. PICK n \in (1..MaxRuns) \ job.used : job'.used = job.used \cup {n}
  BY DEF Taking
<1>2. job.used \in SUBSET (1..MaxRuns) /\ IsFiniteSet(1..MaxRuns) /\ MaxRuns \in Nat
  BY FS_Interval DEF Rowed, TypeOK, Jobs, PublicationConstants
<1>3. IsFiniteSet(job.used) /\ IsFiniteSet(job'.used) /\ job'.used \in SUBSET (1..MaxRuns)
  BY <1>1, <1>2, FS_Subset
<1>4. Cardinality(1..MaxRuns) = MaxRuns
  BY <1>2, FS_Interval
<1>5. Cardinality(job'.used) = Cardinality(job.used) + 1
  BY <1>1, <1>3, FS_AddElement
<1>6. Cardinality(job'.used) \in Nat /\ Cardinality(job'.used) <= MaxRuns
  BY <1>2, <1>3, <1>4, FS_Subset, FS_CardinalityType
<1>7. reply.tries + 1 \in 0..MaxRuns /\ reply.tries + 1 = Cardinality(job'.used)
  BY <1>5, <1>6 DEF Rowed, RowInv, TriesCount, TypeOK, Replies, PublicationConstants
<1>8. /\ reply'.cycle = reply.cycle /\ reply'.tries = reply.tries + 1
      /\ reply'.text = reply.text /\ reply'.state = "sending"
      /\ reply'.status = reply.status /\ reply'.error = reply.error
  BY DEF Taking, Rowed, TypeOK, Replies
<1>9. reply' \in Replies
  <2>1. \A s \in States, m \in 0..MaxRuns : [reply EXCEPT !.state = s, !.tries = m] \in Replies
    BY DEF Rowed, TypeOK, Replies
  <2>2. "sending" \in States
    BY DEF States
  <2>3. reply' = [reply EXCEPT !.state = "sending", !.tries = reply.tries + 1]
    BY DEF Taking
  <2> QED BY <2>1, <2>2, <2>3, <1>7
<1>10. Attempt(reply') \in Attempts
  BY <1>7, <1>8 DEF Attempt, Attempts, Rowed, RowInv, CycleAgrees, Taking, TypeOK, Replies,
     PublicationConstants
<1>11. outcome' \in [Attempts -> Outcomes]
  BY DEF Taking, Rowed, TypeOK, Outcomes
<1> QED BY <1>7, <1>8, <1>9, <1>10, <1>11 DEF Attempt, Taking, TriesCount, Rowed, TypeOK

LEMMA StartingRow ==
  ASSUME Rowed, PublicationConstants, Starting
  PROVE  /\ reply' \in Replies /\ wrote' \in [1..MaxCycle -> Drafts \cup {Absent}]
         /\ outcome' = outcome /\ job'.used = {}
         /\ reply'.cycle = reply.cycle + 1 /\ reply'.tries = 0
         /\ reply'.status = "approved" /\ reply'.state = "authorized"
         /\ reply'.error = "none" /\ reply'.text = wrote'[reply'.cycle]
         /\ reply'.cycle \in 1..MaxCycle
<1>1. PICK t \in Drafts :
        /\ reply' = [status |-> "approved", state |-> "authorized", error |-> "none",
                     cycle |-> reply.cycle + 1, tries |-> 0, text |-> t]
        /\ wrote' = [wrote EXCEPT ![reply.cycle + 1] = t]
  BY DEF Starting
<1>2. reply.cycle + 1 \in 1..MaxCycle /\ 0 \in 0..MaxRuns
  BY DEF Starting, Rowed, TypeOK, Replies, PublicationConstants
<1>3. "approved" \in Statuses /\ "authorized" \in States /\ "none" \in Errors
  BY DEF Statuses, States, Errors
<1>4. wrote' \in [1..MaxCycle -> Drafts \cup {Absent}] /\ wrote'[reply.cycle + 1] = t
  BY <1>1, <1>2 DEF Rowed, TypeOK
<1>5. reply.cycle + 1 \in 0..MaxCycle
  BY <1>2
<1>6. reply' \in Replies
  BY <1>1, <1>2, <1>3, <1>5 DEF Replies
<1> QED BY <1>1, <1>2, <1>4, <1>6 DEF Starting

LEMMA RowTypes ==
  ASSUME Rowed, PublicationConstants, RowStep
  PROVE  /\ reply' \in Replies /\ outcome' \in [Attempts -> Outcomes]
         /\ wrote' \in [1..MaxCycle -> Drafts \cup {Absent}]
<1> USE DEF Rowed, TypeOK
<1>1. CASE Written /\ UNCHANGED <<reply, outcome>>
  BY <1>1 DEF Written
<1>2. CASE Drafting
  BY <1>2 DEF Drafting, Written
<1>3. CASE Starting
  BY <1>3, StartingRow
<1>4. CASE Taking
  BY <1>4, TakingOutcomes DEF Taking
<1>5. CASE Ending
  BY <1>5, EndingOutcomes
<1> QED BY <1>1, <1>2, <1>3, <1>4, <1>5 DEF CalmRows, RowStep

LEMMA RowInvStep ==
  ASSUME Rowed, PublicationConstants, RowStep
  PROVE  RowInv'
<1>1. CASE Written /\ UNCHANGED <<reply, outcome>>
  BY <1>1 DEF Rowed, Written, RowInv, StatusAgrees, CycleAgrees, TriesCount, NoOpenCycle
<1>2. CASE Drafting
  BY <1>2 DEF Rowed, Drafting, Written, RowInv, StatusAgrees, CycleAgrees, TriesCount,
     NoOpenCycle
<1>3. CASE Starting
  <2>1. StatusAgrees' /\ CycleAgrees'
    BY <1>3, StartingRow DEF StatusAgrees, CycleAgrees, NoOpenCycle
  <2>2. TriesCount'
    BY <1>3, StartingRow, FS_EmptySet DEF TriesCount
  <2> QED BY <2>1, <2>2 DEF RowInv
<1>4. CASE Taking
  <2>1. reply.state = "authorized" /\ UNCHANGED wrote
    BY <1>4 DEF Taking
  <2>2. StatusAgrees'
    BY <1>4, <2>1, TakingOutcomes DEF Rowed, RowInv, StatusAgrees, NoOpenCycle
  <2>3. CycleAgrees'
    BY <1>4, <2>1, TakingOutcomes DEF Rowed, RowInv, CycleAgrees, NoOpenCycle
  <2> QED BY <1>4, <2>2, <2>3, TakingOutcomes DEF RowInv
<1>5. CASE Ending
  <2>1. TriesCount'
    BY <1>5, EndingOutcomes DEF TriesCount, Rowed, RowInv
  <2>2. ~NoOpenCycle
    BY <1>5 DEF Ending, Failing, Doubting, Cancelling, Withdrawing, Accepting, Requeueing,
       Confirming, CycleIsOpen, InFlight, SeemsUnknown, NoOpenCycle, Rowed, RowInv, StatusAgrees
  <2>3. CycleAgrees'
    BY <1>5, <2>2, EndingOutcomes DEF CycleAgrees, Rowed, RowInv, NoOpenCycle
  <2>4. StatusAgrees'
    BY <1>5 DEF Ending, Failing, Doubting, Cancelling, Withdrawing, Accepting, Requeueing,
       Confirming, Becomes, StatusAgrees, NoOpenCycle, Rowed, RowInv
  <2> QED BY <2>1, <2>3, <2>4 DEF RowInv
<1> QED BY <1>1, <1>2, <1>3, <1>4, <1>5 DEF CalmRows, RowStep

LEMMA AttemptAgreesStep ==
  ASSUME Rowed, PublicationConstants, RowStep
  PROVE  AttemptAgreesWithReply'
<1> DEFINE O == IF reply.tries = 0 THEN "none" ELSE outcome[Attempt(reply)]
<1>0. /\ \A a \in Attempts : IsOpen(outcome[a]) => a = Attempt(reply)
      /\ (O = "sending") <=> (reply.state = "sending")
      /\ (O = "provider_outcome_pending") <=> (reply.state = "pending_observation")
      /\ (O = "ambiguous") <=> SeemsUnknown(reply) /\ reply.state # "sending"
      /\ reply.state = "published" => O = "confirmed" /\ reply.text = wrote[reply.cycle]
      /\ reply.state = "authorized" => O \in {"none", "retryable_failure"}
      /\ (reply.state = "terminal" /\ reply.error = "retryable") =>
           O \in {"none", "retryable_failure"}
  BY DEF Rowed, AttemptAgreesWithReply
<1>1. CASE Written /\ UNCHANGED <<reply, outcome>>
  BY <1>1 DEF Rowed, Written, AttemptAgreesWithReply, IsOpen, SeemsUnknown, Attempt
<1>2. CASE Drafting
  <2>1. Attempt(reply') = Attempt(reply) /\ O' = O
    BY <1>2 DEF Drafting, Attempt
  <2>2. reply'.state \in {"null", "cancelled"} /\ reply'.state = reply.state
    BY <1>2 DEF Drafting, NoOpenCycle
  <2>3. ~SeemsUnknown(reply) /\ ~SeemsUnknown(reply')
    BY <2>2 DEF SeemsUnknown
  <2> QED BY <1>0, <1>2, <2>1, <2>2, <2>3 DEF AttemptAgreesWithReply, IsOpen, Drafting
<1>3. CASE Starting
  <2>1. ~IsOpen(O)
    BY <1>0, <1>3 DEF Starting, NoOpenCycle, SeemsUnknown, IsOpen
  <2>2. \A a \in Attempts : ~IsOpen(outcome[a])
    <3> SUFFICES ASSUME NEW a \in Attempts, IsOpen(outcome[a]) PROVE FALSE
      OBVIOUS
    <3>1. a = Attempt(reply) /\ a[2] = reply.tries /\ a[2] > 0
      BY <1>0 DEF Attempt, Attempts
    <3> QED BY <2>1, <3>1
  <2>3. reply'.tries = 0 /\ reply'.state = "authorized" /\ ~SeemsUnknown(reply')
    BY <1>3, StartingRow DEF SeemsUnknown
  <2> QED BY <1>3, <2>2, <2>3, StartingRow DEF AttemptAgreesWithReply, IsOpen
<1>4. CASE Taking
  <2>1. reply.state = "authorized" /\ reply.status = "approved"
    BY <1>4 DEF Taking, Rowed, RowInv, StatusAgrees
  <2>2. \A a \in Attempts : ~IsOpen(outcome[a])
    <3> SUFFICES ASSUME NEW a \in Attempts, IsOpen(outcome[a]) PROVE FALSE
      OBVIOUS
    <3>1. a = Attempt(reply) /\ a[2] = reply.tries /\ a[2] > 0
      BY <1>0 DEF Attempt, Attempts
    <3> QED BY <1>0, <2>1, <3>1 DEF IsOpen
  <2>3. reply'.tries # 0 /\ reply'.state = "sending" /\ reply'.status = "approved"
    BY <1>4, <2>1, TakingOutcomes DEF Rowed, TypeOK, Replies
  <2> QED
    BY <1>4, <2>2, <2>3, TakingOutcomes DEF AttemptAgreesWithReply, IsOpen, SeemsUnknown
<1>5. CASE Ending
  <2>1. /\ reply'.tries = reply.tries /\ reply'.cycle = reply.cycle
        /\ Attempt(reply') = Attempt(reply) /\ UNCHANGED wrote
        /\ reply'.text = reply.text
        /\ \A a \in Attempts : a # Attempt(reply) => outcome'[a] = outcome[a]
    BY <1>5, EndingOutcomes
  <2>2. \A a \in Attempts : IsOpen(outcome'[a]) => a = Attempt(reply')
    BY <1>0, <2>1
  <2>3. O' = IF reply.tries = 0 THEN "none" ELSE outcome'[Attempt(reply)]
    BY <2>1
  <2>4. \A o \in Outcomes : outcome' = Settle(o) => O' = IF reply.tries = 0 THEN "none" ELSE o
    BY <2>3, OwnAttempt DEF Rowed, TypeOK, Settle, Replies
  <2>5. ~NoOpenCycle /\ reply.text = wrote[reply.cycle]
    BY <1>5 DEF Ending, Failing, Doubting, Cancelling, Withdrawing, Accepting, Requeueing,
       Confirming, CycleIsOpen, InFlight, SeemsUnknown, NoOpenCycle, Rowed, RowInv,
       StatusAgrees, CycleAgrees
  <2>6. /\ (O' = "sending") <=> (reply'.state = "sending")
        /\ (O' = "provider_outcome_pending") <=> (reply'.state = "pending_observation")
        /\ (O' = "ambiguous") <=> SeemsUnknown(reply') /\ reply'.state # "sending"
        /\ reply'.state = "published" => O' = "confirmed"
        /\ reply'.state = "authorized" => O' \in {"none", "retryable_failure"}
        /\ (reply'.state = "terminal" /\ reply'.error = "retryable") =>
             O' \in {"none", "retryable_failure"}
    <3> DEFINE Agrees ==
          /\ (O' = "sending") <=> (reply'.state = "sending")
          /\ (O' = "provider_outcome_pending") <=> (reply'.state = "pending_observation")
          /\ (O' = "ambiguous") <=> SeemsUnknown(reply') /\ reply'.state # "sending"
          /\ reply'.state = "published" => O' = "confirmed"
          /\ reply'.state = "authorized" => O' \in {"none", "retryable_failure"}
          /\ (reply'.state = "terminal" /\ reply'.error = "retryable") =>
               O' \in {"none", "retryable_failure"}
    <3>0. reply.tries = 0 => O = "none"
      OBVIOUS
    <3>9. reply.state = "ambiguous" => SeemsUnknown(reply)
      BY DEF SeemsUnknown, Rowed, RowInv, StatusAgrees, NoOpenCycle, TypeOK, Replies, Statuses
    <3> HIDE DEF O
    <3>1. ASSUME NEW e \in Errors \ {"none"}, Failing(e) PROVE Agrees
      <4>1. FailureOutcome(e) \in Outcomes
        BY DEF FailureOutcome, Errors, Outcomes
      <4>2. O' = IF reply.tries = 0 THEN "none" ELSE FailureOutcome(e)
        BY <2>4, <3>1, <4>1 DEF Failing
      <4> QED
        BY <1>0, <3>0, <3>1, <3>9, <4>2 DEF Failing, Becomes, FailureOutcome, SeemsUnknown, Errors
    <3>2. {"ambiguous", "superseded", "provider_outcome_pending", "retryable_failure",
           "confirmed"} \subseteq Outcomes
      BY DEF Outcomes
    <3>3. ASSUME Doubting PROVE Agrees
      <4>1. O' = IF reply.tries = 0 THEN "none" ELSE "ambiguous"
        BY <2>4, <3>2, <3>3 DEF Doubting
      <4> QED BY <1>0, <3>0, <3>3, <4>1 DEF Doubting, Becomes, SeemsUnknown
    <3>4. ASSUME Cancelling PROVE Agrees
      <4>1. O' = IF reply.tries = 0 THEN "none" ELSE "superseded"
        BY <2>4, <3>2, <3>4 DEF Cancelling
      <4> QED BY <3>4, <4>1 DEF Cancelling, Becomes, SeemsUnknown
    <3>5. ASSUME Withdrawing PROVE Agrees
      <4>1. O' = O
        BY <2>1, <3>5 DEF Withdrawing, O
      <4> QED BY <1>0, <3>5, <4>1 DEF Withdrawing, Becomes, SeemsUnknown
    <3>6. ASSUME Accepting PROVE Agrees
      <4>1. O' = IF reply.tries = 0 THEN "none" ELSE "provider_outcome_pending"
        BY <2>4, <3>2, <3>6 DEF Accepting
      <4> QED BY <1>0, <3>0, <3>6, <4>1 DEF Accepting, Becomes, SeemsUnknown
    <3>7. ASSUME Requeueing PROVE Agrees
      <4>1. O' = IF reply.tries = 0 THEN "none" ELSE "retryable_failure"
        BY <2>4, <3>2, <3>7 DEF Requeueing
      <4> QED BY <1>0, <3>0, <3>7, <4>1 DEF Requeueing, Becomes, SeemsUnknown
    <3>8. ASSUME Confirming PROVE Agrees
      <4>1. O' = IF reply.tries = 0 THEN "none" ELSE "confirmed"
        BY <2>4, <3>2, <3>8 DEF Confirming
      <4> QED BY <1>0, <3>0, <3>8, <3>9, <4>1 DEF Confirming, Becomes, SeemsUnknown, InFlight
    <3> QED BY <1>5, <3>1, <3>3, <3>4, <3>5, <3>6, <3>7, <3>8 DEF Ending
  <2> QED BY <2>1, <2>2, <2>5, <2>6 DEF AttemptAgreesWithReply, IsOpen
<1> QED BY <1>1, <1>2, <1>3, <1>4, <1>5 DEF CalmRows, RowStep

\* The rows of the attempts, but for their calls.
ChainInv == OwnAttemptKnown /\ LaterUnknown /\ Chain

LEMMA ChainStep ==
  ASSUME Rowed, PublicationConstants, RowStep
  PROVE  ChainInv'
<1>0. /\ \A a \in Attempts : a = <<a[1], a[2]>> /\ a[1] \in Nat /\ a[2] \in Nat /\ a[2] > 0
      /\ reply.cycle \in Nat /\ reply.tries \in Nat
      /\ Attempt(reply)[1] = reply.cycle /\ Attempt(reply)[2] = reply.tries
  BY DEF Attempts, Attempt, Rowed, TypeOK, Replies, PublicationConstants
<1>00. OwnAttemptKnown /\ LaterUnknown /\ Chain
  BY DEF Rowed, AttemptInv
<1>1. CASE Written /\ UNCHANGED <<reply, outcome>>
  BY <1>1, <1>00 DEF ChainInv, OwnAttemptKnown, LaterUnknown, Chain, Attempt
<1>2. CASE Drafting
  BY <1>2, <1>00 DEF ChainInv, OwnAttemptKnown, LaterUnknown, Chain, Attempt, Drafting
<1>3. CASE Starting
  BY <1>0, <1>00, <1>3, StartingRow DEF ChainInv, OwnAttemptKnown, LaterUnknown, Chain
<1>4. CASE Taking
  <2>1. reply.state = "authorized"
    BY <1>4 DEF Taking
  <2>2. reply.tries > 0 => outcome[Attempt(reply)] = "retryable_failure"
    BY <1>0, <1>00, <2>1 DEF Rowed, AttemptAgreesWithReply, OwnAttemptKnown
  <2>3. \A b \in Attempts : b[1] = reply.cycle /\ b[2] <= reply.tries =>
          outcome[b] = "retryable_failure"
    <3> SUFFICES ASSUME NEW b \in Attempts, b[1] = reply.cycle, b[2] <= reply.tries
                 PROVE  outcome[b] = "retryable_failure"
      OBVIOUS
    <3>1. reply.tries > 0 /\ Attempt(reply) \in Attempts
      BY <1>0, OwnAttempt
    <3>2. CASE b[2] = reply.tries
      BY <1>0, <2>2, <3>1, <3>2 DEF Attempt
    <3>3. CASE b[2] < reply.tries
      BY <1>0, <1>00, <2>2, <3>1, <3>3 DEF Chain
    <3> QED BY <1>0, <3>2, <3>3
  <2> DEFINE new == <<reply.cycle, reply.tries + 1>>
  <2>4. /\ Attempt(reply') = new /\ new \in Attempts /\ outcome'[new] = "sending"
        /\ reply'.cycle = reply.cycle /\ reply'.tries = reply.tries + 1
        /\ \A a \in Attempts : a # new => outcome'[a] = outcome[a]
    BY <1>4, TakingOutcomes
  <2>5. new[1] = reply.cycle /\ new[2] = reply.tries + 1
    OBVIOUS
  <2>6. OwnAttemptKnown'
    BY <2>4 DEF OwnAttemptKnown
  <2>7. LaterUnknown'
    BY <1>0, <1>00, <2>4, <2>5 DEF LaterUnknown
  <2>8. Chain'
    <3> SUFFICES ASSUME NEW a \in Attempts, NEW b \in Attempts,
                        a[1] = b[1], b[2] < a[2], outcome'[a] # "none"
                 PROVE  outcome'[b] = "retryable_failure"
      BY DEF Chain
    <3> HIDE DEF new
    <3>1. CASE a = new
      BY <1>0, <2>3, <2>4, <2>5, <3>1
    <3>2. CASE a # new
      <4>1. outcome[a] # "none" /\ outcome[b] = "retryable_failure"
        BY <1>00, <2>4, <3>2 DEF Chain
      <4>2. outcome[new] = "none"
        BY <1>0, <1>00, <2>4, <2>5 DEF LaterUnknown
      <4> QED BY <2>4, <4>1, <4>2
    <3> QED BY <3>1, <3>2
  <2> QED BY <2>6, <2>7, <2>8 DEF ChainInv
<1>5. CASE Ending
  <2>1. /\ reply'.cycle = reply.cycle /\ reply'.tries = reply.tries
        /\ Attempt(reply') = Attempt(reply)
        /\ \A a \in Attempts : a # Attempt(reply) => outcome'[a] = outcome[a]
    BY <1>5, EndingOutcomes
  <2>2. OwnAttemptKnown'
    <3>1. \A o \in Outcomes : reply.tries > 0 /\ outcome' = Settle(o) => outcome'[Attempt(reply)] = o
      BY OwnAttempt, SettleTypes DEF Rowed, TypeOK
    <3>2. \A e \in Errors \ {"none"} :
            FailureOutcome(e) \in Outcomes /\ FailureOutcome(e) # "none"
      BY DEF FailureOutcome, Errors, Outcomes
    <3>3. {"ambiguous", "superseded", "provider_outcome_pending", "retryable_failure",
           "confirmed"} \subseteq Outcomes
      BY DEF Outcomes
    <3>4. reply.tries > 0 => UNCHANGED outcome \/ outcome'[Attempt(reply)] # "none"
      BY <1>5, <3>1, <3>2, <3>3 DEF Ending, Failing, Doubting, Cancelling, Withdrawing,
         Accepting, Requeueing, Confirming
    <3> QED BY <1>00, <2>1, <3>4 DEF OwnAttemptKnown
  <2>3. LaterUnknown'
    BY <1>0, <1>00, <2>1 DEF LaterUnknown
  <2>4. Chain'
    <3> SUFFICES ASSUME NEW a \in Attempts, NEW b \in Attempts,
                        a[1] = b[1], b[2] < a[2], outcome'[a] # "none"
                 PROVE  outcome'[b] = "retryable_failure"
      BY DEF Chain
    <3>1. CASE b = Attempt(reply)
      BY <1>0, <1>00, <2>1, <3>1 DEF LaterUnknown
    <3>2. CASE a = Attempt(reply)
      <4>1. outcome[a] # "none"
        BY <1>0, <1>00, <3>2 DEF OwnAttemptKnown
      <4> QED BY <1>0, <1>00, <2>1, <3>2, <4>1 DEF Chain
    <3>3. CASE a # Attempt(reply) /\ b # Attempt(reply)
      BY <1>00, <2>1, <3>3 DEF Chain
    <3> QED BY <3>1, <3>2, <3>3
  <2> QED BY <2>2, <2>3, <2>4 DEF ChainInv
<1> QED BY <1>1, <1>2, <1>3, <1>4, <1>5 DEF CalmRows, RowStep

\* A row of an attempt stays, and once it is confirmed or superseded it stays so.
LEMMA KnownStays ==
  ASSUME Rowed, PublicationConstants, RowStep, NEW a \in Attempts
  PROVE  /\ outcome[a] # "none" => outcome'[a] # "none"
         /\ outcome[a] \in {"confirmed", "superseded"} => outcome'[a] = outcome[a]
<1>0. Attempt(reply)[2] = reply.tries /\ a[2] > 0 /\ reply.tries \in Nat
  BY DEF Attempts, Attempt, Rowed, TypeOK, Replies, PublicationConstants
<1>1. CASE Starting
  BY <1>1, StartingRow
<1>2. CASE Taking
  <2>1. a # Attempt(reply') => outcome'[a] = outcome[a]
    BY <1>2, TakingOutcomes
  <2>2. a = Attempt(reply') => a[1] = reply.cycle /\ a[2] > reply.tries
    BY <1>0, <1>2, TakingOutcomes
  <2>3. a = Attempt(reply') => outcome[a] = "none"
    BY <2>2 DEF Rowed, AttemptInv, LaterUnknown
  <2>4. outcome[a] # "none" => outcome'[a] = outcome[a]
    BY <2>1, <2>3
  <2> QED BY <2>4
<1>3. CASE Ending
  <2>1. a # Attempt(reply) => outcome'[a] = outcome[a]
    BY <1>3, EndingOutcomes
  <2>2. CASE a = Attempt(reply)
    <3>1. reply.tries # 0
      BY <1>0, <2>2
    <3>2. outcome'[a] # "none"
      BY <1>3, <2>2, <3>1, ChainStep, EndingOutcomes
      DEF CalmRows, RowStep, ChainInv, OwnAttemptKnown, Rowed, TypeOK, Replies
    <3>3. Withdrawing \/ outcome[a] \notin {"confirmed", "superseded"}
      BY <1>3, <2>2, <3>1 DEF Ending, Failing, Doubting, Cancelling, Accepting, Requeueing,
         Confirming, Rowed, AttemptAgreesWithReply, SeemsUnknown, InFlight, CycleIsOpen,
         RowInv, StatusAgrees, NoOpenCycle, TypeOK, Replies, Statuses
    <3>4. Withdrawing => outcome'[a] = outcome[a]
      BY DEF Withdrawing
    <3> QED BY <3>2, <3>3, <3>4
  <2> QED BY <2>1, <2>2
<1> QED BY <1>1, <1>2, <1>3 DEF CalmRows, RowStep, Drafting

-----------------------------------------------------------------------------
(* How a step changes what the processes hold. *)

Local == proc \in [Procs -> ProcStates] /\ RunsCounted /\ LapsesAuthorized

\* Nobody begins a call or goes on with it.
Leaving ==
  \A q \in Procs : proc'[q].pc \in Calling =>
    /\ proc'[q].pc = proc[q].pc /\ proc'[q].snap = proc[q].snap
    /\ proc'[q].got = proc[q].got

LEMMA LocalStep ==
  ASSUME Local, PublicationConstants, NEW p \in Procs, NEW x \in ProcStates,
         proc' = [proc EXCEPT ![p] = x],
         x.pc \notin Calling,
         x.pc = "lapse" => x.snap.state = "authorized",
         p \in Workers /\ x.pc # "idle" => x.run > 0
  PROVE  Local' /\ Leaving
<1>1. proc' \in [Procs -> ProcStates]
  BY DEF Local
<1>2. proc'[p] = x /\ \A q \in Procs : q # p => proc'[q] = proc[q]
  BY DEF Local
<1>3. RunsCounted'
  BY <1>2 DEF Local, RunsCounted, Procs
<1>4. LapsesAuthorized'
  BY <1>2 DEF Local, LapsesAuthorized
<1>5. Leaving
  BY <1>2 DEF Leaving
<1> QED BY <1>1, <1>3, <1>4, <1>5 DEF Local

LEMMA RestStep ==
  ASSUME Local, PublicationConstants, NEW p \in Procs, Rest(p)
  PROVE  Local' /\ Leaving /\ UNCHANGED gens
<1>1. Idle \in ProcStates /\ Idle.pc = "idle"
  BY IdleTyped DEF Idle
<1>2. proc' = [proc EXCEPT ![p] = Idle]
  BY DEF Rest
<1>3. Idle.pc \notin Calling /\ Idle.pc # "lapse"
  BY <1>1 DEF Calling
<1> QED BY <1>1, <1>2, <1>3, LocalStep DEF Rest

\* The state of p with its control moved to label l.
LEMMA Moved ==
  ASSUME proc \in [Procs -> ProcStates], NEW p \in Procs, NEW l \in Steps
  PROVE  /\ [proc[p] EXCEPT !.pc = l] \in ProcStates
         /\ [proc[p] EXCEPT !.pc = l].pc = l
         /\ [proc[p] EXCEPT !.pc = l].run = proc[p].run
         /\ [proc[p] EXCEPT !.pc = l].snap = proc[p].snap
         /\ [proc[p] EXCEPT !.pc = l].got = proc[p].got
BY DEF ProcStates

LEMMA GotoStep ==
  ASSUME Local, PublicationConstants, NEW p \in Procs, NEW l \in Steps, Goto(p, l),
         l \notin Calling, l # "lapse", proc[p].pc # "idle"
  PROVE  Local' /\ Leaving /\ UNCHANGED gens
<1> DEFINE x == [proc[p] EXCEPT !.pc = l]
<1>1. x \in ProcStates /\ x.pc = l /\ x.run = proc[p].run
  BY Moved DEF Local
<1>2. proc' = [proc EXCEPT ![p] = x]
  BY DEF Goto
<1>3. p \in Workers => x.run > 0
  BY <1>1 DEF Local, RunsCounted
<1> HIDE DEF x
<1> QED BY <1>1, <1>2, <1>3, LocalStep DEF Goto

-----------------------------------------------------------------------------
(* What the writers of the rows share. *)

\* A failure is written only of an attempt that is dead.
Honest ==
  \A a \in Attempts : outcome'[a] \in Failures => outcome[a] \in Failures \/ Dead(a)

LEMMA HonestSettle ==
  ASSUME Rowed, PublicationConstants, NEW o \in Outcomes,
         outcome' = Settle(o) \/ outcome' = outcome,
         o \in Failures /\ reply.tries > 0 =>
           outcome[Attempt(reply)] \in Failures \/ Dead(Attempt(reply))
  PROVE  Honest
<1>1. CASE outcome' = outcome
  BY <1>1 DEF Honest
<1>2. CASE outcome' = Settle(o)
  <2>1. reply.tries \in Nat
    BY DEF Rowed, TypeOK, Replies, PublicationConstants
  <2>2. CASE reply.tries = 0
    BY <1>2, <2>2 DEF Settle, Honest
  <2>3. CASE reply.tries > 0
    <3>1. Attempt(reply) \in Attempts
      BY <2>3, OwnAttempt
    <3>2. /\ outcome'[Attempt(reply)] = o
          /\ \A a \in Attempts : a # Attempt(reply) => outcome'[a] = outcome[a]
      BY <1>2, <2>3, <3>1, SettleTypes DEF Rowed, TypeOK
    <3> QED BY <2>3, <3>2 DEF Honest
  <2> QED BY <2>1, <2>2, <2>3
<1> QED BY <1>1, <1>2

LEMMA MarkTerminalStep ==
  ASSUME Rowed, PublicationConstants, Written, NEW p, NEW e \in Errors \ {"none"},
         MarkTerminal(p, e),
         e = "ambiguous" /\ StillAsRead(p) => reply.state = "ambiguous",
         e # "ambiguous" /\ StillAsRead(p) /\ reply.tries > 0 =>
           \/ reply.state = "authorized"
           \/ Dead(Attempt(reply))
  PROVE  CalmRows /\ Honest
<1>1. FailureOutcome(e) \in Outcomes /\ (FailureOutcome(e) \in Failures => e # "ambiguous")
  BY DEF FailureOutcome, Outcomes, Failures, Errors
<1>2. CASE UNCHANGED <<reply, outcome>>
  BY <1>2 DEF CalmRows, Honest
<1>3. CASE /\ StillAsRead(p) /\ reply.state \in {"authorized", "sending", "ambiguous"}
           /\ reply' = Terminal(reply, e) /\ outcome' = Settle(FailureOutcome(e))
  <2>1. Becomes("publish_failed", "terminal", e)
    BY <1>3, TerminalRow DEF Rowed, TypeOK
  <2>2. CalmRows
    BY <1>3, <2>1 DEF CalmRows, Ending, Failing
  <2>3. reply.tries > 0 /\ reply.state = "authorized" => outcome[Attempt(reply)] \in Failures
    BY DEF Rowed, AttemptAgreesWithReply, AttemptInv, OwnAttemptKnown, Failures
  <2>4. Honest
    BY <1>1, <1>3, <2>3, HonestSettle
  <2> QED BY <2>2, <2>4
<1> QED BY <1>2, <1>3 DEF MarkTerminal

LEMMA MarkAmbiguousStep ==
  ASSUME Rowed, PublicationConstants, Written, NEW p, MarkAmbiguous(p)
  PROVE  CalmRows /\ Honest
<1>1. "ambiguous" \in Outcomes /\ "ambiguous" \notin Failures
  BY DEF Outcomes, Failures
<1>2. CASE UNCHANGED <<reply, outcome>>
  BY <1>2 DEF CalmRows, Honest
<1>3. CASE /\ reply.state \in {"sending", "pending_observation"}
           /\ reply' = Ambiguous(reply) /\ outcome' = Settle("ambiguous")
  <2>1. CalmRows
    BY <1>3, AmbiguousRow DEF CalmRows, Ending, Doubting, Rowed, TypeOK
  <2>2. Honest
    BY <1>1, <1>3, HonestSettle
  <2> QED BY <2>1, <2>2
<1> QED BY <1>2, <1>3 DEF MarkAmbiguous

LEMMA CancellingStep ==
  ASSUME Rowed, PublicationConstants, Written, reply' = Cancelled(reply),
         outcome' = Settle("superseded"), CycleIsOpen \/ SeemsUnknown(reply)
  PROVE  CalmRows /\ Honest
<1>1. "superseded" \in Outcomes /\ "superseded" \notin Failures
  BY DEF Outcomes, Failures
<1>2. CalmRows
  BY CancelledRow DEF CalmRows, Ending, Cancelling, Rowed, TypeOK
<1>3. Honest
  BY <1>1, HonestSettle
<1> QED BY <1>2, <1>3

LEMMA CancelCycleStep ==
  ASSUME Rowed, PublicationConstants, Written, NEW p, CancelCycle(p)
  PROVE  CalmRows /\ Honest
<1>1. CASE UNCHANGED <<reply, outcome>>
  BY <1>1 DEF CalmRows, Honest
<1>2. CASE /\ reply.state \in {"authorized", "sending", "pending_observation"}
           /\ reply' = Cancelled(reply) /\ outcome' = Settle("superseded")
  BY <1>2, CancellingStep DEF CycleIsOpen, InFlight
<1> QED BY <1>1, <1>2 DEF CancelCycle

-----------------------------------------------------------------------------
(* Every step but those of a call is calm: it changes the rows as above and   *)
(* leaves the calls to their callers.                                         *)

Surroundings ==
  /\ call \in [Attempts -> Calls]
  /\ fence \in [over : Texts, moved : BOOLEAN, current : BOOLEAN]
  /\ head \in [text : Texts, scoped : BOOLEAN]
  /\ absentReads \in 0..(GraceReads + 1) /\ age \in 0..LadderAge
  /\ job \in Jobs
  /\ google \in [holds : Texts, shows : Texts, outside : 0..MaxOutside]
  /\ edits \in 0..MaxEdits
  /\ gens \in SUBSET (Procs \X Procs)

Calm == CalmRows /\ Honest /\ Local' /\ Leaving /\ UNCHANGED call /\ Surroundings'

LEMMA WhatIsKnown ==
  ASSUME IInv
  PROVE  Rowed /\ Local /\ Surroundings /\ CallerInv /\ CallsAreClaimed /\ reply \in Rows
BY DEF IInv, Rowed, Local, Surroundings, TypeOK, AttemptInv, Rows

LEMMA AgeTyped ==
  ASSUME age \in 0..LadderAge, AgeWhileOpen
  PROVE  age' \in 0..LadderAge
BY DEF AgeWhileOpen, LadderAge

LEMMA Unwritten ==
  ASSUME UNCHANGED <<reply, outcome>>, Written
  PROVE  CalmRows /\ Honest
BY DEF CalmRows, Honest

\* What a worker with a run of its own makes of its job.
LEMMA WorkersJob ==
  ASSUME IInv, PublicationConstants, NEW w \in Workers, proc[w].pc # "idle",
         NEW threw, EndJob(w, threw), UNCHANGED wrote
  PROVE  Written /\ job' \in Jobs
<1>1. proc[w] \in ProcStates /\ proc[w].run > 0 /\ job \in Jobs
  BY WhatIsKnown DEF Local, RunsCounted, Surroundings, Procs
<1>2. proc[w].run \in Runs
  BY <1>1 DEF ProcStates
<1> QED BY <1>1, <1>2, EndJobTypes DEF Written

LEMMA VerdictDead ==
  ASSUME IInv, PublicationConstants, NEW w \in Procs, proc[w].pc = "verdict",
         proc[w].got \in {"retryable", "terminal_rejection"}
  PROVE  Dead(Attempt(proc[w].snap))
<1>1. ~MayBeOnGoogle(Attempt(proc[w].snap))
  BY DEF IInv, CallerInv, CallerTells, Failures
<1>2. \A v \in Procs : ~(proc[v].pc = "call" /\ Attempt(proc[v].snap) = Attempt(proc[w].snap))
  BY DEF IInv, CallerInv, OneCaller, Calling
<1> QED BY <1>1, <1>2 DEF Dead

LEMMA RecordVerdictCalm ==
  ASSUME IInv, PublicationConstants, NEW w \in Workers, RecordVerdict(w)
  PROVE  Calm
<1>1. /\ Rowed /\ Local /\ Surroundings /\ w \in Procs
      /\ proc[w].pc = "verdict" /\ Rest(w) /\ AgeWhileOpen
      /\ UNCHANGED <<call, wrote, fence, head, absentReads, google, edits>>
      /\ \E threw : EndJob(w, threw)
  BY WhatIsKnown DEF RecordVerdict, Procs
<1>2. Local' /\ Leaving /\ UNCHANGED gens
  BY <1>1, RestStep
<1>3. Written /\ job' \in Jobs
  BY <1>1, WorkersJob
<1>4. Surroundings'
  BY <1>1, <1>2, <1>3, AgeTyped DEF Surroundings
<1>5. proc[w].snap.state = "sending"
  BY <1>1 DEF IInv, CallerInv, CallersClaimed, Calling
<1>6. StillAsRead(w) => reply.state = "sending" /\ Attempt(reply) = Attempt(proc[w].snap)
  BY <1>5 DEF StillAsRead
<1>7. "retryable" \in Errors \ {"none"} /\ "terminal_rejection" \in Errors \ {"none"}
  BY DEF Errors
<1>8. UNCHANGED <<reply, outcome>> => CalmRows /\ Honest
  BY <1>3, Unwritten
<1>9. ASSUME StillAsRead(w), reply' = [reply EXCEPT !.state = "pending_observation"],
             outcome' = Settle("provider_outcome_pending")
      PROVE  CalmRows /\ Honest
  <2>1. "pending_observation" \in States /\ "provider_outcome_pending" \in Outcomes
    BY DEF States, Outcomes
  <2>2. CalmRows
    BY <1>1, <1>3, <1>6, <1>9, <2>1, StateRow DEF CalmRows, Ending, Accepting, Rowed, TypeOK
  <2>3. Honest
    BY <1>1, <1>9, <2>1, HonestSettle DEF Failures
  <2> QED BY <2>2, <2>3
<1>10. ASSUME proc[w].got = "retryable", StillAsRead(w),
              reply' = [reply EXCEPT !.state = "authorized"],
              outcome' = Settle("retryable_failure")
       PROVE  CalmRows /\ Honest
  <2>1. "authorized" \in States /\ "retryable_failure" \in Outcomes
    BY DEF States, Outcomes
  <2>2. CalmRows
    BY <1>1, <1>3, <1>6, <1>10, <2>1, StateRow DEF CalmRows, Ending, Requeueing, Rowed, TypeOK
  <2>3. Dead(Attempt(reply))
    BY <1>1, <1>6, <1>10, VerdictDead
  <2>4. Honest
    BY <1>1, <1>10, <2>1, <2>3, HonestSettle
  <2> QED BY <2>2, <2>4
<1>11. ASSUME proc[w].got \in {"retryable", "terminal_rejection"}, MarkTerminal(w, proc[w].got)
       PROVE  CalmRows /\ Honest
  <2>1. StillAsRead(w) => Dead(Attempt(reply))
    BY <1>1, <1>6, <1>11, VerdictDead
  <2>2. proc[w].got \in Errors \ {"none"} /\ proc[w].got # "ambiguous"
    BY <1>7, <1>11
  <2> QED BY <1>1, <1>3, <1>11, <2>1, <2>2, MarkTerminalStep
<1>12. MarkAmbiguous(w) => CalmRows /\ Honest
  BY <1>1, <1>3, MarkAmbiguousStep
<1>13. CalmRows /\ Honest
  BY <1>8, <1>9, <1>10, <1>11, <1>12 DEF RecordVerdict, ProvenNotApplied
<1> QED BY <1>1, <1>2, <1>4, <1>13 DEF Calm

LEMMA PrereadFailsCalm ==
  ASSUME IInv, PublicationConstants, NEW w \in Workers,
         NEW class \in {"retryable", "terminal_rejection", "cancelled"}, PrereadFails(w, class)
  PROVE  Calm
<1>1. /\ Rowed /\ Local /\ Surroundings /\ w \in Procs
      /\ proc[w].pc = "read" /\ proc[w].snap.state = "authorized" /\ Rest(w)
      /\ UNCHANGED <<call, wrote, fence, head, absentReads, age, google, edits>>
      /\ \E threw : EndJob(w, threw)
  BY WhatIsKnown DEF PrereadFails, ReadsBeforeClaim, Procs
<1>2. Local' /\ Leaving /\ UNCHANGED gens
  BY <1>1, RestStep
<1>3. Written /\ job' \in Jobs
  BY <1>1, WorkersJob
<1>4. Surroundings'
  BY <1>1, <1>2, <1>3 DEF Surroundings
<1>5. StillAsRead(w) => reply.state = "authorized"
  BY <1>1 DEF StillAsRead
<1>6. ASSUME NEW e \in {"retryable", "terminal_rejection"}, MarkTerminal(w, e)
      PROVE  CalmRows /\ Honest
  <2>1. e \in Errors \ {"none"} /\ e # "ambiguous"
    BY <1>6 DEF Errors
  <2> QED BY <1>1, <1>3, <1>5, <1>6, <2>1, MarkTerminalStep
<1>7. UNCHANGED <<reply, outcome>> => CalmRows /\ Honest
  BY <1>3, Unwritten
<1>8. CancelCycle(w) => CalmRows /\ Honest
  BY <1>1, <1>3, CancelCycleStep
<1>9. CalmRows /\ Honest
  BY <1>6, <1>7, <1>8 DEF PrereadFails
<1> QED BY <1>1, <1>2, <1>4, <1>9 DEF Calm

LEMMA StartJobCalm ==
  ASSUME IInv, PublicationConstants, NEW w \in Workers, StartJob(w)
  PROVE  Calm
<1>1. /\ Rowed /\ Local /\ Surroundings /\ w \in Procs /\ reply \in Rows
      /\ UNCHANGED <<reply, outcome, call, wrote, fence, head, absentReads, age,
                     google, edits, gens>>
  BY WhatIsKnown DEF StartJob, Procs
<1> DEFINE l == IF reply.state = "sending" THEN "evidence" ELSE "read"
           x == [[Idle EXCEPT !.snap = reply, !.run = job.made + 1,
                              !.target = Attempt(reply)] EXCEPT !.pc = l]
<1>2. CASE proc' = [proc EXCEPT ![w] = x] /\ job' = [job EXCEPT !.holder = w]
  <2>1. job.made + 1 \in Runs /\ job.made + 1 > 0 /\ job \in Jobs
    BY <1>1 DEF Surroundings, Jobs, Runs, PublicationConstants
  <2>2. Attempt(reply) \in Targets /\ l \in Steps
    BY <1>1 DEF Attempt, Targets, Rowed, TypeOK, Replies, Steps
  <2>3. x \in ProcStates
    BY <1>1, <2>1, <2>2, ProcShapes
  <2>4. x.pc \in {"evidence", "read"} /\ x.run = job.made + 1
    BY DEF Idle
  <2> HIDE DEF x
  <2>5. Local' /\ Leaving
    BY <1>1, <1>2, <2>1, <2>3, <2>4, LocalStep DEF Calling
  <2>6. job' \in Jobs /\ job'.used = job.used
    BY <1>1, <1>2, <2>1 DEF Jobs
  <2> QED BY <1>1, <2>5, <2>6, Unwritten DEF Calm, Written, Surroundings
<1>3. CASE UNCHANGED proc /\ job' = [job EXCEPT !.open = FALSE, !.holder = NoProc]
  <2>1. job' \in Jobs /\ job'.used = job.used
    BY <1>1, <1>3 DEF Jobs, Surroundings
  <2>2. Local' /\ Leaving
    BY <1>1, <1>3 DEF Local, Leaving, RunsCounted, LapsesAuthorized
  <2> QED BY <1>1, <2>1, <2>2, Unwritten DEF Calm, Written, Surroundings
<1> QED BY <1>2, <1>3 DEF StartJob

LEMMA ReloadCalm ==
  ASSUME IInv, PublicationConstants, NEW w \in Workers, Reload(w)
  PROVE  Calm
<1>1. /\ Rowed /\ Local /\ Surroundings /\ w \in Procs /\ reply \in Rows
      /\ proc[w].pc = "reload"
      /\ UNCHANGED <<reply, outcome, call, wrote, fence, head, absentReads, age, google, edits>>
  BY WhatIsKnown DEF Reload, Procs
<1>2. CASE /\ proc' = [proc EXCEPT ![w].snap = reply, ![w].pc = "claim"]
           /\ UNCHANGED <<job, gens>>
  <2> DEFINE x == [proc[w] EXCEPT !.snap = reply, !.pc = "claim"]
  <2>1. proc[w] \in ProcStates /\ "claim" \in Steps
    BY <1>1 DEF Local, Steps
  <2>2. x \in ProcStates /\ x.pc = "claim" /\ x.run = proc[w].run
    BY <1>1, <2>1 DEF ProcStates
  <2>3. proc' = [proc EXCEPT ![w] = x]
    BY <1>2
  <2>4. x.run > 0
    BY <1>1, <2>2 DEF Local, RunsCounted
  <2> HIDE DEF x
  <2>5. Local' /\ Leaving
    BY <1>1, <2>2, <2>3, <2>4, LocalStep DEF Calling
  <2> QED BY <1>1, <1>2, <2>5, Unwritten DEF Calm, Written, Surroundings
<1>3. CASE Rest(w) /\ EndJob(w, FALSE)
  <2>1. Local' /\ Leaving /\ UNCHANGED gens
    BY <1>1, <1>3, RestStep
  <2>2. Written /\ job' \in Jobs
    BY <1>1, <1>3, WorkersJob
  <2> QED BY <1>1, <2>1, <2>2, Unwritten DEF Calm, Surroundings
<1> QED BY <1>2, <1>3 DEF Reload

\* The worker whose claim, permit or source was refused ends its run.
LEMMA RefusedCalm ==
  ASSUME IInv, PublicationConstants, NEW w \in Workers,
         ClaimRefused(w) \/ AfterLostClaim(w) \/ SourceRefused(w)
  PROVE  Calm
<1>1. /\ Rowed /\ Local /\ Surroundings /\ w \in Procs
      /\ proc[w].pc # "idle" /\ Rest(w) /\ EndJob(w, FALSE)
      /\ CancelCycle(w) \/ UNCHANGED <<reply, outcome>>
      /\ UNCHANGED <<call, wrote, fence, head, absentReads, google, edits>>
      /\ UNCHANGED age \/ AgeWhileOpen
  BY WhatIsKnown DEF ClaimRefused, AfterLostClaim, SourceRefused, Procs
<1>2. Local' /\ Leaving /\ UNCHANGED gens
  BY <1>1, RestStep
<1>3. Written /\ job' \in Jobs
  BY <1>1, WorkersJob
<1>4. Surroundings'
  BY <1>1, <1>2, <1>3, AgeTyped DEF Surroundings
<1>5. CalmRows /\ Honest
  BY <1>1, <1>3, Unwritten, CancelCycleStep
<1> QED BY <1>1, <1>2, <1>4, <1>5 DEF Calm

LEMMA LostClaimCalm ==
  ASSUME IInv, PublicationConstants, NEW w \in Workers, Claim(w), ~Claimable(w)
  PROVE  Calm
<1>1. /\ Rowed /\ Local /\ Surroundings /\ w \in Procs
      /\ proc[w].pc = "claim" /\ Goto(w, "moved")
      /\ UNCHANGED <<reply, outcome, job, age, call, wrote, fence, head, absentReads,
                     google, edits>>
  BY WhatIsKnown DEF Claim, Procs
<1>2. "moved" \in Steps /\ "moved" \notin Calling
  BY DEF Steps, Calling
<1>3. Local' /\ Leaving /\ UNCHANGED gens
  BY <1>1, <1>2, GotoStep
<1> QED BY <1>1, <1>3, Unwritten DEF Calm, Written, Surroundings

LEMMA ManagerCalm ==
  ASSUME IInv, PublicationConstants, Manager
  PROVE  Calm
<1>1. /\ Rowed /\ Local /\ Surroundings
      /\ UNCHANGED <<call, head, google, edits, proc, gens>>
  BY WhatIsKnown DEF Manager, SaveDraft, SubmitReply, RejectReply, ApproveReply,
     RetryPublication, EditPublished, CancelUndispatched, Authorize, Quiet, local
<1>2. Local' /\ Leaving
  BY <1>1 DEF Local, Leaving, RunsCounted, LapsesAuthorized
<1>3. ASSUME NEW t \in Drafts, Authorize(t),
             \/ NoOpenCycle
             \/ reply.state = "published"
             \/ reply.state = "terminal" /\ reply.error # "ambiguous"
      PROVE  CalmRows /\ Honest /\ Surroundings'
  <2>1. CalmRows /\ Honest
    BY <1>3 DEF CalmRows, Starting, Honest, Authorize
  <2>2. head.text \in Texts
    BY <1>1 DEF Surroundings
  <2>3. fence' \in [over : Texts, moved : BOOLEAN, current : BOOLEAN]
    BY <1>3, <2>2 DEF Authorize
  <2>4. job' \in Jobs
    BY <1>3 DEF Authorize, Jobs, PublicationConstants
  <2>5. absentReads' \in 0..(GraceReads + 1) /\ age' \in 0..LadderAge
    BY <1>3 DEF Authorize, PublicationConstants, LadderAge
  <2> QED BY <1>1, <2>1, <2>3, <2>4, <2>5 DEF Surroundings
<1>4. ASSUME NEW s \in {"draft", "pending_approval", "rejected"}, NEW t \in Drafts,
             NoOpenCycle, Quiet,
             reply' = [reply EXCEPT !.status = s, !.text = t]
      PROVE  CalmRows /\ Honest /\ Surroundings'
  <2>1. s \in Statuses /\ reply \in Replies
    BY <1>1 DEF Statuses, Rowed, TypeOK
  <2>2. reply' \in Replies
    BY <1>4, <2>1 DEF Replies
  <2>3. Drafting
    BY <1>4, <2>1, <2>2 DEF Drafting, Quiet, Replies, Written
  <2>4. CalmRows /\ Honest
    BY <1>4, <2>3 DEF CalmRows, Honest, Quiet
  <2> QED BY <1>1, <1>4, <2>4 DEF Surroundings, Quiet
<1>5. reply.text \in Drafts /\ reply \in Replies
  BY <1>1 DEF Rowed, TypeOK, Replies
<1>6. \A s : [reply EXCEPT !.status = s] = [reply EXCEPT !.status = s, !.text = reply.text]
  BY <1>5 DEF Replies
<1>7. ASSUME NEW t \in Drafts, SaveDraft(t) PROVE CalmRows /\ Honest /\ Surroundings'
  BY <1>4, <1>7 DEF SaveDraft
<1>8. ASSUME SubmitReply \/ RejectReply PROVE CalmRows /\ Honest /\ Surroundings'
  <2>1. PICK s \in {"draft", "pending_approval", "rejected"} :
          NoOpenCycle /\ Quiet /\ reply' = [reply EXCEPT !.status = s]
    BY <1>8 DEF SubmitReply, RejectReply
  <2> QED BY <1>4, <1>5, <1>6, <2>1
<1>9. ASSUME NEW t \in Drafts, ApproveReply \/ RetryPublication \/ EditPublished(t)
      PROVE  CalmRows /\ Honest /\ Surroundings'
  BY <1>3, <1>5, <1>9 DEF ApproveReply, RetryPublication, EditPublished, MayBeRetried
<1>10. ASSUME CancelUndispatched PROVE CalmRows /\ Honest /\ Surroundings'
  <2>1. Written
    BY <1>10 DEF CancelUndispatched, Written
  <2> QED BY <1>1, <1>10, <2>1, CancellingStep DEF CancelUndispatched, CycleIsOpen, Surroundings
<1>11. CalmRows /\ Honest /\ Surroundings'
  BY <1>5, <1>7, <1>8, <1>9, <1>10 DEF Manager
<1> QED BY <1>1, <1>2, <1>11 DEF Calm

-----------------------------------------------------------------------------
(* The readers. *)

LEMMA ResumedTyped ==
  ASSUME Local, PublicationConstants, NEW p \in Procs, NEW got \in Verdicts,
         proc[p].pc # "idle"
  PROVE  /\ Resumed(p, got) \in ProcStates
         /\ Resumed(p, got).pc \in {"idle", "reload", "weigh"}
         /\ p \in Workers /\ Resumed(p, got).pc # "idle" => Resumed(p, got).run > 0
<1>1. proc[p].snap \in Rows /\ proc[p].run \in Runs
  BY DEF Local, ProcStates
<1>2. p \in Workers => proc[p].run > 0
  BY DEF Local, RunsCounted
<1>3. "reload" \in Steps /\ "weigh" \in Steps /\ "none" \in Verdicts
  BY DEF Steps, Verdicts
<1> DEFINE kept == [Idle EXCEPT !.snap = proc[p].snap, !.run = proc[p].run, !.got = got]
           reload == [kept EXCEPT !.pc = "reload", !.got = "none"]
           weigh == [kept EXCEPT !.pc = "weigh"]
<1>4. reload \in ProcStates /\ weigh \in ProcStates
  BY <1>1, <1>3, ProcShapes
<1>5. /\ reload.pc = "reload" /\ reload.run = proc[p].run
      /\ weigh.pc = "weigh" /\ weigh.run = proc[p].run
  BY DEF Idle
<1>6. Resumed(p, got) \in {reload, weigh, Idle}
  BY DEF Resumed
<1>7. Idle \in ProcStates /\ Idle.pc = "idle"
  BY IdleTyped DEF Idle
<1> HIDE DEF reload, weigh
<1> QED BY <1>2, <1>4, <1>5, <1>6, <1>7

\* A step of p that leaves the rows alone.
LEMMA ReadsOnly ==
  ASSUME IInv, PublicationConstants, NEW p \in Procs,
         UNCHANGED <<reply, outcome, call, wrote, fence, head, absentReads, age, job,
                     google, edits>>,
         Local', Leaving, gens' \in SUBSET (Procs \X Procs)
  PROVE  Calm
BY Unwritten, WhatIsKnown DEF Calm, Written, Surroundings

LEMMA BeginCalm ==
  ASSUME IInv, PublicationConstants, NEW p \in Sweeps \cup Checks \cup Syncs, Begin(p)
  PROVE  Calm
<1>1. /\ Local /\ Surroundings /\ p \in Procs /\ reply \in Rows /\ p \notin Workers
      /\ UNCHANGED <<reply, outcome, call, wrote, fence, head, absentReads, age, job,
                     google, edits, gens>>
  BY WhatIsKnown DEF Begin, Procs, PublicationConstants
<1>2. ASSUME NEW l \in {"lapse", "evidence", "read"},
             l = "lapse" => reply.state = "authorized",
             proc' = [proc EXCEPT ![p] = [Idle EXCEPT !.snap = reply, !.pc = l]]
      PROVE  Local' /\ Leaving
  <2> DEFINE x == [Idle EXCEPT !.snap = reply, !.pc = l]
  <2>1. l \in Steps
    BY DEF Steps
  <2>2. x \in ProcStates /\ x.pc = l /\ x.snap = reply
    BY <1>1, <2>1, ProcShapes DEF Idle
  <2>3. proc' = [proc EXCEPT ![p] = x]
    BY <1>2
  <2> HIDE DEF x
  <2> QED BY <1>1, <1>2, <2>2, <2>3, LocalStep DEF Calling
<1>3. ASSUME proc' = [proc EXCEPT ![p] = [Idle EXCEPT !.pc = "read"]]
      PROVE  Local' /\ Leaving
  <2> DEFINE x == [Idle EXCEPT !.pc = "read"]
  <2>1. "read" \in Steps
    BY DEF Steps
  <2>2. x \in ProcStates /\ x.pc = "read"
    BY <2>1, ProcShapes DEF Idle
  <2>3. proc' = [proc EXCEPT ![p] = x]
    BY <1>3
  <2> HIDE DEF x
  <2> QED BY <1>1, <2>2, <2>3, LocalStep DEF Calling
<1>4. Local' /\ Leaving
  BY <1>2, <1>3 DEF Begin
<1>5. gens' \in SUBSET (Procs \X Procs)
  BY <1>1 DEF Surroundings
<1> QED BY <1>1, <1>4, <1>5, ReadsOnly

LEMMA LapseCalm ==
  ASSUME IInv, PublicationConstants, NEW p \in Procs, Lapse(p)
  PROVE  Calm
<1>1. /\ Rowed /\ Local /\ Surroundings
      /\ proc[p].pc = "lapse" /\ Rest(p) /\ MarkTerminal(p, "retryable") /\ Written
      /\ UNCHANGED <<call, fence, head, absentReads, age, job, google, edits>>
  BY WhatIsKnown DEF Lapse, Written
<1>2. Local' /\ Leaving /\ UNCHANGED gens
  BY <1>1, RestStep
<1>3. StillAsRead(p) => reply.state = "authorized"
  BY <1>1 DEF StillAsRead, Local, LapsesAuthorized
<1>4. "retryable" \in Errors \ {"none"}
  BY DEF Errors
<1>5. CalmRows /\ Honest
  BY <1>1, <1>3, <1>4, MarkTerminalStep
<1> QED BY <1>1, <1>2, <1>5 DEF Calm, Surroundings

LEMMA AskEvidenceCalm ==
  ASSUME IInv, PublicationConstants, NEW p \in Procs, AskEvidence(p)
  PROVE  Calm
<1>1. Local /\ Surroundings /\ proc[p].pc = "evidence"
  BY WhatIsKnown DEF AskEvidence
<1>2. \E l \in {"settle", "read"} : Goto(p, l)
  BY DEF AskEvidence
<1>3. {"settle", "read"} \subseteq Steps /\ {"settle", "read"} \cap Calling = {}
  BY DEF Steps, Calling
<1>4. Local' /\ Leaving /\ UNCHANGED gens
  BY <1>1, <1>2, <1>3, GotoStep
<1>5. UNCHANGED <<reply, outcome, call, wrote, fence, head, absentReads, age, job,
                  google, edits>>
  BY DEF AskEvidence
<1>6. gens' \in SUBSET (Procs \X Procs)
  BY <1>1, <1>4 DEF Surroundings
<1> QED BY <1>4, <1>5, <1>6, ReadsOnly

LEMMA SettleCalm ==
  ASSUME IInv, PublicationConstants, NEW p \in Procs, SettleNeverDispatched(p)
  PROVE  Calm
<1>1. /\ Rowed /\ Local /\ Surroundings /\ proc[p].pc = "settle"
      /\ Goto(p, "read") \/ Rest(p)
      /\ UNCHANGED <<call, wrote, fence, head, absentReads, google, edits>>
      /\ AgeWhileOpen
  BY WhatIsKnown DEF SettleNeverDispatched
<1>2. "read" \in Steps /\ "read" \notin Calling
  BY DEF Steps, Calling
<1>3. Local' /\ Leaving /\ UNCHANGED gens
  BY <1>1, <1>2, GotoStep, RestStep
<1>4. Written /\ job' \in Jobs
  <2>1. CASE p \in Workers
    BY <1>1, <2>1, WorkersJob DEF SettleNeverDispatched
  <2>2. CASE p \notin Workers
    BY <1>1, <2>2 DEF SettleNeverDispatched, Written, Surroundings
  <2> QED BY <2>1, <2>2
<1>5. Surroundings'
  BY <1>1, <1>3, <1>4, AgeTyped DEF Surroundings
<1>6. ASSUME NeverDispatched(p), reply' = Terminal(reply, "retryable"),
             outcome' = Settle("retryable_failure")
      PROVE  CalmRows /\ Honest
  <2>1. /\ "retryable" \in Errors \ {"none"} /\ "retryable_failure" \in Outcomes
        /\ FailureOutcome("retryable") = "retryable_failure"
    BY DEF Errors, Outcomes, FailureOutcome
  <2>2. SeemsUnknown(reply) /\ Dead(Attempt(reply))
    BY <1>6 DEF NeverDispatched, StillAsRead, Dead, MayBeOnGoogle
  <2>3. Failing("retryable")
    BY <1>1, <1>6, <2>1, <2>2, TerminalRow DEF Failing, Rowed, TypeOK
  <2>4. CalmRows
    BY <1>4, <2>1, <2>3 DEF CalmRows, Ending
  <2>5. Honest
    BY <1>1, <1>6, <2>1, <2>2, HonestSettle
  <2> QED BY <2>4, <2>5
<1>7. CalmRows /\ Honest
  BY <1>4, <1>6, Unwritten DEF SettleNeverDispatched
<1> QED BY <1>1, <1>3, <1>5, <1>7 DEF Calm

LEMMA WeighCalm ==
  ASSUME IInv, PublicationConstants, NEW p \in Procs, Weigh(p)
  PROVE  Calm
<1>1. /\ Rowed /\ Local /\ Surroundings /\ proc[p].pc = "weigh" /\ Rest(p)
      /\ UNCHANGED <<call, wrote, fence, head, absentReads, google, edits>>
      /\ AgeWhileOpen
      /\ \/ UNCHANGED <<reply, outcome>>
         \/ MarkAmbiguous(p)
         \/ proc[p].snap.state = "ambiguous" /\ MarkTerminal(p, "ambiguous")
  BY WhatIsKnown DEF Weigh
<1>3. Local' /\ Leaving /\ UNCHANGED gens
  BY <1>1, RestStep
<1>4. Written /\ job' \in Jobs
  <2>1. CASE p \in Workers
    BY <1>1, <2>1, WorkersJob DEF Weigh
  <2>2. CASE p \notin Workers
    BY <1>1, <2>2 DEF Weigh, Written, Surroundings
  <2> QED BY <2>1, <2>2
<1>5. Surroundings'
  BY <1>1, <1>3, <1>4, AgeTyped DEF Surroundings
<1>6. ASSUME proc[p].snap.state = "ambiguous", MarkTerminal(p, "ambiguous")
      PROVE  CalmRows /\ Honest
  <2>1. "ambiguous" \in Errors \ {"none"}
    BY DEF Errors
  <2>2. StillAsRead(p) => reply.state = "ambiguous"
    BY <1>6 DEF StillAsRead
  <2> QED BY <1>1, <1>4, <1>6, <2>1, <2>2, MarkTerminalStep
<1>7. CalmRows /\ Honest
  BY <1>1, <1>4, <1>6, Unwritten, MarkAmbiguousStep
<1> QED BY <1>1, <1>3, <1>5, <1>7 DEF Calm

LEMMA ReadFailsCalm ==
  ASSUME IInv, PublicationConstants, NEW p \in Procs,
         NEW got \in {"failed", "earlier", "missing"}, ReadFails(p, got)
  PROVE  Calm
<1>1. /\ Local /\ Surroundings /\ proc[p].pc = "read"
      /\ proc' = [proc EXCEPT ![p] = Resumed(p, got)]
      /\ UNCHANGED <<reply, outcome, call, wrote, fence, head, absentReads, age, job,
                     google, edits, gens>>
  BY WhatIsKnown DEF ReadFails
<1>2. got \in Verdicts
  BY DEF Verdicts
<1>3. Local' /\ Leaving
  BY <1>1, <1>2, ResumedTyped, LocalStep DEF Calling
<1>4. gens' \in SUBSET (Procs \X Procs)
  BY <1>1 DEF Surroundings
<1> QED BY <1>1, <1>3, <1>4, ReadsOnly

LEMMA FetchCalm ==
  ASSUME IInv, PublicationConstants, NEW p \in Procs, Fetch(p)
  PROVE  Calm
<1>1. /\ Rowed /\ Local /\ Surroundings /\ proc[p].pc = "read"
      /\ UNCHANGED <<reply, outcome, call, wrote, fence, head, absentReads, age, job,
                     google, edits, gens>>
  BY WhatIsKnown DEF Fetch
<1> DEFINE targets == IF p \in Sweeps \cup Checks THEN Attempt(reply) ELSE proc[p].target
           fresher == proc[p].fresh \/ p \in Sweeps \cup Checks
           x == [proc[p] EXCEPT !.pc = "fetched", !.seen = google.shows,
                                !.target = targets, !.fresh = fresher]
<1>2. proc[p] \in ProcStates
  BY <1>1 DEF Local
<1>3. targets \in Targets /\ fresher \in BOOLEAN /\ google.shows \in Texts /\ "fetched" \in Steps
  BY <1>1, <1>2 DEF Attempt, Targets, Rowed, TypeOK, Replies, Steps, ProcStates
<1>4. proc' = [proc EXCEPT ![p] = x]
  BY DEF Fetch
<1> HIDE DEF targets, fresher
<1>5. x \in ProcStates /\ x.pc = "fetched" /\ x.run = proc[p].run
  BY <1>2, <1>3 DEF ProcStates
<1>6. p \in Workers => x.run > 0
  BY <1>1, <1>5 DEF Local, RunsCounted
<1> HIDE DEF x
<1>7. Local' /\ Leaving
  BY <1>1, <1>4, <1>5, <1>6, LocalStep DEF Calling
<1>8. gens' \in SUBSET (Procs \X Procs)
  BY <1>1 DEF Surroundings
<1> QED BY <1>1, <1>7, <1>8, ReadsOnly

LEMMA AllocateCalm ==
  ASSUME IInv, PublicationConstants, NEW p \in Procs, Allocate(p)
  PROVE  Calm
<1>1. /\ Local /\ Surroundings /\ proc[p].pc = "fetched"
      /\ proc' = [proc EXCEPT ![p].pc = "record"]
      /\ UNCHANGED <<reply, outcome, call, wrote, fence, head, absentReads, age, job,
                     google, edits>>
  BY WhatIsKnown DEF Allocate
<1> DEFINE x == [proc[p] EXCEPT !.pc = "record"]
<1>2. "record" \in Steps
  BY DEF Steps
<1>3. x \in ProcStates /\ x.pc = "record" /\ x.run = proc[p].run
  BY <1>1, <1>2, Moved DEF Local
<1>4. proc' = [proc EXCEPT ![p] = x]
  BY <1>1
<1>5. p \in Workers => x.run > 0
  BY <1>1, <1>3 DEF Local, RunsCounted
<1> HIDE DEF x
<1>6. Local' /\ Leaving
  BY <1>1, <1>3, <1>4, <1>5, LocalStep DEF Calling
<1>7. gens' \in SUBSET (Procs \X Procs)
  BY <1>1 DEF Surroundings, Allocate
<1> QED BY <1>1, <1>6, <1>7, ReadsOnly

\* An open attempt is the Reply's own, and its outcome is not known.
LEMMA OpenIsOwn ==
  ASSUME Rowed, PublicationConstants, NEW a, OpenAttempt(a)
  PROVE  /\ a = Attempt(reply) /\ reply.tries # 0 /\ a \in Attempts
         /\ InFlight(reply) \/ SeemsUnknown(reply)
<1>1. a \in Attempts /\ IsOpen(outcome[a]) /\ a = Attempt(reply)
  BY DEF OpenAttempt, Rowed, AttemptAgreesWithReply
<1>2. reply.tries # 0
  BY <1>1 DEF Attempt, Attempts
<1>3. InFlight(reply) \/ SeemsUnknown(reply)
  BY <1>1, <1>2 DEF Rowed, AttemptAgreesWithReply, IsOpen, InFlight
<1> QED BY <1>1, <1>2, <1>3

LEMMA RecordReadCalm ==
  ASSUME IInv, PublicationConstants, NEW p \in Procs, NEW a, NEW d \in Verdicts,
         proc[p].pc = "record", RecordRead(p, a, d), Written,
         d = "confirmed" => OpenAttempt(a)
  PROVE  CalmRows /\ Honest /\ Local' /\ Leaving
<1>1. Rowed /\ Local /\ proc[p].pc # "idle"
  BY WhatIsKnown
<1> DEFINE others(q) == [proc[q] EXCEPT !.late = @ \/ q \in Overtaken(p)]
<1>2. proc' = [q \in Procs |-> IF q = p THEN Resumed(p, d) ELSE others(q)]
  BY DEF RecordRead
<1>3. \A q \in Procs : /\ others(q) \in ProcStates
                       /\ others(q).pc = proc[q].pc /\ others(q).snap = proc[q].snap
                       /\ others(q).got = proc[q].got /\ others(q).run = proc[q].run
  <2> TAKE q \in Procs
  <2>1. proc[q] \in ProcStates
    BY <1>1 DEF Local
  <2>2. (proc[q].late \/ q \in Overtaken(p)) \in BOOLEAN
    OBVIOUS
  <2>3. \A b \in BOOLEAN : /\ [proc[q] EXCEPT !.late = b] \in ProcStates
                           /\ [proc[q] EXCEPT !.late = b].pc = proc[q].pc
                           /\ [proc[q] EXCEPT !.late = b].snap = proc[q].snap
                           /\ [proc[q] EXCEPT !.late = b].got = proc[q].got
                           /\ [proc[q] EXCEPT !.late = b].run = proc[q].run
    BY <2>1 DEF ProcStates
  <2> QED BY <2>2, <2>3
<1> HIDE DEF others
<1>4. /\ Resumed(p, d) \in ProcStates
      /\ Resumed(p, d).pc \in {"idle", "reload", "weigh"}
      /\ p \in Workers /\ Resumed(p, d).pc # "idle" => Resumed(p, d).run > 0
  BY <1>1, ResumedTyped
<1>5. proc' \in [Procs -> ProcStates]
  BY <1>2, <1>3, <1>4
<1>6. RunsCounted'
  BY <1>1, <1>2, <1>3, <1>4 DEF Local, RunsCounted, Procs
<1>7. LapsesAuthorized'
  BY <1>1, <1>2, <1>3, <1>4 DEF Local, LapsesAuthorized
<1>8. Leaving
  BY <1>2, <1>3, <1>4 DEF Leaving, Calling
<1>9. ASSUME OpenAttempt(a),
             reply' = [reply EXCEPT !.status = "published", !.state = "published"],
             outcome' = [outcome EXCEPT ![a] = "confirmed"]
      PROVE  CalmRows /\ Honest
  <2>1. "published" \in Statuses /\ "published" \in States /\ "confirmed" \in Outcomes
    BY DEF Statuses, States, Outcomes
  <2>2. outcome' = Settle("confirmed")
    BY <1>1, <1>9, OpenIsOwn DEF Settle
  <2>3. CalmRows
    BY <1>1, <1>9, <2>1, <2>2, OpenIsOwn, StatusRow
    DEF CalmRows, Ending, Confirming, Rowed, TypeOK
  <2>4. Honest
    BY <1>1, <2>1, <2>2, HonestSettle DEF Failures
  <2> QED BY <2>3, <2>4
<1>10. ASSUME OpenAttempt(a), reply' = Cancelled(reply),
              outcome' = [outcome EXCEPT ![a] = "superseded"]
       PROVE  CalmRows /\ Honest
  <2>1. outcome' = Settle("superseded")
    BY <1>1, <1>10, OpenIsOwn DEF Settle
  <2> QED BY <1>1, <1>10, <2>1, OpenIsOwn, CancellingStep DEF CycleIsOpen
<1>11. ASSUME reply.state = "authorized", reply.tries = 0, reply' = Cancelled(reply),
              UNCHANGED outcome
       PROVE  CalmRows /\ Honest
  <2>1. outcome' = Settle("superseded")
    BY <1>11 DEF Settle
  <2> QED BY <1>1, <1>11, <2>1, CancellingStep DEF CycleIsOpen
<1>12. CalmRows /\ Honest
  BY <1>9, <1>10, <1>11, Unwritten DEF RecordRead
<1> QED BY <1>5, <1>6, <1>7, <1>8, <1>12 DEF Local

\* What a record is about: its attempt, its decision, and its refusal.
About(p) == IF Targeted(p) THEN proc[p].target ELSE Attempt(reply)
Decided(p) == Decision(About(p), proc[p].seen)
RefusedRead(p) ==
  \/ proc[p].late
  \/ (Targeted(p) /\ (~proc[p].fresh \/ About(p) # Attempt(reply)))

LEMMA RecordCases ==
  ASSUME NEW p \in Procs, Record(p)
  PROVE  /\ proc[p].pc = "record" /\ AgeWhileOpen
         /\ UNCHANGED <<call, wrote, google, edits>>
         /\ \/ ~RefusedRead(p) /\ Persists(p, Decided(p)) /\ RecordRead(p, About(p), Decided(p))
            \/ /\ Release({p})
               /\ \E got \in {"failed", Decided(p)} : proc' = [proc EXCEPT ![p] = Resumed(p, got)]
               /\ UNCHANGED <<reply, outcome, head, fence, absentReads>>
         /\ UNCHANGED job \/ (p \in Workers /\ EndJob(p, FALSE))
BY DEF Record, About, Decided, RefusedRead

LEMMA RecordCalm ==
  ASSUME IInv, PublicationConstants, NEW p \in Procs, Record(p)
  PROVE  Calm
<1>1. /\ Rowed /\ Local /\ Surroundings /\ proc[p].pc = "record" /\ AgeWhileOpen
      /\ UNCHANGED <<call, wrote, google, edits>>
      /\ proc[p] \in ProcStates
  BY RecordCases, WhatIsKnown DEF Local
<1>2. Written /\ job' \in Jobs
  <2>1. CASE p \in Workers /\ EndJob(p, FALSE)
    BY <1>1, <2>1, WorkersJob
  <2>2. CASE UNCHANGED job
    BY <1>1, <2>2 DEF Written, Surroundings
  <2> QED BY <2>1, <2>2, RecordCases
<1>3. Decided(p) \in Verdicts /\ "failed" \in Verdicts
  BY DEF Decided, Decision, Verdicts
<1>4. Decided(p) = "confirmed" => OpenAttempt(About(p))
  BY DEF Decided, Decision
<1>5. \A readers : Release(readers) => gens' \in SUBSET (Procs \X Procs)
  BY <1>1 DEF Release, Surroundings
<1>6. CASE /\ ~RefusedRead(p) /\ RecordRead(p, About(p), Decided(p))
  <2>1. CalmRows /\ Honest /\ Local' /\ Leaving
    BY <1>1, <1>2, <1>3, <1>4, <1>6, RecordReadCalm
  <2>2. gens' \in SUBSET (Procs \X Procs)
    BY <1>5, <1>6 DEF RecordRead
  <2>3. proc[p].seen \in Texts
    BY <1>1 DEF ProcStates
  <2>4. head' \in [text : Texts, scoped : BOOLEAN]
    BY <1>6, <2>3 DEF RecordRead
  <2>5. fence' \in [over : Texts, moved : BOOLEAN, current : BOOLEAN]
    BY <1>1, <1>6 DEF RecordRead, Surroundings
  <2>6. absentReads' \in 0..(GraceReads + 1)
    <3>1. absentReads' = absentReads \/ (absentReads <= GraceReads /\ absentReads' = absentReads + 1)
      BY <1>6 DEF RecordRead
    <3> QED BY <1>1, <3>1 DEF Surroundings, PublicationConstants
  <2> QED BY <1>1, <1>2, <2>1, <2>2, <2>4, <2>5, <2>6, AgeTyped DEF Calm, Surroundings
<1>7. CASE /\ Release({p})
           /\ \E got \in {"failed", Decided(p)} : proc' = [proc EXCEPT ![p] = Resumed(p, got)]
           /\ UNCHANGED <<reply, outcome, head, fence, absentReads>>
  <2>1. PICK got \in Verdicts : proc' = [proc EXCEPT ![p] = Resumed(p, got)]
    BY <1>3, <1>7
  <2>2. Local' /\ Leaving
    BY <1>1, <2>1, ResumedTyped, LocalStep DEF Calling
  <2> QED BY <1>1, <1>2, <1>5, <1>7, <2>2, AgeTyped, Unwritten DEF Calm, Surroundings
<1> QED BY <1>6, <1>7, RecordCases

-----------------------------------------------------------------------------
(* The guest, the clock, losses, and outsiders. *)

LEMMA GuestEditCalm ==
  ASSUME IInv, PublicationConstants, GuestEdit
  PROVE  Calm
<1>1. /\ Rowed /\ Local /\ Surroundings /\ AgeWhileOpen /\ Written
      /\ UNCHANGED <<call, absentReads, job, google, gens>>
  BY WhatIsKnown DEF GuestEdit, Written
<1> DEFINE stale(q) == [proc[q] EXCEPT !.fresh = FALSE]
<1>2. proc' = [q \in Procs |-> IF proc[q].pc \in ReadSteps THEN stale(q) ELSE proc[q]]
  BY DEF GuestEdit
<1>3. \A q \in Procs : /\ stale(q) \in ProcStates
                       /\ stale(q).pc = proc[q].pc /\ stale(q).snap = proc[q].snap
                       /\ stale(q).got = proc[q].got /\ stale(q).run = proc[q].run
  BY <1>1 DEF Local, ProcStates
<1>4. \A q \in Procs : proc[q] \in ProcStates
  BY <1>1 DEF Local
<1> HIDE DEF stale
<1>5. proc' \in [Procs -> ProcStates]
  BY <1>2, <1>3, <1>4
<1>6. RunsCounted'
  BY <1>1, <1>2, <1>3 DEF Local, RunsCounted, Procs
<1>7. LapsesAuthorized'
  BY <1>1, <1>2, <1>3 DEF Local, LapsesAuthorized
<1>8. Leaving
  BY <1>2, <1>3 DEF Leaving
<1>9. Surroundings'
  <2>1. head' \in [text : Texts, scoped : BOOLEAN]
    BY <1>1 DEF GuestEdit, Surroundings
  <2>2. fence' \in [over : Texts, moved : BOOLEAN, current : BOOLEAN]
    BY <1>1 DEF GuestEdit, Surroundings
  <2>3. edits' \in 0..MaxEdits
    BY <1>1 DEF GuestEdit, Surroundings, PublicationConstants
  <2> QED BY <1>1, <2>1, <2>2, <2>3, AgeTyped DEF Surroundings
<1>10. ASSUME reply' = Cancelled(reply), outcome' = Settle("superseded"), CycleIsOpen
       PROVE  CalmRows /\ Honest
  BY <1>1, <1>10, CancellingStep
<1>11. ASSUME TakenBack,
              reply' = [Cancelled(reply) EXCEPT
                          !.state = IF reply.state = "null" THEN "null" ELSE "cancelled"],
              outcome' = IF reply.error = "ambiguous" THEN Settle("superseded") ELSE outcome
       PROVE  CalmRows /\ Honest
  <2> DEFINE s == IF reply.state = "null" THEN "null" ELSE "cancelled"
  <2>1. reply' = [reply EXCEPT !.status = "draft", !.state = s, !.error = "none"]
    BY <1>11 DEF Cancelled
  <2>2. "draft" \in Statuses /\ s \in States /\ "none" \in Errors /\ reply \in Replies
    BY <1>1 DEF Statuses, States, Errors, Rowed, TypeOK
  <2>3. Becomes("draft", s, "none")
    BY <2>1, <2>2, ErrorRow
  <2>4. CASE NoOpenCycle
    <3>1. reply.error = "none" /\ s = reply.state
      BY <1>1, <2>4 DEF Rowed, RowInv, StatusAgrees, NoOpenCycle
    <3>2. UNCHANGED outcome
      BY <1>11, <3>1
    <3>3. Drafting
      BY <1>1, <2>3, <2>4, <3>1, <3>2 DEF Drafting, Becomes
    <3> QED BY <3>2, <3>3 DEF CalmRows, Honest
  <2>5. CASE reply.status = "publish_failed" /\ reply.state = "terminal"
    <3>1. s = "cancelled"
      BY <2>5
    <3>2. CASE reply.error = "ambiguous"
      <4>1. SeemsUnknown(reply)
        BY <2>5, <3>2 DEF SeemsUnknown
      <4>2. reply' = Cancelled(reply)
        BY <2>1, <3>1 DEF Cancelled
      <4> QED BY <1>1, <1>11, <3>2, <4>1, <4>2, CancellingStep
    <3>3. CASE reply.error # "ambiguous"
      <4>1. UNCHANGED outcome
        BY <1>11, <3>3
      <4>2. Withdrawing
        BY <2>3, <2>5, <3>1, <3>3, <4>1 DEF Withdrawing
      <4> QED BY <1>1, <4>1, <4>2 DEF CalmRows, Ending, Honest
    <3> QED BY <3>2, <3>3
  <2> QED BY <1>11, <2>4, <2>5 DEF TakenBack
<1>12. CalmRows /\ Honest
  BY <1>1, <1>10, <1>11, Unwritten DEF GuestEdit, CycleIsOpen
<1> QED BY <1>1, <1>5, <1>6, <1>7, <1>8, <1>9, <1>12 DEF Calm, Local

LEMMA ElseCalm ==
  ASSUME IInv, PublicationConstants,
         \/ Tick \/ LoseJob \/ Echo
         \/ \E p \in Procs : Crash(p)
         \/ \E t \in Foreign \cup {Absent} : Outsider(t)
  PROVE  Calm
<1>1. /\ Rowed /\ Local /\ Surroundings
      /\ UNCHANGED <<reply, outcome, call, wrote, fence, head, absentReads, edits>>
  BY WhatIsKnown DEF Tick, LoseJob, Echo, Crash, Outsider, External
<1>2. CalmRows /\ Honest
  <2>1. job'.used = job.used
    BY <1>1 DEF Tick, LoseJob, Echo, Crash, Outsider, External, Surroundings, Jobs
  <2> QED BY <1>1, <2>1, Unwritten DEF Written
<1>3. Local' /\ Leaving
  <2>1. CASE UNCHANGED proc
    BY <1>1, <2>1 DEF Local, RunsCounted, LapsesAuthorized, Leaving
  <2>2. ASSUME NEW p \in Procs, Crash(p) PROVE Local' /\ Leaving
    <3>1. Idle \in ProcStates /\ Idle.pc = "idle"
      BY IdleTyped DEF Idle
    <3>2. proc' = [proc EXCEPT ![p] = Idle]
      BY <2>2 DEF Crash
    <3>3. Idle.pc \notin Calling /\ Idle.pc # "lapse"
      BY <3>1 DEF Calling
    <3> QED BY <1>1, <3>1, <3>2, <3>3, LocalStep
  <2> QED BY <2>1, <2>2 DEF Tick, LoseJob, Echo, Outsider, External, local
<1>4. Surroundings'
  <2>1. CASE Tick
    BY <1>1, <2>1 DEF Tick, Surroundings, LadderAge, local
  <2>2. CASE LoseJob
    <3>1. job' \in Jobs
      BY <1>1, <2>2 DEF LoseJob, Surroundings, Jobs
    <3> QED BY <1>1, <2>2, <3>1 DEF LoseJob, Surroundings, local
  <2>3. CASE Echo
    <3>1. google' \in [holds : Texts, shows : Texts, outside : 0..MaxOutside]
      BY <1>1, <2>3 DEF Echo, Surroundings
    <3> QED BY <1>1, <2>3, <3>1 DEF Echo, External, Surroundings, local
  <2>4. ASSUME NEW p \in Procs, Crash(p) PROVE Surroundings'
    BY <1>1, <2>4 DEF Crash, Release, Surroundings
  <2>5. ASSUME NEW t \in Foreign \cup {Absent}, Outsider(t) PROVE Surroundings'
    <3>1. t \in Texts /\ google.outside + 1 \in 0..MaxOutside
      <4>1. t \in Texts
        BY DEF Texts
      <4>2. google.outside \in 0..MaxOutside /\ google.outside < MaxOutside
        BY <1>1, <2>5 DEF Outsider, Surroundings
      <4> QED BY <4>1, <4>2 DEF PublicationConstants
    <3>2. \A n \in 0..MaxOutside, u \in Texts : [google EXCEPT !.holds = u, !.outside = n] \in
            [holds : Texts, shows : Texts, outside : 0..MaxOutside]
      BY <1>1 DEF Surroundings
    <3>3. google' = [google EXCEPT !.holds = t, !.outside = google.outside + 1]
      BY <2>5 DEF Outsider
    <3>4. google' \in [holds : Texts, shows : Texts, outside : 0..MaxOutside]
      BY <3>1, <3>2, <3>3
    <3> QED BY <1>1, <2>5, <3>4 DEF Outsider, External, Surroundings, local
  <2> QED BY <2>1, <2>2, <2>3, <2>4, <2>5
<1> QED BY <1>1, <1>2, <1>3, <1>4 DEF Calm

-----------------------------------------------------------------------------
(* The steps of a call. *)

\* Every step of the specification is calm, or one of these.
ClaimTaken(w) == Claim(w) /\ Claimable(w)
CallStep(w) ==
  \/ ClaimTaken(w) \/ AdmitPermit(w) \/ StartPermit(w) \/ SendReply(w)
  \/ \E class \in {"retryable", "terminal_rejection", "ambiguous"} : NotSent(w, class)
  \/ \E class \in {"accepted", "retryable", "terminal_rejection", "ambiguous"} :
       GoogleAnswers(w, class)

LEMMA StepCases ==
  ASSUME IInv, PublicationConstants, Next
  PROVE  \/ Calm
         \/ \E w \in Workers : CallStep(w)
         \/ \E a \in Attempts : Land(a)
<1>1. Workers \subseteq Procs /\ Sweeps \cup Checks \cup Syncs \subseteq Procs
  BY DEF Procs
<1>2. CASE Manager \/ GuestEdit
  BY <1>2, ManagerCalm, GuestEditCalm
<1>3. CASE Google
  BY <1>3, ElseCalm DEF Google
<1>4. CASE Tick \/ LoseJob \/ \E p \in Workers \cup Checks \cup Syncs : Crash(p)
  BY <1>1, <1>4, ElseCalm
<1>5. ASSUME NEW p \in Procs, Reading(p) PROVE Calm
  BY <1>5, AskEvidenceCalm, SettleCalm, ReadFailsCalm, FetchCalm, AllocateCalm, RecordCalm,
     WeighCalm DEF Reading
<1>6. ASSUME NEW w \in Workers, Publish(w) PROVE Calm \/ CallStep(w)
  BY <1>6, StartJobCalm, ReloadCalm, LostClaimCalm, RefusedCalm, RecordVerdictCalm,
     PrereadFailsCalm DEF Publish, CallStep, ClaimTaken
<1>7. ASSUME NEW p \in Sweeps \cup Checks \cup Syncs, Reader(p) PROVE Calm
  BY <1>1, <1>5, <1>7, BeginCalm, LapseCalm DEF Reader
<1> QED BY <1>1, <1>2, <1>3, <1>4, <1>5, <1>6, <1>7 DEF Next

LEMMA ClaimTakenStep ==
  ASSUME IInv, PublicationConstants, NEW w \in Workers, ClaimTaken(w)
  PROVE  Taking /\ Local' /\ Surroundings' /\ CallerInv' /\ CallsAreClaimed'
<1>1. /\ Rowed /\ Local /\ Surroundings /\ w \in Procs /\ proc[w].pc = "claim"
      /\ proc[w] \in ProcStates /\ CallerInv /\ CallsAreClaimed
      /\ UNCHANGED <<call, wrote, fence, head, absentReads, google, edits, gens>>
  BY WhatIsKnown DEF ClaimTaken, Claim, Local, Procs
<1> DEFINE claimed == [reply EXCEPT !.state = "sending", !.tries = @ + 1]
<1>2. /\ reply' = claimed
      /\ outcome' = [outcome EXCEPT ![Attempt(claimed)] = "sending"]
      /\ job' = [job EXCEPT !.used = @ \cup {proc[w].run}]
      /\ age' = 0
      /\ proc' = [proc EXCEPT ![w].snap = claimed, ![w].pc = "call"]
      /\ reply.state = "authorized" /\ proc[w].run \notin job.used
  BY DEF ClaimTaken, Claim, Claimable
<1>3. proc[w].run \in 1..MaxRuns
  BY <1>1 DEF Local, RunsCounted, ProcStates, Runs, PublicationConstants
<1>4. job' \in Jobs /\ job'.used = job.used \cup {proc[w].run}
  <2>1. job.used \cup {proc[w].run} \in SUBSET (1..MaxRuns)
    BY <1>1, <1>3 DEF Surroundings, Jobs
  <2> QED BY <1>1, <1>2, <2>1 DEF Surroundings, Jobs
<1>5. Taking
  BY <1>1, <1>2, <1>3, <1>4 DEF Taking
<1> DEFINE new == Attempt(reply')
<1>6. /\ reply' \in Replies /\ reply'.state = "sending"
      /\ new = <<reply.cycle, reply.tries + 1>>
      /\ new \in Attempts /\ outcome'[new] = "sending"
      /\ \A a \in Attempts : a # new => outcome'[a] = outcome[a]
  BY <1>1, <1>5, TakingOutcomes
<1>7. outcome[new] = "none" /\ call[new] = "none"
  <2>1. new[1] = reply.cycle /\ new[2] > reply.tries
    BY <1>1, <1>6 DEF Rowed, TypeOK, Replies, PublicationConstants
  <2>2. outcome[new] = "none"
    BY <1>1, <1>6, <2>1 DEF Rowed, AttemptInv, LaterUnknown
  <2> QED BY <1>1, <1>6, <2>2 DEF CallsAreClaimed
<1> DEFINE x == [proc[w] EXCEPT !.snap = reply', !.pc = "call"]
<1>8. proc' = [proc EXCEPT ![w] = x]
  BY <1>2
<1>9. x \in ProcStates /\ x.pc = "call" /\ x.run = proc[w].run /\ x.snap = reply'
  <2>1. reply' \in Rows /\ "call" \in Steps
    BY <1>6 DEF Rows, Steps
  <2> QED BY <1>1, <2>1 DEF ProcStates
<1> HIDE DEF x
<1>10. proc' \in [Procs -> ProcStates]
  BY <1>1, <1>8, <1>9 DEF Local
<1>11. proc'[w] = x /\ \A q \in Procs : q # w => proc'[q] = proc[q]
  BY <1>1, <1>8 DEF Local
<1>12. Local'
  BY <1>1, <1>3, <1>9, <1>10, <1>11 DEF Local, RunsCounted, LapsesAuthorized, Procs
<1>13. Surroundings'
  BY <1>1, <1>2, <1>4 DEF Surroundings, LadderAge
<1>14. \A q \in Procs : q # w /\ proc[q].pc \in Calling => Attempt(proc[q].snap) # new
  BY <1>1, <1>7 DEF CallerInv, CallersClaimed
<1> HIDE DEF new
<1>15. CallersClaimed'
  <2> SUFFICES ASSUME NEW v \in Procs, proc'[v].pc \in Calling
               PROVE  /\ proc'[v].snap.state = "sending"
                      /\ Attempt(proc'[v].snap) \in Attempts
                      /\ outcome'[Attempt(proc'[v].snap)] # "none"
    BY DEF CallersClaimed
  <2>1. CASE v = w
    BY <1>6, <1>9, <1>11, <2>1 DEF new
  <2>2. CASE v # w
    BY <1>1, <1>6, <1>11, <2>2 DEF CallerInv, CallersClaimed
  <2> QED BY <2>1, <2>2
<1>16. OneCaller'
  <2>1. Attempt(x.snap) = new
    BY <1>9 DEF new
  <2> QED BY <1>1, <1>11, <1>14, <2>1 DEF CallerInv, OneCaller
<1>17. CallerTells'
  <2>1. Attempt(x.snap) = new
    BY <1>9 DEF new
  <2> QED BY <1>1, <1>7, <1>9, <1>11, <2>1 DEF CallerInv, CallerTells, MayBeOnGoogle
<1>18. FailedAreDead'
  <2> SUFFICES ASSUME NEW a \in Attempts, outcome'[a] \in Failures PROVE Dead(a)'
    BY DEF FailedAreDead
  <2>1. a # new /\ Dead(a)
    BY <1>1, <1>6 DEF CallerInv, FailedAreDead, Failures
  <2>2. Attempt(x.snap) = new
    BY <1>9 DEF new
  <2> QED BY <1>1, <1>11, <2>1, <2>2 DEF Dead, MayBeOnGoogle
<1>19. CallsAreClaimed'
  BY <1>1, <1>6, <1>7 DEF CallsAreClaimed
<1> QED BY <1>5, <1>12, <1>13, <1>15, <1>16, <1>17, <1>18, <1>19 DEF CallerInv

LEMMA CalmCallers ==
  ASSUME IInv, PublicationConstants, Calm
  PROVE  CallerInv' /\ CallsAreClaimed'
<1>1. /\ Rowed /\ CallerInv /\ CallsAreClaimed
      /\ RowStep /\ Honest /\ Leaving /\ UNCHANGED call
  BY WhatIsKnown DEF Calm, RowStep
<1>2. \A a \in Attempts : outcome[a] # "none" => outcome'[a] # "none"
  BY <1>1, KnownStays
<1>3. \A q \in Procs : proc'[q].pc \in Calling =>
        /\ proc'[q].pc = proc[q].pc /\ proc'[q].snap = proc[q].snap
        /\ proc'[q].got = proc[q].got
  BY <1>1 DEF Leaving
<1>4. CallersClaimed'
  BY <1>1, <1>2, <1>3 DEF CallerInv, CallersClaimed
<1>5. OneCaller'
  BY <1>1, <1>3 DEF CallerInv, OneCaller
<1>6. CallerTells'
  BY <1>1, <1>3 DEF CallerInv, CallerTells, Calling, MayBeOnGoogle
<1>7. FailedAreDead'
  <2> SUFFICES ASSUME NEW a \in Attempts, outcome'[a] \in Failures PROVE Dead(a)'
    BY DEF FailedAreDead
  <2>1. Dead(a)
    BY <1>1 DEF Honest, CallerInv, FailedAreDead
  <2> QED BY <1>1, <1>3, <2>1 DEF Dead, MayBeOnGoogle, Calling
<1>8. CallsAreClaimed'
  BY <1>1, <1>2 DEF CallsAreClaimed
<1> QED BY <1>4, <1>5, <1>6, <1>7, <1>8 DEF CallerInv

\* The rows rest while a call goes on.
RowsRest == UNCHANGED <<reply, outcome, wrote, fence, head, absentReads, age, job, edits, gens>>

LEMMA PermitStep ==
  ASSUME IInv, PublicationConstants, NEW w \in Workers, AdmitPermit(w) \/ StartPermit(w)
  PROVE  RowsRest /\ Local' /\ Surroundings' /\ CallerInv' /\ CallsAreClaimed'
<1> DEFINE a == Attempt(proc[w].snap)
<1>1. /\ Local /\ Surroundings /\ CallerInv /\ CallsAreClaimed /\ w \in Procs
      /\ proc[w].pc = "call" /\ outcome[a] = "sending" /\ RowsRest /\ UNCHANGED <<google, proc>>
  BY WhatIsKnown DEF AdmitPermit, StartPermit, PermitCurrent, RowsRest, local, Procs
<1>2. a \in Attempts
  BY <1>1 DEF CallerInv, CallersClaimed, Calling
<1>3. /\ call'[a] \in {"admitted", "started"}
      /\ \A b \in Attempts : b # a => call'[b] = call[b]
      /\ call' \in [Attempts -> Calls]
  BY <1>1, <1>2 DEF AdmitPermit, StartPermit, Surroundings, Calls
<1> HIDE DEF a
<1>4. Local' /\ Surroundings'
  BY <1>1, <1>3 DEF Local, RunsCounted, LapsesAuthorized, Surroundings, RowsRest
<1>5. CallersClaimed' /\ OneCaller'
  BY <1>1 DEF CallerInv, CallersClaimed, OneCaller, RowsRest
<1>6. CallerTells'
  BY <1>1, <1>2, <1>3 DEF CallerInv, CallerTells, CallersClaimed, Calling, MayBeOnGoogle
<1>7. FailedAreDead'
  BY <1>1, <1>2, <1>3 DEF CallerInv, FailedAreDead, Dead, Failures, MayBeOnGoogle, RowsRest
<1>8. CallsAreClaimed'
  BY <1>1, <1>2, <1>3 DEF CallsAreClaimed, RowsRest
<1> QED BY <1>1, <1>4, <1>5, <1>6, <1>7, <1>8 DEF CallerInv

\* The call goes on: p is moved along it.
LEMMA OneMoves ==
  ASSUME Local, PublicationConstants, NEW w \in Workers, NEW l \in {"wait", "verdict"},
         NEW g \in Verdicts, proc[w].pc # "idle",
         \/ proc' = [proc EXCEPT ![w].pc = l] /\ g = proc[w].got
         \/ proc' = [proc EXCEPT ![w].pc = l, ![w].got = g]
  PROVE  /\ Local' /\ proc'[w].pc = l /\ proc'[w].snap = proc[w].snap /\ proc'[w].got = g
         /\ \A q \in Procs : q # w => proc'[q] = proc[q]
<1>1. proc[w] \in ProcStates /\ w \in Procs /\ l \in Steps
  BY DEF Local, Procs, Steps
<1>2. proc' \in [Procs -> ProcStates]
  <2>1. CASE proc' = [proc EXCEPT ![w].pc = l]
    BY <1>1, <2>1, ProcUpdates DEF Local
  <2>2. CASE proc' = [proc EXCEPT ![w].pc = l, ![w].got = g]
    BY <1>1, <2>2, ProcUpdates DEF Local
  <2> QED BY <2>1, <2>2
<1>3. /\ proc'[w].pc = l /\ proc'[w].snap = proc[w].snap /\ proc'[w].got = g
      /\ proc'[w].run = proc[w].run
      /\ \A q \in Procs : q # w => proc'[q] = proc[q]
  BY <1>1 DEF Local, ProcStates
<1>4. RunsCounted' /\ LapsesAuthorized'
  BY <1>1, <1>3 DEF Local, RunsCounted, LapsesAuthorized, Procs
<1> QED BY <1>2, <1>3, <1>4 DEF Local

LEMMA SendStep ==
  ASSUME IInv, PublicationConstants, NEW w \in Workers, SendReply(w)
  PROVE  RowsRest /\ Local' /\ Surroundings' /\ CallerInv' /\ CallsAreClaimed'
<1> DEFINE a == Attempt(proc[w].snap)
<1>1. /\ Local /\ Surroundings /\ CallerInv /\ CallsAreClaimed /\ w \in Procs
      /\ proc[w].pc = "call" /\ call[a] = "started" /\ RowsRest /\ UNCHANGED google
      /\ proc' = [proc EXCEPT ![w].pc = "wait"] /\ call' = [call EXCEPT ![a] = "flying"]
  BY WhatIsKnown DEF SendReply, Goto, RowsRest, Procs
<1>2. a \in Attempts
  BY <1>1 DEF CallerInv, CallersClaimed, Calling
<1>3. /\ call'[a] = "flying" /\ \A b \in Attempts : b # a => call'[b] = call[b]
      /\ call' \in [Attempts -> Calls]
  BY <1>1, <1>2 DEF Surroundings, Calls
<1>4. /\ Local' /\ proc'[w].pc = "wait" /\ proc'[w].snap = proc[w].snap
      /\ \A q \in Procs : q # w => proc'[q] = proc[q]
  <2>1. proc[w].got \in Verdicts
    BY <1>1 DEF Local, ProcStates
  <2> QED BY <1>1, <2>1, OneMoves
<1> HIDE DEF a
<1>5. Surroundings'
  BY <1>1, <1>3 DEF Surroundings, RowsRest
<1>6. CallersClaimed' /\ OneCaller'
  BY <1>1, <1>4 DEF CallerInv, CallersClaimed, OneCaller, RowsRest, Calling
<1>7. \A q \in Procs : q # w /\ proc[q].pc \in Calling => Attempt(proc[q].snap) # a
  BY <1>1 DEF CallerInv, OneCaller, Calling, a
<1>8. CallerTells'
  BY <1>1, <1>2, <1>3, <1>4, <1>7 DEF CallerInv, CallerTells, CallersClaimed, Calling,
     MayBeOnGoogle
<1>9. outcome[a] \notin Failures
  BY <1>1, <1>2 DEF CallerInv, FailedAreDead, Dead, a
<1>10. FailedAreDead'
  BY <1>1, <1>3, <1>4, <1>9 DEF CallerInv, FailedAreDead, Dead, MayBeOnGoogle, RowsRest
<1>11. CallsAreClaimed'
  BY <1>1, <1>2, <1>3 DEF CallsAreClaimed, RowsRest
<1> QED BY <1>1, <1>4, <1>5, <1>6, <1>8, <1>10, <1>11 DEF CallerInv

\* The call ends: what the worker calls failed is not, and will not be, on Google.
LEMMA AnswerStep ==
  ASSUME IInv, PublicationConstants, NEW w \in Workers,
         NEW class \in {"accepted", "retryable", "terminal_rejection", "ambiguous"},
         \/ class # "accepted" /\ NotSent(w, class)
         \/ GoogleAnswers(w, class)
  PROVE  RowsRest /\ Local' /\ Surroundings' /\ CallerInv' /\ CallsAreClaimed'
<1> DEFINE a == Attempt(proc[w].snap)
<1>1. /\ Local /\ Surroundings /\ CallerInv /\ CallsAreClaimed /\ w \in Procs
      /\ proc[w].pc \in {"call", "wait"} /\ RowsRest /\ UNCHANGED google
      /\ proc' = [proc EXCEPT ![w].pc = "verdict", ![w].got = class]
      /\ \/ UNCHANGED call
         \/ call[a] = "flying" /\ call' = [call EXCEPT ![a] = "refused"]
  BY WhatIsKnown DEF NotSent, GoogleAnswers, RowsRest, Procs
<1>2. a \in Attempts
  BY <1>1 DEF CallerInv, CallersClaimed, Calling
<1>3. /\ \A b \in Attempts : call'[b] = call[b] \/ (call[b] = "flying" /\ call'[b] = "refused")
      /\ call' \in [Attempts -> Calls]
  BY <1>1, <1>2 DEF Surroundings, Calls
<1>4. class \in {"retryable", "terminal_rejection"} => call'[a] \notin {"flying", "landed"}
  <2>1. CASE NotSent(w, class)
    BY <1>1, <2>1 DEF NotSent, CallerInv, CallerTells
  <2>2. CASE GoogleAnswers(w, class)
    BY <1>1, <1>2, <2>2 DEF GoogleAnswers, Surroundings
  <2> QED BY <2>1, <2>2
<1>5. /\ Local' /\ proc'[w].pc = "verdict" /\ proc'[w].snap = proc[w].snap
      /\ proc'[w].got = class
      /\ \A q \in Procs : q # w => proc'[q] = proc[q]
  <2>1. class \in Verdicts
    BY DEF Verdicts
  <2> QED BY <1>1, <2>1, OneMoves
<1> HIDE DEF a
<1>6. Surroundings'
  BY <1>1, <1>3 DEF Surroundings, RowsRest
<1>7. CallersClaimed' /\ OneCaller'
  <2>1. \A q \in Procs : proc'[q].pc \in Calling =>
          proc[q].pc \in Calling /\ proc'[q].snap = proc[q].snap
    BY <1>1, <1>5 DEF Calling
  <2> QED BY <1>1, <2>1 DEF CallerInv, CallersClaimed, OneCaller, RowsRest
<1>8. CallerTells'
  <2> SUFFICES ASSUME NEW v \in Procs
               PROVE  /\ proc'[v].pc = "call" =>
                           call'[Attempt(proc'[v].snap)] \in {"none", "admitted", "started"}
                      /\ proc'[v].pc = "verdict" /\ proc'[v].got \in Failures \cup {"retryable"} =>
                           call'[Attempt(proc'[v].snap)] \notin {"flying", "landed"}
    BY DEF CallerTells, MayBeOnGoogle
  <2>1. CASE v = w
    BY <1>4, <1>5, <2>1 DEF Failures, a
  <2>2. CASE v # w
    <3>1. proc'[v] = proc[v] /\ (proc[v].pc \in Calling => Attempt(proc[v].snap) \in Attempts)
      BY <1>1, <1>5, <2>2 DEF CallerInv, CallersClaimed
    <3> QED BY <1>1, <1>3, <3>1 DEF CallerInv, CallerTells, Calling, MayBeOnGoogle
  <2> QED BY <2>1, <2>2
<1>9. FailedAreDead'
  <2> SUFFICES ASSUME NEW b \in Attempts, outcome'[b] \in Failures PROVE Dead(b)'
    BY DEF FailedAreDead
  <2>1. Dead(b)
    BY <1>1 DEF CallerInv, FailedAreDead, RowsRest
  <2> QED BY <1>3, <1>5, <2>1 DEF Dead, MayBeOnGoogle
<1>10. CallsAreClaimed'
  BY <1>1, <1>3 DEF CallsAreClaimed, RowsRest
<1> QED BY <1>1, <1>5, <1>6, <1>7, <1>8, <1>9, <1>10 DEF CallerInv

LEMMA LandStep ==
  ASSUME IInv, PublicationConstants, NEW a \in Attempts, Land(a)
  PROVE  RowsRest /\ Local' /\ Surroundings' /\ CallerInv' /\ CallsAreClaimed'
<1>1. /\ Rowed /\ Local /\ Surroundings /\ CallerInv /\ CallsAreClaimed
      /\ call[a] = "flying" /\ RowsRest /\ UNCHANGED proc
      /\ call' = [call EXCEPT ![a] = "landed"]
      /\ google' = [google EXCEPT !.holds = wrote[a[1]]]
  BY WhatIsKnown DEF Land, External, RowsRest, local
<1>2. /\ call'[a] = "landed" /\ \A b \in Attempts : b # a => call'[b] = call[b]
      /\ call' \in [Attempts -> Calls]
  BY <1>1 DEF Surroundings, Calls
<1>3. wrote[a[1]] \in Texts
  BY <1>1 DEF Rowed, TypeOK, Attempts, Texts
<1>4. google' \in [holds : Texts, shows : Texts, outside : 0..MaxOutside]
  BY <1>1, <1>3 DEF Surroundings
<1>5. Local' /\ Surroundings'
  BY <1>1, <1>2, <1>4 DEF Local, RunsCounted, LapsesAuthorized, Surroundings, RowsRest
<1>6. CallersClaimed' /\ OneCaller'
  BY <1>1 DEF CallerInv, CallersClaimed, OneCaller, RowsRest
<1>7. CallerTells'
  BY <1>1, <1>2 DEF CallerInv, CallerTells, CallersClaimed, Calling, MayBeOnGoogle
<1>8. FailedAreDead'
  BY <1>1, <1>2 DEF CallerInv, FailedAreDead, Dead, MayBeOnGoogle, RowsRest
<1>9. CallsAreClaimed'
  BY <1>1, <1>2 DEF CallsAreClaimed, RowsRest
<1> QED BY <1>1, <1>5, <1>6, <1>7, <1>8, <1>9 DEF CallerInv

-----------------------------------------------------------------------------
(* The head under a write in progress. *)

LEMMA NotBegun ==
  ASSUME Rowed, PublicationConstants, CalmRows, reply'.state = "sending"
  PROVE  reply.state = "sending"
<1>1. ~Starting
  BY StartingRow
<1>2. ~Ending
  BY DEF Ending, Failing, Doubting, Cancelling, Withdrawing, Accepting, Requeueing,
     Confirming, Becomes
<1>3. Drafting => reply'.state = reply.state
  BY DEF Drafting
<1> QED BY <1>1, <1>2, <1>3 DEF CalmRows

\* A read recorded while the Reply is being written confirms it, cancels it, or
\* shows nothing.
LEMMA RecordMovesHead ==
  ASSUME IInv, PublicationConstants, NEW p \in Procs, Record(p), reply.state = "sending",
         fence.current, RecordRead(p, About(p), Decided(p)), ~RefusedRead(p),
         Persists(p, Decided(p)), reply'.state = "sending"
  PROVE  head'.text = Absent
<1>1. Rowed /\ About(p) = Attempt(reply) /\ reply \in Replies
  BY WhatIsKnown DEF About, RefusedRead, Rowed, TypeOK
<1>2. reply.tries > 0 /\ outcome[Attempt(reply)] = "sending"
  BY <1>1 DEF Rowed, AttemptAgreesWithReply, TypeOK, Replies, PublicationConstants
<1>3. OpenAttempt(About(p))
  BY <1>1, <1>2, OwnAttempt DEF OpenAttempt, IsOpen
<1>4. Decided(p) # "confirmed"
  BY <1>1 DEF RecordRead, Replies
<1>5. Decided(p) # "external"
  BY <1>1, <1>3, CancelledRow DEF RecordRead, Becomes
<1>6. Decided(p) # "earlier"
  BY DEF Persists
<1>7. proc[p].seen = Absent
  BY <1>3, <1>4, <1>5, <1>6 DEF Decided, Decision
<1> QED BY <1>7 DEF RecordRead

RecordsRead(p) ==
  /\ Record(p) /\ ~RefusedRead(p) /\ Persists(p, Decided(p))
  /\ RecordRead(p, About(p), Decided(p))

\* How a step moves the head and the fence around the Reply's authorization.
LEMMA HeadMoves ==
  ASSUME Next, reply.text \in Drafts
  PROVE  \/ UNCHANGED <<fence, head>>
         \/ \E t \in Drafts : Authorize(t)
         \/ GuestEdit
         \/ \E p \in Procs : RecordsRead(p)
<1>1. Workers \subseteq Procs /\ Sweeps \cup Checks \cup Syncs \subseteq Procs
  BY DEF Procs
<1>2. CASE Manager
  BY <1>2 DEF Manager, SaveDraft, SubmitReply, RejectReply, ApproveReply, RetryPublication,
     EditPublished, CancelUndispatched, Quiet
<1>3. CASE Google
  BY <1>3 DEF Google, Land, Outsider, Echo, External
<1>4. CASE GuestEdit
  BY <1>4
<1>5. CASE Tick \/ LoseJob \/ \E p \in Workers \cup Checks \cup Syncs : Crash(p)
  BY <1>5 DEF Tick, LoseJob, Crash
<1>6. ASSUME NEW p \in Procs, Reading(p)
      PROVE  UNCHANGED <<fence, head>> \/ RecordsRead(p)
  <2>1. CASE Record(p)
    BY <2>1, RecordCases DEF RecordsRead
  <2>2. CASE AskEvidence(p) \/ SettleNeverDispatched(p) \/ Weigh(p)
    BY <2>2 DEF AskEvidence, SettleNeverDispatched, Weigh
  <2>3. CASE Fetch(p) \/ Allocate(p) \/ \E got \in {"failed", "earlier", "missing"} : ReadFails(p, got)
    BY <2>3 DEF Fetch, Allocate, ReadFails
  <2> QED BY <1>6, <2>1, <2>2, <2>3 DEF Reading
<1>7. ASSUME NEW w \in Workers, Publish(w) PROVE UNCHANGED <<fence, head>>
  BY <1>7 DEF Publish, StartJob, Reload, Claim, ClaimRefused, AfterLostClaim, AdmitPermit,
     StartPermit, SendReply, SourceRefused, RecordVerdict, PrereadFails, NotSent, GoogleAnswers
<1>8. ASSUME NEW p \in Sweeps \cup Checks \cup Syncs, Reader(p)
      PROVE  UNCHANGED <<fence, head>> \/ RecordsRead(p)
  BY <1>1, <1>6, <1>8 DEF Reader, Begin, Lapse
<1> QED BY <1>1, <1>2, <1>3, <1>4, <1>5, <1>6, <1>7, <1>8 DEF Next

LEMMA CallRests ==
  ASSUME IInv, PublicationConstants, NEW w \in Workers, CallStep(w)
  PROVE  ClaimTaken(w) \/ RowsRest
BY PermitStep, SendStep, AnswerStep DEF CallStep, NotSent, GoogleAnswers, RowsRest

LEMMA HeadStep ==
  ASSUME IInv, PublicationConstants, Next
  PROVE  HeadAgrees'
<1>1. Rowed /\ HeadAgrees /\ Surroundings /\ reply.text \in Drafts
  BY WhatIsKnown DEF IInv, Rowed, TypeOK, Replies
<1>2. CASE UNCHANGED <<fence, head>>
  <2>1. reply'.state = "sending" => reply.state = "sending" \/ ~fence.moved
    <3>1. CASE Calm
      BY <1>1, <3>1, NotBegun DEF Calm
    <3>2. ASSUME NEW w \in Workers, CallStep(w) PROVE reply' = reply \/ ~fence.moved
      BY <3>2, CallRests DEF RowsRest, ClaimTaken, Claimable
    <3>3. ASSUME NEW a \in Attempts, Land(a) PROVE reply' = reply
      BY <3>3 DEF Land, External
    <3> QED BY <3>1, <3>2, <3>3, StepCases
  <2> QED BY <1>1, <1>2, <2>1 DEF HeadAgrees
<1>3. ASSUME NEW t \in Drafts, Authorize(t) PROVE HeadAgrees'
  BY <1>3 DEF Authorize, HeadAgrees
<1>4. CASE GuestEdit
  <2>1. head'.text = head.text /\ fence'.over = fence.over /\ fence'.moved = fence.moved
        /\ fence'.current = FALSE
    BY <1>1, <1>4 DEF GuestEdit, Surroundings
  <2> QED BY <1>1, <2>1 DEF HeadAgrees
<1>5. ASSUME NEW p \in Procs, RecordsRead(p) PROVE HeadAgrees'
  <2>1. fence'.moved = TRUE /\ fence'.over = fence.over /\ fence'.current = fence.current
    BY <1>1, <1>5 DEF RecordsRead, RecordRead, Surroundings
  <2>2. reply'.state = "sending" => reply.state = "sending"
    <3>1. CalmRows
      BY <1>5, RecordCalm DEF RecordsRead, Calm
    <3> QED BY <1>1, <3>1, NotBegun
  <2>3. reply'.state = "sending" /\ fence.current => head'.text = Absent
    BY <1>5, <2>2, RecordMovesHead DEF RecordsRead
  <2> QED BY <2>1, <2>3 DEF HeadAgrees
<1> QED BY <1>1, <1>2, <1>3, <1>4, <1>5, HeadMoves

-----------------------------------------------------------------------------
(* The invariant is inductive. *)

LEMMA InitInv ==
  ASSUME PublicationConstants, Init
  PROVE  IInv
<1>1. PICK t \in Drafts : reply = [NoRow EXCEPT !.status = "pending_approval", !.text = t]
  BY DEF Init
<1>2. /\ reply.status = "pending_approval" /\ reply.state = "null" /\ reply.error = "none"
      /\ reply.cycle = 0 /\ reply.tries = 0 /\ reply.text = t
  BY <1>1 DEF NoRow
<1>3. reply \in Replies
  <2>1. /\ "pending_approval" \in Statuses /\ "null" \in States /\ "none" \in Errors
        /\ 0 \in 0..MaxCycle /\ 0 \in 0..MaxRuns
    BY DEF Statuses, States, Errors, PublicationConstants
  <2>2. reply = [status |-> "pending_approval", state |-> "null", error |-> "none",
                 cycle |-> 0, tries |-> 0, text |-> t]
    BY <1>1 DEF NoRow
  <2> QED BY <2>1, <2>2 DEF Replies
<1>4. Absent \in Texts /\ "none" \in Outcomes /\ "none" \in Calls
  BY DEF Texts, Outcomes, Calls
<1>5. \A p \in Procs : proc[p] = Idle
  BY DEF Init
<1>6. Idle \in ProcStates /\ Idle.pc = "idle"
  BY IdleTyped DEF Idle
<1>7. job \in Jobs
  BY DEF Init, Jobs, PublicationConstants
<1>8. TypeOK
  <2>1. proc \in [Procs -> ProcStates]
    BY <1>6 DEF Init
  <2>2. outcome \in [Attempts -> Outcomes] /\ call \in [Attempts -> Calls]
    BY <1>4 DEF Init
  <2>3. /\ fence \in [over : Texts, moved : BOOLEAN, current : BOOLEAN]
        /\ head \in [text : Texts, scoped : BOOLEAN]
        /\ google \in [holds : Texts, shows : Texts, outside : 0..MaxOutside]
    BY <1>4 DEF Init, PublicationConstants
  <2> QED BY <1>3, <1>7, <2>1, <2>2, <2>3 DEF Init, TypeOK, LadderAge, PublicationConstants
<1>9. RowInv
  BY <1>2, FS_EmptySet DEF Init, RowInv, StatusAgrees, CycleAgrees, TriesCount, NoOpenCycle
<1>10. \A a \in Attempts : outcome[a] = "none" /\ call[a] = "none"
  BY DEF Init
<1>11. AttemptAgreesWithReply
  BY <1>2, <1>10 DEF AttemptAgreesWithReply, IsOpen, SeemsUnknown
<1>12. AttemptInv
  BY <1>2, <1>10 DEF AttemptInv, OwnAttemptKnown, LaterUnknown, CallsAreClaimed, Chain
<1>13. CallerInv
  BY <1>5, <1>6, <1>10 DEF CallerInv, CallersClaimed, OneCaller, CallerTells, FailedAreDead,
     Calling, Failures
<1>14. LapsesAuthorized /\ RunsCounted
  BY <1>5, <1>6 DEF LapsesAuthorized, RunsCounted, Procs
<1>15. HeadAgrees
  BY DEF Init, HeadAgrees
<1> QED BY <1>8, <1>9, <1>11, <1>12, <1>13, <1>14, <1>15 DEF IInv

LEMMA RowsStep ==
  ASSUME IInv, PublicationConstants, Next
  PROVE  /\ RowStep /\ Local' /\ Surroundings' /\ CallerInv' /\ CallsAreClaimed'
<1>1. CASE Calm
  BY <1>1, CalmCallers DEF Calm, RowStep
<1>2. RowsRest => RowStep
  BY DEF RowsRest, RowStep, CalmRows, Written
<1>3. ASSUME NEW w \in Workers, CallStep(w)
      PROVE  RowStep /\ Local' /\ Surroundings' /\ CallerInv' /\ CallsAreClaimed'
  <2>1. CASE ClaimTaken(w)
    BY <2>1, ClaimTakenStep DEF RowStep
  <2>2. CASE AdmitPermit(w) \/ StartPermit(w)
    BY <1>2, <2>2, PermitStep
  <2>3. CASE SendReply(w)
    BY <1>2, <2>3, SendStep
  <2>4. ASSUME NEW class \in {"retryable", "terminal_rejection", "ambiguous"}, NotSent(w, class)
        PROVE  RowStep /\ Local' /\ Surroundings' /\ CallerInv' /\ CallsAreClaimed'
    BY <1>2, <2>4, AnswerStep
  <2>5. ASSUME NEW class \in {"accepted", "retryable", "terminal_rejection", "ambiguous"},
               GoogleAnswers(w, class)
        PROVE  RowStep /\ Local' /\ Surroundings' /\ CallerInv' /\ CallsAreClaimed'
    BY <1>2, <2>5, AnswerStep
  <2> QED BY <1>3, <2>1, <2>2, <2>3, <2>4, <2>5 DEF CallStep
<1>4. ASSUME NEW a \in Attempts, Land(a)
      PROVE  RowStep /\ Local' /\ Surroundings' /\ CallerInv' /\ CallsAreClaimed'
  BY <1>2, <1>4, LandStep
<1> QED BY <1>1, <1>3, <1>4, StepCases

LEMMA NextInv ==
  ASSUME IInv, PublicationConstants, [Next]_vars
  PROVE  IInv'
<1>1. CASE UNCHANGED vars
  <2>1. UNCHANGED vars /\ UNCHANGED <<reply, outcome, call, wrote, fence, head, job, proc>>
    BY <1>1 DEF vars
  <2>2. TypeOK'
    BY <1>1 DEF vars, IInv, TypeOK
  <2>3. RowInv'
    BY <2>1 DEF IInv, RowInv, StatusAgrees, CycleAgrees, TriesCount, NoOpenCycle
  <2>4. AttemptAgreesWithReply'
    BY <2>1 DEF IInv, AttemptAgreesWithReply, IsOpen, SeemsUnknown, Attempt
  <2>5. AttemptInv'
    BY <2>1 DEF IInv, AttemptInv, OwnAttemptKnown, LaterUnknown, CallsAreClaimed, Chain, Attempt
  <2>6. CallersClaimed' /\ OneCaller' /\ CallerTells'
    BY <2>1 DEF IInv, CallerInv, CallersClaimed, OneCaller, CallerTells, MayBeOnGoogle
  <2>7. FailedAreDead'
    BY <2>1 DEF IInv, CallerInv, FailedAreDead, Dead, MayBeOnGoogle
  <2>8. LapsesAuthorized' /\ RunsCounted' /\ HeadAgrees'
    BY <2>1 DEF IInv, LapsesAuthorized, RunsCounted, HeadAgrees
  <2> QED BY <2>2, <2>3, <2>4, <2>5, <2>6, <2>7, <2>8 DEF IInv, CallerInv
<1>2. CASE Next
  <2>1. Rowed /\ RowStep /\ Local' /\ Surroundings' /\ CallerInv' /\ CallsAreClaimed'
    BY <1>2, WhatIsKnown, RowsStep
  <2>2. TypeOK'
    BY <2>1, RowTypes DEF TypeOK, Local, Surroundings
  <2>3. RowInv' /\ AttemptAgreesWithReply'
    BY <2>1, RowInvStep, AttemptAgreesStep
  <2>4. AttemptInv'
    BY <2>1, ChainStep DEF AttemptInv, ChainInv
  <2>5. HeadAgrees'
    BY <1>2, HeadStep
  <2> QED BY <2>1, <2>2, <2>3, <2>4, <2>5 DEF IInv, Local
<1> QED BY <1>1, <1>2

LEMMA Invariance == Spec => []IInv
<1>1. Init => IInv
  BY InitInv, PublicationConstants
<1>2. IInv /\ [Next]_vars => IInv'
  BY NextInv, PublicationConstants
<1> QED BY <1>1, <1>2, PTL DEF Spec

-----------------------------------------------------------------------------
(* What is proved of every instance. *)

\* Every row, fence, job and process keeps the shape its readers rely on; a
\* Reply never claims more runs than its job has.
THEOREM PublicationTyped == Spec => []TypeOK
<1>1. IInv => TypeOK
  BY DEF IInv
<1> QED BY <1>1, Invariance, PTL

\* The Reply row and its attempt row tell one story: markReplyPublished,
\* markReplyTerminal, the cancellations and the claims update both.
THEOREM RowsAgree == Spec => []AttemptAgreesWithReply
<1>1. IInv => AttemptAgreesWithReply
  BY DEF IInv
<1> QED BY <1>1, Invariance, PTL

\* What settlement, requeueing or refusal calls a failure is not on Google and
\* never will be, although its worker and its request may still be under way.
THEOREM FailuresAreHonest == Spec => []FailureIsHonest
<1>1. IInv => FailureIsHonest
  BY DEF IInv, CallerInv, FailedAreDead, Failures, Dead, FailureIsHonest
<1> QED BY <1>1, Invariance, PTL

\* The runs of one cycle, stalled, retried or overlapping, put at most one
\* request on Google that was not refused.
THEOREM WritesOncePerCycle == Spec => []OneWritePerCycle
<1>1. ASSUME IInv PROVE OneWritePerCycle
  <2> SUFFICES ASSUME NEW a \in Attempts, NEW b \in Attempts, a[1] = b[1],
                      MayBeOnGoogle(a), MayBeOnGoogle(b), a # b
               PROVE  FALSE
    BY DEF OneWritePerCycle
  <2>1. \A c \in Attempts : MayBeOnGoogle(c) =>
          outcome[c] # "none" /\ outcome[c] # "retryable_failure"
    BY <1>1 DEF IInv, AttemptInv, CallsAreClaimed, CallerInv, FailedAreDead, Dead, Failures,
       MayBeOnGoogle
  <2>2. a[2] # b[2] /\ a[2] \in Nat /\ b[2] \in Nat
    BY DEF Attempts
  <2>3. \A c, d \in Attempts : c[1] = d[1] /\ d[2] < c[2] /\ outcome[c] # "none" =>
          outcome[d] = "retryable_failure"
    BY <1>1 DEF IInv, AttemptInv, Chain
  <2>4. CASE b[2] < a[2]
    BY <2>1, <2>3, <2>4
  <2>5. CASE a[2] < b[2]
    BY <2>1, <2>3, <2>5
  <2> QED BY <2>2, <2>4, <2>5
<1> QED BY <1>1, Invariance, PTL

\* No late verdict, sweep, settlement or read rewrites an attempt that was
\* confirmed or superseded.
THEOREM ClosedStaysClosed == Spec => ClosedAttemptsStayClosed
<1>1. IInv /\ [Next]_vars =>
        [\A a \in Attempts : outcome[a] \in {"confirmed", "superseded"} =>
           outcome'[a] = outcome[a]]_vars
  <2>1. ASSUME IInv, Next, NEW a \in Attempts, outcome[a] \in {"confirmed", "superseded"}
        PROVE  outcome'[a] = outcome[a]
    BY <2>1, PublicationConstants, RowsStep, WhatIsKnown, KnownStays
  <2> QED BY <2>1
<1> QED BY <1>1, Invariance, PTL DEF Spec, ClosedAttemptsStayClosed

\* RetryPublication, ApproveReply and EditPublished find every earlier request
\* that may be on Google confirmed there or given up for another truth.
THEOREM CyclesBeginSettled == Spec => NoNewCycleOverAnUnknown
<1>1. ASSUME IInv, Next, reply'.cycle # reply.cycle, NEW a \in Attempts, MayBeOnGoogle(a)
      PROVE  outcome[a] \in {"confirmed", "superseded"}
  <2>1. Rowed /\ RowStep
    BY <1>1, PublicationConstants, RowsStep, WhatIsKnown
  <2>2. Starting
    BY <1>1, <2>1, PublicationConstants, EndingOutcomes, TakingOutcomes
    DEF RowStep, CalmRows, Drafting
  <2>3. outcome[a] # "none" /\ outcome[a] \notin Failures /\ outcome[a] \in Outcomes
    BY <1>1 DEF IInv, TypeOK, AttemptInv, CallsAreClaimed, CallerInv, FailedAreDead, Dead,
       MayBeOnGoogle
  <2>4. ~IsOpen(outcome[a])
    <3> SUFFICES ASSUME IsOpen(outcome[a]) PROVE FALSE
      OBVIOUS
    <3>1. a = Attempt(reply) /\ reply.tries # 0
      BY <1>1 DEF IInv, AttemptAgreesWithReply, Attempt, Attempts
    <3> QED
      BY <1>1, <2>2, <3>1 DEF IInv, AttemptAgreesWithReply, IsOpen, Starting, NoOpenCycle,
         SeemsUnknown
  <2> QED BY <2>3, <2>4 DEF Outcomes, Failures, IsOpen
<1>2. IInv /\ [Next]_vars =>
        [reply'.cycle # reply.cycle =>
           \A a \in Attempts : MayBeOnGoogle(a) => outcome[a] \in {"confirmed", "superseded"}]_vars
  BY <1>1
<1> QED BY <1>2, Invariance, PTL DEF Spec, NoNewCycleOverAnUnknown

\* The start predicate of a permit lets a write begin only over the reply the
\* manager saw or over none, whatever was observed since the authorization.
THEOREM SeenRepliesAreKept == Spec => NeverOverwritesASeenReply
<1>1. ASSUME IInv, Next, NEW a \in Attempts, call[a] = "admitted", call'[a] = "started"
      PROVE  head.text \in {fence.over, Absent}
  <2>1. call \in [Attempts -> Calls] /\ \A w \in Procs : proc[w].pc \in Calling =>
          Attempt(proc[w].snap) \in Attempts
    BY <1>1 DEF IInv, TypeOK, CallerInv, CallersClaimed
  <2>2. \E w \in Workers : StartPermit(w)
    <3>1. ~Calm
      BY <1>1 DEF Calm
    <3>2. ASSUME NEW b \in Attempts, Land(b) PROVE FALSE
      BY <1>1, <2>1, <3>2 DEF Land
    <3>3. ASSUME NEW w \in Workers, CallStep(w) PROVE StartPermit(w)
      <4>1. proc[w].pc = "call" => Attempt(proc[w].snap) \in Attempts
        BY <2>1 DEF Calling, Procs
      <4>2. ~ClaimTaken(w)
        BY <1>1 DEF ClaimTaken, Claim
      <4>3. ~AdmitPermit(w) /\ ~SendReply(w)
        BY <1>1, <2>1, <4>1 DEF AdmitPermit, SendReply
      <4>4. \A class : ~NotSent(w, class) /\ ~GoogleAnswers(w, class)
        BY <1>1, <2>1 DEF NotSent, GoogleAnswers
      <4> QED BY <3>3, <4>2, <4>3, <4>4 DEF CallStep
    <3> QED BY <1>1, <3>1, <3>2, <3>3, PublicationConstants, StepCases
  <2>3. reply.state = "sending" /\ fence.current
    BY <2>2 DEF StartPermit, PermitCurrent
  <2> QED BY <1>1, <2>3 DEF IInv, HeadAgrees
<1>2. IInv /\ [Next]_vars =>
        [\A a \in Attempts : call[a] = "admitted" /\ call'[a] = "started" =>
           head.text \in {fence.over, Absent}]_vars
  BY <1>1
<1> QED BY <1>2, Invariance, PTL DEF Spec, NeverOverwritesASeenReply
=============================================================================
