----------------------- MODULE PublicationPromiseProofs -----------------------
(***************************************************************************)
(* ReplyPublication implements PublicationPromise, for any number of       *)
(* workers, sweeps, checks and sync readers and any bounds: every step     *)
(* decides at most one cycle, or moves at most one request.                *)
(***************************************************************************)
EXTENDS ReplyPublicationProofs

-----------------------------------------------------------------------------
(* What the attempts of a cycle are. *)

Decisive == {"confirmed", "superseded", "ambiguous"}

Untold == {"none", "retryable_failure"}

\* All attempts of the Reply's cycle but its own failed, or were never made.
LEMMA OthersUntold ==
  ASSUME Rowed, PublicationConstants, NEW a \in Attempts,
         a[1] = reply.cycle, a # Attempt(reply)
  PROVE  outcome[a] \in Untold
<1>1. /\ reply.cycle \in Nat /\ reply.tries \in Nat /\ a = <<a[1], a[2]>> /\ a[2] \in Nat \ {0}
      /\ Attempt(reply)[1] = reply.cycle /\ Attempt(reply)[2] = reply.tries
      /\ Attempt(reply) = <<reply.cycle, reply.tries>>
  BY DEF Attempts, Attempt, Rowed, TypeOK, Replies, PublicationConstants
<1>2. OwnAttemptKnown /\ LaterUnknown /\ Chain
  BY DEF Rowed, AttemptInv
<1>3. CASE a[2] > reply.tries
  BY <1>2, <1>3 DEF LaterUnknown, Untold
<1>4. CASE a[2] < reply.tries
  <2>1. Attempt(reply) \in Attempts /\ outcome[Attempt(reply)] # "none"
    BY <1>1, <1>2, <1>4, OwnAttempt DEF OwnAttemptKnown
  <2> QED BY <1>1, <1>2, <1>4, <2>1 DEF Chain, Untold
<1> QED BY <1>1, <1>3, <1>4

\* The verdict on the Reply's cycle is the one on its own attempt.
LEMMA OwnVerdict ==
  ASSUME Rowed, PublicationConstants, NEW o \in Decisive, reply.cycle \in 1..MaxCycle
  PROVE  Came(reply.cycle, o) <=> reply.tries > 0 /\ outcome[Attempt(reply)] = o
<1>1. o \notin Untold
  BY DEF Decisive, Untold
<1>2. ASSUME NEW n \in 1..MaxRuns
      PROVE  /\ <<reply.cycle, n>> \in Attempts
             /\ <<reply.cycle, n>> = Attempt(reply) <=> n = reply.tries
  BY DEF Attempts, Attempt
<1>3. reply.tries \in 0..MaxRuns
  BY DEF Rowed, TypeOK, Replies
<1>4. ASSUME NEW n \in 1..MaxRuns, n # reply.tries
      PROVE  outcome[<<reply.cycle, n>>] # o
  BY <1>1, <1>2, <1>4, OthersUntold
<1>5. ASSUME Came(reply.cycle, o)
      PROVE  reply.tries > 0 /\ outcome[Attempt(reply)] = o
  <2>1. PICK n \in 1..MaxRuns : outcome[<<reply.cycle, n>>] = o
    BY <1>5 DEF Came
  <2>2. n = reply.tries /\ n > 0
    BY <1>4, <2>1, PublicationConstants
  <2> QED BY <2>1, <2>2 DEF Attempt
<1>6. ASSUME reply.tries > 0, outcome[Attempt(reply)] = o
      PROVE  Came(reply.cycle, o)
  <2>1. reply.tries \in 1..MaxRuns
    BY <1>3, <1>6, PublicationConstants
  <2> QED BY <1>6, <2>1 DEF Came, Attempt
<1> QED BY <1>5, <1>6

\* No other cycle is in doubt, and one to come has no verdict.
LEMMA OtherVerdicts ==
  ASSUME Rowed, PublicationConstants, NEW c \in 1..MaxCycle, c # reply.cycle
  PROVE  /\ ~Came(c, "ambiguous")
         /\ c > reply.cycle => ~Came(c, "confirmed") /\ ~Came(c, "superseded")
<1>1. \A n \in 1..MaxRuns : <<c, n>> \in Attempts /\ <<c, n>> # Attempt(reply)
  BY DEF Attempts, Attempt
<1>2. \A n \in 1..MaxRuns : ~IsOpen(outcome[<<c, n>>])
  BY <1>1 DEF Rowed, AttemptAgreesWithReply
<1>3. c > reply.cycle => \A n \in 1..MaxRuns : outcome[<<c, n>>] = "none"
  BY <1>1 DEF Rowed, AttemptInv, LaterUnknown
<1> QED BY <1>2, <1>3 DEF Came, IsOpen

\* A cycle whose attempts and place stay as they were keeps its fate.
LEMMA FateStays ==
  ASSUME NEW c \in 1..MaxCycle,
         \A a \in Attempts : a[1] = c => outcome'[a] = outcome[a],
         c > reply'.cycle <=> c > reply.cycle, Pursued(c)' <=> Pursued(c)
  PROVE  CycleFate(c)' = CycleFate(c)
<1>1. \A n \in 1..MaxRuns : outcome'[<<c, n>>] = outcome[<<c, n>>]
  BY DEF Attempts
<1>2. \A o : Came(c, o)' <=> Came(c, o)
  BY <1>1 DEF Came
<1> QED BY <1>2 DEF CycleFate

\* A cycle of which nothing is on its way and nothing applied.
Silent(c) == CallsThat(c, "flying") = {} /\ CallsThat(c, "landed") = {}

LEMMA FailedSilent ==
  ASSUME CallsAreClaimed, FailedAreDead, NEW c \in 1..MaxCycle,
         \A a \in Attempts : a[1] = c => outcome[a] \in Failures \cup {"none"}
  PROVE  Silent(c)
<1>1. \A n \in 1..MaxRuns : <<c, n>> \in Attempts
  BY DEF Attempts
<1>2. \A a \in Attempts : a[1] = c => ~MayBeOnGoogle(a)
  BY DEF CallsAreClaimed, FailedAreDead, Dead, MayBeOnGoogle
<1>3. \A n \in 1..MaxRuns : ~MayBeOnGoogle(<<c, n>>)
  BY <1>1, <1>2
<1> QED BY <1>3 DEF Silent, CallsThat, MayBeOnGoogle

-----------------------------------------------------------------------------
(* What became of the cycles. *)

Pursuing == {"authorized", "sending", "pending_observation"}
Ended == Promise!Settled

\* The fate of the Reply's cycle is told by its state.
OwnFate ==
  reply.cycle \in 1..MaxCycle =>
    LET f == CycleFate(reply.cycle)
    IN /\ reply.state \in Pursuing => f = "open"
       /\ SeemsUnknown(reply) /\ reply.state # "sending" => f = "unknown"
       /\ reply.state \notin Pursuing /\ ~SeemsUnknown(reply) => f \in Ended
       /\ reply.state = "published" => f = "published"
       /\ reply.tries > 0 /\ outcome[Attempt(reply)] = "superseded" => f = "given up"
       /\ /\ reply.state \notin Pursuing
          /\ reply.tries = 0 \/ outcome[Attempt(reply)] \in Failures
          => f = "unwritten"

OtherFates ==
  \A c \in 1..MaxCycle : /\ c > reply.cycle => CycleFate(c) = "none"
                         /\ c < reply.cycle => CycleFate(c) \in Ended

LEMMA FatesTold == IInv => OwnFate /\ OtherFates
<1> SUFFICES ASSUME IInv PROVE OwnFate /\ OtherFates
  OBVIOUS
<1>1. Rowed /\ AttemptAgreesWithReply /\ PublicationConstants
  BY WhatIsKnown, PublicationConstants DEF Rowed
<1>2. /\ reply.tries \in Nat /\ reply.cycle \in 0..MaxCycle /\ reply.state \in States
      /\ reply.status \in Statuses /\ MaxCycle \in Nat
  BY <1>1 DEF Rowed, TypeOK, Replies, PublicationConstants
<1>3. Ended = {"unwritten", "published", "given up"}
  BY DEF Ended, Promise!Settled
<1>4. OwnFate
  <2> SUFFICES ASSUME reply.cycle \in 1..MaxCycle
               PROVE  LET f == CycleFate(reply.cycle)
                      IN /\ reply.state \in Pursuing => f = "open"
                         /\ SeemsUnknown(reply) /\ reply.state # "sending" => f = "unknown"
                         /\ reply.state \notin Pursuing /\ ~SeemsUnknown(reply) => f \in Ended
                         /\ reply.state = "published" => f = "published"
                         /\ reply.tries > 0 /\ outcome[Attempt(reply)] = "superseded" =>
                              f = "given up"
                         /\ /\ reply.state \notin Pursuing
                            /\ reply.tries = 0 \/ outcome[Attempt(reply)] \in Failures
                            => f = "unwritten"
    BY DEF OwnFate
  <2> DEFINE c == reply.cycle
             o == IF reply.tries = 0 THEN "none" ELSE outcome[Attempt(reply)]
  <2>1. \A v \in Decisive : Came(c, v) <=> o = v
    <3> SUFFICES ASSUME NEW v \in Decisive PROVE Came(c, v) <=> o = v
      OBVIOUS
    <3>1. Came(c, v) <=> reply.tries > 0 /\ outcome[Attempt(reply)] = v
      BY <1>1, OwnVerdict
    <3> QED BY <1>2, <3>1 DEF Decisive
  <2>2. /\ Came(c, "confirmed") <=> o = "confirmed"
        /\ Came(c, "superseded") <=> o = "superseded"
        /\ Came(c, "ambiguous") <=> o = "ambiguous"
    BY <2>1 DEF Decisive
  <2>3. ~(c > reply.cycle) /\ (Pursued(c) <=> reply.state \in Pursuing)
    BY <1>2 DEF Pursued, Pursuing
  <2>4. CycleFate(c) = IF o = "confirmed" THEN "published"
                       ELSE IF o = "superseded" THEN "given up"
                       ELSE IF o = "ambiguous" THEN "unknown"
                       ELSE IF reply.state \in Pursuing THEN "open" ELSE "unwritten"
    BY <2>2, <2>3 DEF CycleFate
  <2>5. /\ reply.state = "sending" => o = "sending"
        /\ reply.state = "pending_observation" => o = "provider_outcome_pending"
        /\ reply.state = "authorized" => o \in {"none", "retryable_failure"}
        /\ o = "ambiguous" <=> SeemsUnknown(reply) /\ reply.state # "sending"
        /\ reply.state = "published" => o = "confirmed"
    BY <1>1 DEF AttemptAgreesWithReply
  <2> HIDE DEF c
  <2>6. reply.state \in Pursuing => CycleFate(c) = "open"
    BY <2>4, <2>5 DEF Pursuing
  <2>7. SeemsUnknown(reply) /\ reply.state # "sending" => CycleFate(c) = "unknown"
    BY <2>4, <2>5
  <2>8. reply.state \notin Pursuing /\ ~SeemsUnknown(reply) => CycleFate(c) \in Ended
    BY <1>3, <2>4, <2>5
  <2>9. reply.state = "published" => CycleFate(c) = "published"
    BY <2>4, <2>5
  <2>10. reply.tries > 0 /\ outcome[Attempt(reply)] = "superseded" => CycleFate(c) = "given up"
    <3>1. reply.tries > 0 => o = outcome[Attempt(reply)]
      BY <1>2
    <3> QED BY <2>4, <3>1
  <2>11. /\ reply.state \notin Pursuing
         /\ reply.tries = 0 \/ outcome[Attempt(reply)] \in Failures
         => CycleFate(c) = "unwritten"
    BY <2>4 DEF Failures
  <2> QED BY <2>6, <2>7, <2>8, <2>9, <2>10, <2>11 DEF c
<1>5. OtherFates
  <2> SUFFICES ASSUME NEW c \in 1..MaxCycle
               PROVE  /\ c > reply.cycle => CycleFate(c) = "none"
                      /\ c < reply.cycle => CycleFate(c) \in Ended
    BY DEF OtherFates
  <2>1. c < reply.cycle => ~Came(c, "ambiguous") /\ ~Pursued(c) /\ ~(c > reply.cycle)
    BY <1>1, <1>2, OtherVerdicts DEF Pursued
  <2> QED BY <1>3, <2>1 DEF CycleFate
<1> QED BY <1>4, <1>5

LEMMA FatesToldNext == IInv' => OwnFate' /\ OtherFates'
BY FatesTold, PTL

-----------------------------------------------------------------------------
(* How a step changes what became of the cycles. *)

OnlyFate(c, f) ==
  /\ CycleFate(c)' = f
  /\ \A d \in 1..MaxCycle : d # c => CycleFate(d)' = CycleFate(d)

Begins(c) ==
  /\ CycleFate(c) = "none" /\ \A d \in 1..(c - 1) : CycleFate(d) \in Ended
  /\ OnlyFate(c, "open")

Doubts(c) == CycleFate(c) = "open" /\ OnlyFate(c, "unknown")

Settles(c, f) ==
  /\ CycleFate(c) \in {"open", "unknown"} /\ OnlyFate(c, f)
  /\ f = "unwritten" =>
       \A a \in Attempts : a[1] = c => outcome'[a] \in Failures \cup {"none"}

FateStep ==
  \/ \A c \in 1..MaxCycle : CycleFate(c)' = CycleFate(c)
  \/ \E c \in 1..MaxCycle : Begins(c) \/ Doubts(c) \/ \E f \in Ended : Settles(c, f)

LEMMA StartingFates ==
  ASSUME IInv, IInv', PublicationConstants, Starting
  PROVE  FateStep
<1>1. /\ Rowed /\ OwnFate /\ OwnFate' /\ OtherFates
      /\ reply.cycle \in Nat /\ MaxCycle \in Nat
  BY WhatIsKnown, FatesTold, FatesToldNext DEF IInv, TypeOK, Replies, PublicationConstants
<1>2. PICK c \in 1..MaxCycle : c = reply.cycle + 1
  BY <1>1, StartingRow
<1>3. reply'.cycle = c /\ outcome' = outcome /\ reply'.state \in Pursuing
  BY <1>1, <1>2, StartingRow DEF Pursuing
<1>4. CycleFate(c) = "none"
  BY <1>1, <1>2 DEF OtherFates
<1>5. CycleFate(c)' = "open"
  BY <1>1, <1>3 DEF OwnFate
<1>6. reply.state \notin Pursuing /\ ~SeemsUnknown(reply)
  BY <1>1 DEF Starting, Rowed, RowInv, StatusAgrees, NoOpenCycle, Pursuing, SeemsUnknown
<1>7. \A d \in 1..(c - 1) : CycleFate(d) \in Ended
  <2> SUFFICES ASSUME NEW d \in 1..(c - 1) PROVE CycleFate(d) \in Ended
    OBVIOUS
  <2>1. d \in 1..MaxCycle /\ (d = reply.cycle \/ d < reply.cycle)
    BY <1>1, <1>2
  <2> QED BY <1>1, <1>6, <2>1 DEF OwnFate, OtherFates
<1>8. ASSUME NEW d \in 1..MaxCycle, d # c PROVE CycleFate(d)' = CycleFate(d)
  <2>1. ~Pursued(d) /\ ~Pursued(d)'
    BY <1>3, <1>6, <1>8 DEF Pursued, Pursuing
  <2>2. d > reply'.cycle <=> d > reply.cycle
    BY <1>1, <1>2, <1>3, <1>8
  <2> QED BY <1>3, <2>1, <2>2, FateStays
<1>9. Begins(c)
  BY <1>4, <1>5, <1>7, <1>8 DEF Begins, OnlyFate
<1> QED BY <1>9 DEF FateStep

LEMMA TakingFates ==
  ASSUME IInv, IInv', PublicationConstants, Taking
  PROVE  FateStep
<1>1. Rowed /\ OwnFate /\ OwnFate'
  BY WhatIsKnown, FatesTold, FatesToldNext
<1>2. /\ reply.state \in Pursuing /\ reply'.state \in Pursuing
      /\ reply'.cycle = reply.cycle /\ Attempt(reply')[1] = reply.cycle
      /\ \A a \in Attempts : a # Attempt(reply') => outcome'[a] = outcome[a]
  BY <1>1, TakingOutcomes DEF Taking, Pursuing
<1>3. ASSUME NEW d \in 1..MaxCycle PROVE CycleFate(d)' = CycleFate(d)
  <2>1. CASE d = reply.cycle
    BY <1>1, <1>2, <2>1 DEF OwnFate
  <2>2. CASE d # reply.cycle
    <3>1. ~Pursued(d)' /\ ~Pursued(d)
      BY <1>2, <2>2 DEF Pursued
    <3> QED BY <1>2, <2>2, <3>1, FateStays
  <2> QED BY <2>1, <2>2
<1> QED BY <1>3 DEF FateStep

LEMMA EndingFates ==
  ASSUME IInv, IInv', PublicationConstants, Ending
  PROVE  FateStep
<1>1. Rowed /\ Rowed' /\ OwnFate /\ OwnFate'
  BY WhatIsKnown, FatesTold, FatesToldNext DEF IInv, Rowed
<1>2. reply.state # "null"
  BY <1>1 DEF Ending, Failing, Doubting, Cancelling, Withdrawing, Accepting, Requeueing,
     Confirming, CycleIsOpen, InFlight, SeemsUnknown, Rowed, RowInv, StatusAgrees, NoOpenCycle
<1>3. PICK c \in 1..MaxCycle : c = reply.cycle
  BY <1>1, <1>2 DEF Rowed, RowInv, CycleAgrees, TypeOK, Replies, PublicationConstants
<1>4. /\ reply'.cycle = c /\ reply'.tries = reply.tries /\ reply.tries \in Nat
      /\ Attempt(reply') = Attempt(reply)
      /\ \A a \in Attempts : a # Attempt(reply) => outcome'[a] = outcome[a]
      /\ reply.tries = 0 => outcome' = outcome
  BY <1>1, <1>3, EndingOutcomes DEF Rowed, TypeOK, Replies
<1>5. ASSUME NEW d \in 1..MaxCycle, d # c PROVE CycleFate(d)' = CycleFate(d)
  <2>1. Attempt(reply)[1] = c
    BY <1>3 DEF Attempt
  <2>2. \A a \in Attempts : a[1] = d => outcome'[a] = outcome[a]
    BY <1>4, <1>5, <2>1
  <2>3. ~Pursued(d) /\ ~Pursued(d)'
    BY <1>3, <1>4, <1>5 DEF Pursued
  <2> QED BY <1>3, <1>4, <2>2, <2>3, FateStays
<1>6. \A f : CycleFate(c)' = f => OnlyFate(c, f)
  BY <1>5 DEF OnlyFate
<1>7. reply.tries > 0 => \A o \in Outcomes : outcome' = Settle(o) => outcome'[Attempt(reply)] = o
  BY <1>1, OwnAttempt, <1>4, PublicationConstants DEF Settle, Rowed, TypeOK
<1>8. /\ reply.state \in Pursuing => CycleFate(c) = "open"
      /\ SeemsUnknown(reply) /\ reply.state # "sending" => CycleFate(c) = "unknown"
      /\ reply'.state \in Pursuing => CycleFate(c)' = "open"
      /\ SeemsUnknown(reply') /\ reply'.state # "sending" => CycleFate(c)' = "unknown"
  BY <1>1, <1>3, <1>4 DEF OwnFate
<1>9. reply.state = "ambiguous" => SeemsUnknown(reply)
  BY <1>1 DEF Rowed, RowInv, StatusAgrees, NoOpenCycle, SeemsUnknown, TypeOK, Replies, Statuses
<1>10. CycleIsOpen \/ SeemsUnknown(reply) => CycleFate(c) \in {"open", "unknown"}
  BY <1>8, <1>9 DEF CycleIsOpen, InFlight, Pursuing
<1>11. /\ Accepting \/ Requeueing => CycleFate(c)' = CycleFate(c)
       /\ Failing("ambiguous") => CycleFate(c)' = CycleFate(c)
  BY <1>8, <1>9 DEF Accepting, Requeueing, Failing, Becomes, Pursuing, SeemsUnknown
<1>12. Withdrawing => CycleFate(c)' = CycleFate(c)
  <2> SUFFICES ASSUME Withdrawing PROVE CycleFate(c)' = CycleFate(c)
    OBVIOUS
  <2>1. ~Pursued(c) /\ ~Pursued(c)' /\ outcome' = outcome
    BY DEF Withdrawing, Becomes, Pursued
  <2> QED BY <1>3, <1>4, <2>1, FateStays
<1>13. Doubting => Doubts(c)
  <2> SUFFICES ASSUME Doubting PROVE Doubts(c)
    OBVIOUS
  <2>1. /\ reply.state \in Pursuing /\ reply'.state = "ambiguous"
        /\ reply'.status = "publish_failed"
    BY DEF Doubting, Becomes, Pursuing
  <2>2. SeemsUnknown(reply')
    BY <2>1 DEF SeemsUnknown
  <2> QED BY <1>6, <1>8, <2>1, <2>2 DEF Doubts
<1>14. Confirming => Settles(c, "published")
  <2> SUFFICES ASSUME Confirming PROVE Settles(c, "published")
    OBVIOUS
  <2>1. CycleIsOpen \/ SeemsUnknown(reply)
    BY DEF Confirming, CycleIsOpen
  <2>2. CycleFate(c)' = "published"
    BY <1>1, <1>3, <1>4 DEF Confirming, Becomes, OwnFate
  <2> QED BY <1>6, <1>10, <2>1, <2>2 DEF Settles
<1>15. \A a \in Attempts : a[1] = c /\ a # Attempt(reply) => outcome'[a] \in Untold
  BY <1>1, <1>3, <1>4, OthersUntold
<1>16. reply.tries = 0 => \A a \in Attempts : a # Attempt(reply)
  BY DEF Attempt, Attempts
<1>17. Cancelling => \E f \in Ended : Settles(c, f)
  <2> SUFFICES ASSUME Cancelling PROVE \E f \in Ended : Settles(c, f)
    OBVIOUS
  <2>1. CycleFate(c) \in {"open", "unknown"}
    BY <1>10 DEF Cancelling
  <2>2. {"given up", "unwritten"} \subseteq Ended
    BY DEF Ended, Promise!Settled
  <2>3. CASE reply.tries > 0
    <3>1. "superseded" \in Outcomes /\ outcome' = Settle("superseded")
      BY DEF Outcomes, Cancelling
    <3>2. outcome'[Attempt(reply)] = "superseded"
      BY <1>7, <2>3, <3>1
    <3>3. CycleFate(c)' = "given up"
      BY <1>1, <1>3, <1>4, <2>3, <3>2 DEF OwnFate
    <3> QED BY <1>6, <2>1, <2>2, <3>3 DEF Settles
  <2>4. CASE reply.tries = 0
    <3>1. reply'.state \notin Pursuing
      BY DEF Cancelling, Becomes, Pursuing
    <3>2. CycleFate(c)' = "unwritten"
      BY <1>1, <1>3, <1>4, <2>4, <3>1 DEF OwnFate
    <3>3. \A a \in Attempts : a[1] = c => outcome'[a] \in Failures \cup {"none"}
      BY <1>15, <1>16, <2>4 DEF Untold, Failures
    <3> QED BY <1>6, <2>1, <2>2, <3>2, <3>3 DEF Settles
  <2> QED BY <1>4, <2>3, <2>4
<1>18. ASSUME NEW e \in Errors \ {"none", "ambiguous"}, Failing(e)
       PROVE  Settles(c, "unwritten")
  <2>1. CycleFate(c) \in {"open", "unknown"}
    BY <1>8, <1>9, <1>10, <1>18 DEF Failing, Pursuing
  <2>2. FailureOutcome(e) \in Failures /\ Failures \subseteq Outcomes
    BY DEF FailureOutcome, Failures, Errors, Outcomes
  <2>3. reply.tries > 0 => outcome'[Attempt(reply)] \in Failures
    BY <1>7, <1>18, <2>2 DEF Failing
  <2>4. reply'.state \notin Pursuing
    BY <1>18 DEF Failing, Becomes, Pursuing
  <2>5. CycleFate(c)' = "unwritten"
    <3>1. reply'.tries = 0 \/ outcome'[Attempt(reply')] \in Failures
      BY <1>4, <2>3
    <3> QED BY <1>1, <1>4, <2>4, <3>1 DEF OwnFate
  <2>6. \A a \in Attempts : a[1] = c => outcome'[a] \in Failures \cup {"none"}
    BY <1>4, <1>15, <1>16, <2>3 DEF Untold, Failures
  <2> QED BY <1>6, <2>1, <2>5, <2>6 DEF Settles
<1>19. CycleFate(c)' = CycleFate(c) => FateStep
  BY <1>5 DEF FateStep
<1>20. "unwritten" \in Ended /\ "published" \in Ended
  BY DEF Ended, Promise!Settled
<1>21. (Doubts(c) \/ \E f \in Ended : Settles(c, f)) => FateStep
  BY DEF FateStep
<1>22. CASE \E e \in Errors \ {"none"} : Failing(e)
  BY <1>11, <1>18, <1>19, <1>20, <1>21, <1>22
<1> QED
  BY <1>11, <1>12, <1>13, <1>14, <1>17, <1>19, <1>20, <1>21, <1>22 DEF Ending

\* A step of the rows decides at most one cycle.
LEMMA RowsDecideOne ==
  ASSUME IInv, IInv', PublicationConstants, RowStep
  PROVE  FateStep
<1>1. ASSUME UNCHANGED outcome, reply'.cycle = reply.cycle, reply'.state = reply.state
      PROVE  FateStep
  <2>1. ASSUME NEW d \in 1..MaxCycle PROVE CycleFate(d)' = CycleFate(d)
    <3>1. Pursued(d)' <=> Pursued(d)
      BY <1>1 DEF Pursued
    <3> QED BY <1>1, <3>1, FateStays
  <2> QED BY <2>1 DEF FateStep
<1>2. CASE Written /\ UNCHANGED <<reply, outcome>>
  BY <1>1, <1>2
<1>3. CASE Drafting
  BY <1>1, <1>3 DEF Drafting
<1> QED
  BY <1>2, <1>3, StartingFates, TakingFates, EndingFates DEF RowStep, CalmRows

-----------------------------------------------------------------------------
(* How a step changes the requests. *)

\* Next to an attempt that may have sent one, no other of its cycle has a
\* request on Google.
LEMMA OneMayBe ==
  ASSUME IInv, NEW a \in Attempts, NEW b \in Attempts,
         a[1] = b[1], a # b, outcome[a] \notin Untold
  PROVE  ~MayBeOnGoogle(b)
<1>1. a[2] \in Nat /\ b[2] \in Nat /\ a[2] # b[2]
  BY DEF Attempts
<1>2. MayBeOnGoogle(b) => outcome[b] \notin Untold
  BY DEF IInv, AttemptInv, CallsAreClaimed, CallerInv, FailedAreDead, Dead, Failures,
     MayBeOnGoogle, Untold
<1>3. /\ b[2] < a[2] => outcome[b] = "retryable_failure"
      /\ a[2] < b[2] /\ outcome[b] # "none" => outcome[a] = "retryable_failure"
  BY DEF IInv, AttemptInv, Chain, Untold
<1> QED BY <1>1, <1>2, <1>3 DEF Untold

\* A cycle with an attempt that did not fail was begun and is not unwritten.
LEMMA LiveFate ==
  ASSUME IInv, PublicationConstants, NEW a \in Attempts,
         outcome[a] \notin Failures \cup {"none"}
  PROVE  CycleFate(a[1]) \notin {"none", "unwritten"}
<1>1. /\ Rowed /\ outcome[a] \in Outcomes /\ a[1] \in 1..MaxCycle /\ a[2] \in 1..MaxRuns
      /\ a = <<a[1], a[2]>> /\ reply.cycle \in Nat
  BY WhatIsKnown DEF Rowed, TypeOK, Replies, Attempts
<1>2. ~(a[1] > reply.cycle)
  BY <1>1 DEF Rowed, AttemptInv, LaterUnknown
<1>3. CASE outcome[a] \in Decisive
  <2>1. Came(a[1], outcome[a])
    BY <1>1 DEF Came
  <2> QED BY <1>2, <1>3, <2>1 DEF CycleFate, Decisive
<1>4. CASE outcome[a] \in {"sending", "provider_outcome_pending"}
  <2>1. a = Attempt(reply) /\ reply.tries # 0
    BY <1>1, <1>4 DEF Rowed, AttemptAgreesWithReply, IsOpen, Attempt, PublicationConstants
  <2>2. reply.state \in {"sending", "pending_observation"}
    BY <1>1, <1>4, <2>1 DEF Rowed, AttemptAgreesWithReply
  <2>3. Pursued(a[1])
    BY <2>1, <2>2 DEF Pursued, Attempt
  <2> QED BY <1>2, <2>3 DEF CycleFate
<1> QED BY <1>1, <1>3, <1>4 DEF Outcomes, Failures, Decisive

SameCalls(c) ==
  \A became \in {"flying", "landed"} : CallsThat(c, became)' = CallsThat(c, became)

\* The request of the one attempt that may have sent one is its cycle's.
LEMMA CallsOfOne ==
  ASSUME PublicationConstants, call \in [Attempts -> Calls], NEW a \in Attempts,
         NEW was, NEW v, call[a] = was, call' = [call EXCEPT ![a] = v],
         \A b \in Attempts : b[1] = a[1] /\ b # a => ~MayBeOnGoogle(b)
  PROVE  /\ \A c \in 1..MaxCycle : c # a[1] => SameCalls(c)
         /\ \A became \in {"flying", "landed"} :
              /\ CallsThat(a[1], became) = IF was = became THEN {a[2]} ELSE {}
              /\ CallsThat(a[1], became)' = IF v = became THEN {a[2]} ELSE {}
<1>1. /\ a[1] \in 1..MaxCycle /\ a[2] \in 1..MaxRuns /\ a = <<a[1], a[2]>>
      /\ \A c \in 1..MaxCycle, n \in 1..MaxRuns : <<c, n>> \in Attempts
  BY DEF Attempts
<1>2. /\ call'[a] = v /\ \A b \in Attempts : b # a => call'[b] = call[b]
  OBVIOUS
<1>3. ASSUME NEW c \in 1..MaxCycle, c # a[1] PROVE SameCalls(c)
  <2>1. \A n \in 1..MaxRuns : call'[<<c, n>>] = call[<<c, n>>]
    BY <1>1, <1>2, <1>3
  <2> QED BY <2>1 DEF SameCalls, CallsThat
<1>4. ASSUME NEW became \in {"flying", "landed"}
      PROVE  /\ CallsThat(a[1], became) = IF was = became THEN {a[2]} ELSE {}
             /\ CallsThat(a[1], became)' = IF v = became THEN {a[2]} ELSE {}
  <2>1. \A n \in 1..MaxRuns : n # a[2] =>
          call[<<a[1], n>>] # became /\ call'[<<a[1], n>>] # became
    <3> SUFFICES ASSUME NEW n \in 1..MaxRuns, n # a[2]
                 PROVE  call[<<a[1], n>>] # became /\ call'[<<a[1], n>>] # became
      OBVIOUS
    <3>1. <<a[1], n>> \in Attempts /\ <<a[1], n>> # a /\ <<a[1], n>>[1] = a[1]
      BY <1>1
    <3>2. ~MayBeOnGoogle(<<a[1], n>>)
      BY <3>1
    <3> QED BY <1>2, <3>1, <3>2 DEF MayBeOnGoogle
  <2>2. call[<<a[1], a[2]>>] = was /\ call'[<<a[1], a[2]>>] = v
    BY <1>1, <1>2
  <2>3. CallsThat(a[1], became) = IF was = became THEN {a[2]} ELSE {}
    BY <1>1, <2>1, <2>2 DEF CallsThat
  <2>4. CallsThat(a[1], became)' = IF v = became THEN {a[2]} ELSE {}
    BY <1>1, <2>1, <2>2 DEF CallsThat
  <2> QED BY <2>3, <2>4
<1> QED BY <1>3, <1>4

Flying(c) == CallsThat(c, "flying")
Landed(c) == CallsThat(c, "landed")

MovesRequest(c) ==
  /\ \A d \in 1..MaxCycle : d # c => SameCalls(d)
  /\ \/ /\ CycleFate(c) \notin {"none", "unwritten"} /\ Silent(c)
        /\ \E n \in 1..MaxRuns : Flying(c)' = {n}
        /\ Landed(c)' = Landed(c)
     \/ /\ Flying(c) # {} /\ Flying(c)' = {}
        /\ Landed(c)' \in {Landed(c), Flying(c)}

RequestStep ==
  \/ \A c \in 1..MaxCycle : SameCalls(c)
  \/ RowsRest /\ \E c \in 1..MaxCycle : MovesRequest(c)

LEMMA SendMoves ==
  ASSUME IInv, PublicationConstants, NEW w \in Workers, SendReply(w)
  PROVE  RequestStep
<1>1. /\ w \in Procs /\ proc[w].pc = "call" /\ RowsRest /\ call \in [Attempts -> Calls]
      /\ Attempt(proc[w].snap) \in Attempts /\ outcome[Attempt(proc[w].snap)] # "none"
  BY SendStep DEF SendReply, Procs, IInv, TypeOK, CallerInv, CallersClaimed, Calling
<1>2. PICK a \in Attempts : a = Attempt(proc[w].snap)
  BY <1>1
<1>3. call[a] = "started" /\ call' = [call EXCEPT ![a] = "flying"]
  BY <1>2 DEF SendReply
<1>4. outcome[a] \notin Failures \cup {"none"}
  BY <1>1, <1>2, <1>3 DEF IInv, CallerInv, FailedAreDead, Dead
<1>5. \A b \in Attempts : b[1] = a[1] /\ b # a => ~MayBeOnGoogle(b)
  BY <1>4, OneMayBe DEF Untold, Failures
<1>6. /\ \A c \in 1..MaxCycle : c # a[1] => SameCalls(c)
      /\ CallsThat(a[1], "flying") = {} /\ CallsThat(a[1], "flying")' = {a[2]}
      /\ CallsThat(a[1], "landed") = {} /\ CallsThat(a[1], "landed")' = {}
  BY <1>1, <1>3, <1>5, CallsOfOne
<1>7. a[1] \in 1..MaxCycle /\ a[2] \in 1..MaxRuns
  BY DEF Attempts
<1>8. CycleFate(a[1]) \notin {"none", "unwritten"}
  BY <1>4, LiveFate
<1>9. MovesRequest(a[1])
  BY <1>6, <1>7, <1>8 DEF MovesRequest, Silent, Flying, Landed
<1> QED BY <1>1, <1>7, <1>9 DEF RequestStep

\* A request on its way arrives, or is refused.
LEMMA FlightEnds ==
  ASSUME IInv, PublicationConstants, NEW a \in Attempts, NEW v \in {"landed", "refused"},
         call[a] = "flying", call' = [call EXCEPT ![a] = v], RowsRest
  PROVE  RequestStep
<1>1. call \in [Attempts -> Calls] /\ MayBeOnGoogle(a)
  BY DEF IInv, TypeOK, MayBeOnGoogle
<1>2. outcome[a] \notin Untold
  BY <1>1 DEF IInv, AttemptInv, CallsAreClaimed, CallerInv, FailedAreDead, Dead, Failures,
     MayBeOnGoogle, Untold
<1>3. \A b \in Attempts : b[1] = a[1] /\ b # a => ~MayBeOnGoogle(b)
  BY <1>2, OneMayBe
<1>4. /\ \A c \in 1..MaxCycle : c # a[1] => SameCalls(c)
      /\ CallsThat(a[1], "flying") = {a[2]} /\ CallsThat(a[1], "flying")' = {}
      /\ CallsThat(a[1], "landed") = {}
      /\ CallsThat(a[1], "landed")' = IF v = "landed" THEN {a[2]} ELSE {}
  BY <1>1, <1>3, CallsOfOne
<1>5. a[1] \in 1..MaxCycle
  BY DEF Attempts
<1>6. MovesRequest(a[1])
  BY <1>4 DEF MovesRequest, Flying, Landed
<1> QED BY <1>5, <1>6 DEF RequestStep

\* A step moves at most one request, and then decides nothing.
LEMMA OneRequestMoves ==
  ASSUME IInv, PublicationConstants, Next
  PROVE  RequestStep
<1>1. UNCHANGED call => RequestStep
  BY DEF RequestStep, SameCalls, CallsThat
<1>2. CASE Calm
  BY <1>1, <1>2 DEF Calm
<1>3. ASSUME NEW a \in Attempts, Land(a) PROVE RequestStep
  <2>1. RowsRest /\ call[a] = "flying" /\ call' = [call EXCEPT ![a] = "landed"]
    BY <1>3, LandStep DEF Land
  <2> QED BY <2>1, FlightEnds
<1>4. ASSUME NEW w \in Workers, AdmitPermit(w) \/ StartPermit(w) PROVE RequestStep
  <2>1. /\ call \in [Attempts -> Calls] /\ proc[w].pc = "call"
        /\ Attempt(proc[w].snap) \in Attempts
    BY <1>4 DEF AdmitPermit, StartPermit, IInv, TypeOK, CallerInv, CallersClaimed, Calling, Procs
  <2>2. \A b \in Attempts : \/ call'[b] = call[b]
                            \/ /\ call[b] \notin {"flying", "landed"}
                               /\ call'[b] \notin {"flying", "landed"}
    BY <1>4, <2>1 DEF AdmitPermit, StartPermit
  <2>3. \A c \in 1..MaxCycle, n \in 1..MaxRuns : <<c, n>> \in Attempts
    BY DEF Attempts
  <2>4. ASSUME NEW c \in 1..MaxCycle, NEW became \in {"flying", "landed"}
        PROVE  CallsThat(c, became)' = CallsThat(c, became)
    <3>1. \A n \in 1..MaxRuns : call'[<<c, n>>] = became <=> call[<<c, n>>] = became
      BY <2>2, <2>3
    <3> QED BY <3>1 DEF CallsThat
  <2> QED BY <2>4 DEF RequestStep, SameCalls
<1>5. ASSUME NEW w \in Workers, NEW class \in {"accepted", "retryable", "terminal_rejection", "ambiguous"},
             GoogleAnswers(w, class)
      PROVE  RequestStep
  <2>1. RowsRest /\ proc[w].pc = "wait" /\ Attempt(proc[w].snap) \in Attempts
    BY <1>5, AnswerStep
    DEF GoogleAnswers, IInv, CallerInv, CallersClaimed, Calling, Procs
  <2>2. PICK a \in Attempts : a = Attempt(proc[w].snap)
    BY <2>1
  <2>3. \/ UNCHANGED call
        \/ call[a] = "flying" /\ call' = [call EXCEPT ![a] = "refused"]
    BY <1>5, <2>2 DEF GoogleAnswers
  <2> QED BY <1>1, <2>1, <2>3, FlightEnds
<1>6. ASSUME NEW w \in Workers, CallStep(w) PROVE RequestStep
  <2>1. ClaimTaken(w) => UNCHANGED call
    BY DEF ClaimTaken, Claim
  <2>2. \A class : NotSent(w, class) => UNCHANGED call
    BY DEF NotSent
  <2> QED BY <1>1, <1>4, <1>5, <1>6, <2>1, <2>2, SendMoves DEF CallStep
<1> QED BY <1>2, <1>3, <1>6, StepCases

-----------------------------------------------------------------------------
(* The refinement. *)

LEMMA FailedSilentToo ==
  IInv => \A c \in 1..MaxCycle :
            (\A a \in Attempts : a[1] = c => outcome[a] \in Failures \cup {"none"}) => Silent(c)
BY FailedSilent DEF IInv, AttemptInv, CallerInv

LEMMA FailedSilentNext ==
  IInv' => \A c \in 1..MaxCycle :
             (\A a \in Attempts : a[1] = c => outcome'[a] \in Failures \cup {"none"}) => Silent(c)'
<1> DEFINE Told == \A c \in 1..MaxCycle :
             (\A a \in Attempts : a[1] = c => outcome[a] \in Failures \cup {"none"}) => Silent(c)
<1>1. IInv => Told
  BY FailedSilentToo
<1> HIDE DEF Told
<1>2. IInv' => Told'
  BY <1>1, PTL
<1> QED BY <1>2 DEF Told

Fates == [c \in 1..MaxCycle |-> CycleFate(c)]
Sent == [c \in 1..MaxCycle |-> Flying(c)]
Applied == [c \in 1..MaxCycle |-> Landed(c)]

LEMMA SameRequests ==
  ASSUME \A c \in 1..MaxCycle : SameCalls(c)
  PROVE  Sent' = Sent /\ Applied' = Applied
<1>1. \A c \in 1..MaxCycle : Flying(c)' = Flying(c) /\ Landed(c)' = Landed(c)
  BY DEF SameCalls, Flying, Landed
<1> QED BY <1>1 DEF Sent, Applied

LEMMA DecidesOne ==
  ASSUME PublicationConstants, IInv', NEW c \in 1..MaxCycle,
         \A d \in 1..MaxCycle : SameCalls(d),
         Begins(c) \/ Doubts(c) \/ \E f \in Ended : Settles(c, f)
  PROVE  Promise!Next
<1>1. Sent' = Sent /\ Applied' = Applied
  BY SameRequests
<1>2. ASSUME NEW f, OnlyFate(c, f)
      PROVE  Fates' = [Fates EXCEPT ![c] = f]
  BY <1>2 DEF OnlyFate, Fates
<1>3. /\ Fates[c] = CycleFate(c) /\ Fates'[c] = CycleFate(c)'
      /\ Sent[c] = Flying(c) /\ Applied[c] = Landed(c)
      /\ \A d \in 1..(c - 1) : Fates[d] = CycleFate(d)
  BY DEF Fates, Sent, Applied, PublicationConstants
<1>4. CASE Begins(c)
  <2>1. Promise!Authorize(c)
    BY <1>1, <1>2, <1>3, <1>4
    DEF Begins, Promise!Authorize, Fates, Sent, Applied, Flying, Landed, Ended
  <2>2. Fates'[c] # Fates[c]
    BY <1>3, <1>4 DEF Begins, OnlyFate
  <2> QED BY <2>1, <2>2 DEF Promise!Next, Promise!Cycles, Fates
<1>5. CASE Doubts(c)
  <2>1. Promise!Doubt(c)
    BY <1>1, <1>2, <1>3, <1>5 DEF Doubts, Promise!Doubt, Fates, Sent, Applied, Flying, Landed
  <2>2. Fates'[c] # Fates[c]
    BY <1>3, <1>5 DEF Doubts, OnlyFate
  <2> QED BY <2>1, <2>2 DEF Promise!Next, Promise!Cycles, Fates
<1>6. ASSUME NEW f \in Ended, Settles(c, f) PROVE Promise!Next
  <2>1. f = "unwritten" => Flying(c) = {} /\ Landed(c) = {}
    <3> SUFFICES ASSUME f = "unwritten" PROVE Flying(c) = {} /\ Landed(c) = {}
      OBVIOUS
    <3>1. Silent(c)'
      BY <1>6, FailedSilentNext DEF Settles
    <3> QED BY <3>1 DEF Silent, SameCalls, Flying, Landed
  <2>2. Promise!Settle(c)
    BY <1>1, <1>2, <1>3, <1>6, <2>1
    DEF Settles, Promise!Settle, Promise!NothingWritten, Fates, Sent, Applied, Flying, Landed, Ended
  <2>3. Fates'[c] # Fates[c]
    BY <1>3, <1>6 DEF Settles, OnlyFate, Ended, Promise!Settled
  <2> QED BY <2>2, <2>3 DEF Promise!Next, Promise!Cycles, Fates
<1> QED BY <1>4, <1>5, <1>6

LEMMA MovesOne ==
  ASSUME PublicationConstants, NEW c \in 1..MaxCycle, RowsRest, MovesRequest(c)
  PROVE  Promise!Next
<1>1. Fates' = Fates
  <2>1. ASSUME NEW d \in 1..MaxCycle PROVE CycleFate(d)' = CycleFate(d)
    <3>1. Pursued(d)' <=> Pursued(d)
      BY DEF Pursued, RowsRest
    <3> QED BY <3>1, FateStays DEF RowsRest
  <2> QED BY <2>1 DEF Fates
<1>2. \A d \in 1..MaxCycle : d # c => Flying(d)' = Flying(d) /\ Landed(d)' = Landed(d)
  BY DEF MovesRequest, SameCalls, Flying, Landed
<1>3. /\ \A F : Flying(c)' = F => Sent' = [Sent EXCEPT ![c] = F]
      /\ \A L : Landed(c)' = L => Applied' = [Applied EXCEPT ![c] = L]
      /\ Landed(c)' = Landed(c) => Applied' = Applied
  BY <1>2 DEF Sent, Applied
<1>4. /\ Fates[c] = CycleFate(c) /\ Sent[c] = Flying(c) /\ Applied[c] = Landed(c)
      /\ Sent'[c] = Flying(c)'
  BY DEF Fates, Sent, Applied
<1>5. CASE /\ CycleFate(c) \notin {"none", "unwritten"} /\ Silent(c)
           /\ \E n \in 1..MaxRuns : Flying(c)' = {n}
           /\ Landed(c)' = Landed(c)
  <2>1. Promise!NothingWritten(c) /\ Sent[c] = {}
    BY <1>4, <1>5 DEF Promise!NothingWritten, Silent, Flying, Landed, Sent, Applied
  <2>2. Promise!Send(c)
    BY <1>1, <1>3, <1>4, <1>5, <2>1 DEF Promise!Send, Fates, Sent, Applied, Flying, Landed
  <2> QED
    BY <1>4, <1>5, <2>1, <2>2 DEF Promise!Next, Promise!Cycles, Sent, Flying
<1>6. CASE /\ Flying(c) # {} /\ Flying(c)' = {}
           /\ Landed(c)' \in {Landed(c), Flying(c)}
  <2>1. Promise!Land(c) \/ Promise!Refuse(c)
    BY <1>1, <1>3, <1>4, <1>6
    DEF Promise!Land, Promise!Refuse, Fates, Sent, Applied, Flying, Landed
  <2> QED BY <1>4, <1>6, <2>1 DEF Promise!Next, Promise!Cycles, Sent, Flying
<1> QED BY <1>5, <1>6 DEF MovesRequest

LEMMA StepKeepsPromise ==
  ASSUME IInv, PublicationConstants, [Next]_vars
  PROVE  [Promise!Next]_(Promise!promiseVars)
<1>1. Fates' = Fates /\ Sent' = Sent /\ Applied' = Applied => UNCHANGED Promise!promiseVars
  BY DEF Promise!promiseVars, Fates, Sent, Applied, Flying, Landed
<1>2. (\A c \in 1..MaxCycle : CycleFate(c)' = CycleFate(c)) => Fates' = Fates
  BY DEF Fates
<1>3. CASE UNCHANGED vars
  <2>1. \A c \in 1..MaxCycle : SameCalls(c)
    BY <1>3 DEF vars, SameCalls, CallsThat
  <2>2. ASSUME NEW c \in 1..MaxCycle PROVE CycleFate(c)' = CycleFate(c)
    <3>1. outcome' = outcome /\ reply' = reply /\ (Pursued(c)' <=> Pursued(c))
      BY <1>3 DEF vars, Pursued
    <3> QED BY <3>1, FateStays
  <2> QED BY <1>1, <1>2, <2>1, <2>2, SameRequests
<1>4. CASE Next
  <2>1. IInv' /\ RowStep /\ RequestStep
    BY <1>4, NextInv, RowsStep, OneRequestMoves
  <2>2. FateStep
    BY <2>1, RowsDecideOne
  <2>3. CASE \A c \in 1..MaxCycle : SameCalls(c)
    BY <1>1, <1>2, <2>1, <2>2, <2>3, SameRequests, DecidesOne DEF FateStep
  <2> QED BY <2>1, <2>3, MovesOne DEF RequestStep
<1> QED BY <1>3, <1>4

\* The publication keeps the promise of PublicationPromise: whatever workers,
\* sweeps, checks, syncs, guests and crashes do to authorizations, attempts,
\* permits and calls, a cycle puts at most one request on Google, one that
\* markReplyTerminal, settleNeverDispatched or a requeue calls unwritten has
\* none there and gets none, the next is authorized over settled ones only,
\* and no verdict is rewritten.
THEOREM PublicationKept == Spec => KeepsPublicationPromise
<1>1. Init => Promise!Init
  <2> SUFFICES ASSUME Init PROVE Promise!Init
    OBVIOUS
  <2>1. /\ reply.cycle = 0
        /\ \A c \in 1..MaxCycle, n \in 1..MaxRuns : call[<<c, n>>] = "none"
    BY DEF Init, NoRow, Attempts
  <2>2. \A c \in 1..MaxCycle : CycleFate(c) = "none"
    BY <2>1 DEF CycleFate
  <2>3. \A c \in 1..MaxCycle : CallsThat(c, "flying") = {} /\ CallsThat(c, "landed") = {}
    BY <2>1 DEF CallsThat
  <2> QED BY <2>2, <2>3 DEF Promise!Init, Promise!Cycles
<1>2. IInv /\ [Next]_vars => [Promise!Next]_(Promise!promiseVars)
  BY StepKeepsPromise, PublicationConstants
<1> QED BY <1>1, <1>2, Invariance, PTL DEF Spec, KeepsPublicationPromise, Promise!Spec
=============================================================================
