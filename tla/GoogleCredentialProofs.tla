------------------------ MODULE GoogleCredentialProofs ------------------------
(***************************************************************************)
(* Theorems about GoogleCredential for any number of refreshes, disconnect *)
(* requests and lapsed leases.                                             *)
(***************************************************************************)
EXTENDS GoogleCredential, TLAPS

-----------------------------------------------------------------------------
(* The inductive invariant: what a refresh, a disconnect or a ceremony may   *)
(* still believe of the row once others have written it.                     *)

\* The row has not gone back behind s, and at the versions of s it is s.
Precedes(s) ==
  /\ s.life =< row.life /\ s.gen =< row.gen
  /\ Versions(s) = Versions(row) => s.status = row.status /\ s.token = row.token

\* A token is of a grant that Google has given, so its account stays what it is
\* and a dead one stays dead.
Given == 1..Len(google.account)
Issued(token) == token # Nothing => token \in Given

\* A refresh that has read the row and not ended works from an active one.
Working == {"contend", "wait", "leader", "asked", "commit", "fence"}
SnapHonest ==
  \A r \in Refreshers : pc[r] \in Working =>
    /\ snap[r].status = "active" /\ snap[r].token # Nothing
    /\ Issued(snap[r].token) /\ Precedes(snap[r])

\* The reauthorization is asked for a token that Google has refused.
FenceDead == \A r \in Refreshers : pc[r] = "fence" => ~IsLive(snap[r].token)

\* Until a lease lapses the lock is with whoever is past it.
Leading == {"leader", "asked", "commit", "fence"}
OwnerInside == lapses = 0 => \A r \in Refreshers : pc[r] \in Leading => lease = r

\* A ceremony under way was begun for a row that no revoke held.
Pending == {"provider_started", "response_preserved", "applying"}
CeremonyHonest ==
  ceremony.state \in Pending =>
    ceremony.seen.status # "disconnecting" /\ Precedes(ceremony.seen)

\* Row and ceremony hold such tokens, and a preserved answer has one.
Answered == {"response_preserved", "applying"}
TokensIssued ==
  /\ Issued(row.token) /\ Issued(ceremony.token)
  /\ ceremony.state \in Answered => ceremony.token # Nothing

\* What a disconnect holds is of a grant, and kept once that grant is revoked.
HeldHonest ==
  \A d \in Disconnects : Issued(held[d]) /\ (pc[d] = "revoked" => held[d] # Nothing)

\* An account has one live grant: consent renews it, so its revoke leaves none.
OneLive ==
  /\ google.live \subseteq Given
  /\ \A s, t \in google.live : AccountOf(s) = AccountOf(t) => s = t

OneOpen == \A c, d \in Disconnects : Open(c) /\ Open(d) => c = d

\* The row of a dispatched attempt is the one its dispatch left, or a later one.
DispatchBehind ==
  \A d \in Disconnects : attempt[d].state = "dispatching" =>
    attempt[d].life + 1 =< row.life /\ attempt[d].gen =< row.gen

\* Once Google has revoked, the row this attempt may redact holds a dead token,
\* or one of another account.
RevokedDead ==
  \A d \in Disconnects :
    /\ pc[d] = "revoked" /\ attempt[d].state = "dispatching" /\ CanRedact(d)
    /\ AccountOf(row.token) = AccountOf(held[d])
    => ~IsLive(row.token)

IInv ==
  /\ CredentialTypeOK
  /\ SnapHonest /\ FenceDead /\ OwnerInside /\ LeaderIsCurrent
  /\ CeremonyHonest /\ TokensIssued /\ HeldHonest /\ OneLive
  /\ OneOpen /\ DispatchBehind /\ RevokedDead /\ RevokeOwnsItsRow

-----------------------------------------------------------------------------

(* Types. *)

\* What the writes of single fields make of a row.
Renewed(t) == [row EXCEPT !.token = t, !.gen = @ + 1]
Fenced     == [row EXCEPT !.status = "reauth_required", !.life = @ + 1]
Taken(d)   == [row EXCEPT !.status = "disconnecting", !.use = "cleanup_only",
                          !.life = @ + 1, !.window = d]

LEMMA RenewedRow ==
  ASSUME row \in RowType, NEW t \in Tokens
  PROVE  /\ Renewed(t) \in RowType
         /\ Renewed(t).token = t /\ Renewed(t).window = row.window
         /\ Renewed(t).status = row.status /\ Renewed(t).use = row.use
         /\ Renewed(t).life = row.life /\ Renewed(t).gen = row.gen + 1
<1>1. \A n \in Nat : [row EXCEPT !.token = t, !.gen = n] \in RowType
  BY DEF RowType
<1>2. row.gen + 1 \in Nat
  BY DEF RowType
<1>3. Renewed(t) \in RowType
  BY <1>1, <1>2 DEF Renewed
<1> QED BY <1>3 DEF Renewed, RowType

LEMMA FencedRow ==
  ASSUME row \in RowType
  PROVE  /\ Fenced \in RowType
         /\ Fenced.token = row.token /\ Fenced.window = row.window
         /\ Fenced.status = "reauth_required" /\ Fenced.use = row.use
         /\ Fenced.life = row.life + 1 /\ Fenced.gen = row.gen
<1>1. "reauth_required" \in Statuses
  BY DEF Statuses
<1>2. \A n \in Nat, s \in Statuses : [row EXCEPT !.status = s, !.life = n] \in RowType
  BY DEF RowType
<1>3. row.life + 1 \in Nat
  BY DEF RowType
<1>4. Fenced \in RowType
  BY <1>1, <1>2, <1>3 DEF Fenced
<1> QED BY <1>4 DEF Fenced, RowType

LEMMA TakenRow ==
  ASSUME row \in RowType, NEW d \in Disconnects
  PROVE  /\ Taken(d) \in RowType
         /\ Taken(d).token = row.token /\ Taken(d).window = d
         /\ Taken(d).status = "disconnecting" /\ Taken(d).use = "cleanup_only"
         /\ Taken(d).life = row.life + 1 /\ Taken(d).gen = row.gen
<1>1. "disconnecting" \in Statuses /\ "cleanup_only" \in Uses /\ d \in Windows
  BY DEF Statuses, Uses, Windows
<1>2. \A n \in Nat, s \in Statuses, u \in Uses, w \in Windows :
        [row EXCEPT !.status = s, !.use = u, !.life = n, !.window = w] \in RowType
  BY DEF RowType
<1>3. row.life + 1 \in Nat
  BY DEF RowType
<1>4. Taken(d) \in RowType
  BY <1>1, <1>2, <1>3 DEF Taken
<1> QED BY <1>4 DEF Taken, RowType

LEMMA RefreshTypes ==
  ASSUME CredentialTypeOK, SnapHonest, NEW r \in Refreshers, Refresh(r)
  PROVE  CredentialTypeOK'
<1> USE CredentialAssumption
<1> USE DEF CredentialTypeOK, refreshVars, disconnectVars
<1>1. Unread \in SeenType /\ Seen \in SeenType
  BY DEF Unread, Seen, SeenType, RowType, Uses, Windows, Statuses, Tokens
<1>2. \A label \in RefreshPc : Goto(r, label) =>
        pc' \in [Refreshers \cup Disconnects -> RefreshPc \cup DisconnectPc]
  BY DEF Goto
<1>3. Stop(r) =>
        /\ pc' \in [Refreshers \cup Disconnects -> RefreshPc \cup DisconnectPc]
        /\ snap' \in [Refreshers -> SeenType]
  BY <1>1, <1>2 DEF Stop, RefreshPc
<1>4. \A label \in RefreshPc : Go(r, label) =>
        /\ pc' \in [Refreshers \cup Disconnects -> RefreshPc \cup DisconnectPc]
        /\ snap' \in [Refreshers -> SeenType]
  BY <1>2, <1>3 DEF Go
<1>5. CASE LoadConnection(r)
  <2>1. snap' \in [Refreshers -> SeenType]
    BY <1>1, <1>5 DEF LoadConnection
  <2> QED BY <2>1, <1>2, <1>5 DEF LoadConnection, RefreshPc
<1>6. CASE LoadLatest(r)
  BY <1>4, <1>6 DEF LoadLatest, RefreshPc
<1>7. CASE Contend(r)
  BY <1>4, <1>7 DEF Contend, RefreshPc
<1>8. CASE Recheck(r)
  BY <1>4, <1>8 DEF Recheck, RefreshPc
<1>9. CASE GoogleAnswers(r)
  BY <1>4, <1>9 DEF GoogleAnswers, RefreshPc
<1>10. CASE RefreshFails(r)
  BY <1>3, <1>10 DEF RefreshFails
<1>11. CASE CommitTokens(r)
  <2>1. snap[r].token \in Nat
    BY <1>11 DEF CommitTokens, SnapHonest, Working, SeenType, Tokens
  <2>2. row' = row \/ (row' = Renewed(snap[r].token) /\ row.use = "active")
    BY <1>11 DEF CommitTokens, StillAsRead, Renewed
  <2>4. UNCHANGED <<google, lease, lapses, attempt, permit, window, held, ceremony>>
    BY <1>11 DEF CommitTokens
  <2>5. Stop(r)
    BY <1>11 DEF CommitTokens
  <2> QED BY <1>3, <2>1, <2>2, <2>4, <2>5, RenewedRow DEF Tokens
<1>12. CASE RequireReauthorization(r)
  <2>1. row' = row \/ (row' = Fenced /\ row.status = "active")
    BY <1>12 DEF RequireReauthorization, StillAsRead, Fenced
  <2>3. UNCHANGED <<google, lease, lapses, attempt, permit, window, held, ceremony>>
    BY <1>12 DEF RequireReauthorization
  <2>4. Stop(r)
    BY <1>12 DEF RequireReauthorization
  <2> QED BY <1>3, <2>1, <2>3, <2>4, FencedRow
<1>13. CASE Leave(r)
  BY <1>2, <1>13 DEF Leave, RefreshPc
<1> QED
  BY <1>5, <1>6, <1>7, <1>8, <1>9, <1>10, <1>11, <1>12, <1>13 DEF Refresh

LEMMA DisconnectTypes ==
  ASSUME CredentialTypeOK, NEW d \in Disconnects, Disconnect(d)
  PROVE  CredentialTypeOK'
<1> USE CredentialAssumption
<1> USE DEF CredentialTypeOK, refreshVars, disconnectVars, Tokens
<1>1. \A label \in DisconnectPc : Goto(d, label) =>
        pc' \in [Refreshers \cup Disconnects -> RefreshPc \cup DisconnectPc]
  BY DEF Goto
<1>2. Drop(d) => held' \in [Disconnects -> Nat \cup {Nothing}]
  BY DEF Drop
<1>3. \A outcome \in {"not_sent", "revoked", "ambiguous"} : Close(d, outcome) =>
        /\ attempt' \in [Disconnects -> [state : {"none", "active", "dispatching",
                           "not_sent", "revoked", "ambiguous"}, life : Nat, gen : Nat]]
        /\ permit' \in [Disconnects -> {"none", "admitted", "started", "fenced"}]
  BY DEF Close
<1>4. RedactConnection(d) =>
        /\ row' \in RowType
        /\ row'.status = "disconnected" /\ row'.use = "none"
        /\ row'.token = Nothing /\ row'.window = Nothing
  BY DEF RedactConnection, Redacted, RowType, Uses, Windows, Statuses
<1>5. CASE ReadConnection(d)
  BY <1>1, <1>5 DEF ReadConnection, RowType, DisconnectPc
<1>6. CASE Prepare(d)
  BY <1>1, <1>6 DEF Prepare, RowType, DisconnectPc
<1>7. CASE AcquireDispatch(d)
  <2>1. row' = Taken(d) /\ row.status = "active"
    BY <1>7 DEF AcquireDispatch, CanRedact, Usable, Taken
  <2>3. /\ attempt' \in [Disconnects -> [state : {"none", "active", "dispatching",
                           "not_sent", "revoked", "ambiguous"}, life : Nat, gen : Nat]]
        /\ permit' \in [Disconnects -> {"none", "admitted", "started", "fenced"}]
    BY <1>7 DEF AcquireDispatch
  <2>4. UNCHANGED <<google, snap, held, lease, lapses, window, ceremony>> /\ Goto(d, "start")
    BY <1>7 DEF AcquireDispatch
  <2>5. pc' \in [Refreshers \cup Disconnects -> RefreshPc \cup DisconnectPc]
    BY <1>1, <2>4 DEF DisconnectPc
  <2> QED BY <2>1, <2>3, <2>4, <2>5, TakenRow
<1>8. CASE DispatchDenied(d)
  BY <1>1, <1>2, <1>8 DEF DispatchDenied, DisconnectPc
<1>9. CASE StartReads(d)
  BY <1>1, <1>2, <1>9 DEF StartReads, DisconnectPc
<1>10. CASE StartCommits(d)
  BY <1>1, <1>10 DEF StartCommits, DisconnectPc
<1>11. CASE SendRevoke(d)
  <2>1. google' \in [account : Seq(Accounts), live : SUBSET Nat]
    BY <1>11 DEF SendRevoke, End
  <2>2. held' \in [Disconnects -> Nat \cup {Nothing}]
    BY <1>2, <1>11 DEF SendRevoke
  <2>3. pc' \in [Refreshers \cup Disconnects -> RefreshPc \cup DisconnectPc]
    BY <1>1, <1>11 DEF SendRevoke, Answers, DisconnectPc
  <2> QED BY <1>11, <2>1, <2>2, <2>3 DEF SendRevoke
<1>12. CASE AnswerMissing(d)
  BY <1>1, <1>2, <1>12 DEF AnswerMissing, DisconnectPc
<1>13. CASE Settle(d)
  <2>1. Goto(d, "done") /\ Drop(d) /\ pc[d] \in {"not_sent", "revoked", "ambiguous"}
    BY <1>13 DEF Settle
  <2>2. (RedactConnection(d) /\ Close(d, pc[d])) \/ UNCHANGED <<row, attempt, permit>>
    BY <1>13 DEF Settle
  <2>3. UNCHANGED <<google, snap, refreshVars, window, ceremony>>
    BY <1>13 DEF Settle
  <2>4. CASE RedactConnection(d) /\ Close(d, pc[d])
    BY <1>1, <1>2, <1>3, <1>4, <2>1, <2>3, <2>4 DEF DisconnectPc
  <2>5. CASE UNCHANGED <<row, attempt, permit>>
    BY <1>1, <1>2, <2>1, <2>3, <2>5 DEF DisconnectPc
  <2> QED BY <2>2, <2>4, <2>5
<1>14. CASE WindowCloses(d)
  BY <1>14 DEF WindowCloses
<1>15. CASE ReconcileElapsed(d)
  <2>1. Close(d, "ambiguous") \/ Close(d, "not_sent")
    BY <1>15 DEF ReconcileElapsed
  <2>2. RedactConnection(d) \/ UNCHANGED row
    BY <1>15 DEF ReconcileElapsed
  <2>3. UNCHANGED <<google, pc, snap, held, refreshVars, window, ceremony>>
    BY <1>15 DEF ReconcileElapsed
  <2> QED BY <1>3, <1>4, <2>1, <2>2, <2>3
<1> QED
  BY <1>5, <1>6, <1>7, <1>8, <1>9, <1>10, <1>11, <1>12, <1>13, <1>14, <1>15
  DEF Disconnect

\* The rest: what nobody's refresh and nobody's disconnect does.
Rest ==
  LocalDisconnect \/ Ceremony \/ LeaseLapses \/ FenceForDeparture \/ UserRevokes

LEMMA RestTypes ==
  ASSUME CredentialTypeOK, TokensIssued, Rest
  PROVE  CredentialTypeOK'
<1> USE CredentialAssumption
<1> USE DEF CredentialTypeOK, refreshVars, disconnectVars
<1>1. Unread \in SeenType /\ Seen \in SeenType
  BY DEF Unread, Seen, SeenType, RowType, Uses, Windows, Statuses, Tokens
<1>2. \A state \in {"ended", "completed"} :
        Ended(state) \in [state : {"none", "provider_started", "response_preserved",
                                   "applying", "completed", "ended"},
                          seen : SeenType, token : Tokens]
  BY <1>1 DEF Ended, Tokens
<1>3. CASE LocalDisconnect
  <2>1. /\ row' \in RowType /\ row'.status = "disconnected" /\ row'.use = "none"
        /\ row'.token = Nothing /\ row'.window = Nothing
    BY <1>3 DEF LocalDisconnect, Redacted, RowType, Uses, Windows, Statuses, Tokens
  <2> QED BY <1>3, <2>1 DEF LocalDisconnect
<1>4. CASE BeginCeremony
  BY <1>1, <1>4 DEF BeginCeremony
<1>5. CASE ExchangeCode
  <2>1. google' \in [account : Seq(Accounts), live : SUBSET Nat]
    <3>1. \A account \in Accounts : Append(google.account, account) \in Seq(Accounts)
      OBVIOUS
    <3>2. Len(google.account) + 1 \in Nat /\ google.live \subseteq Nat
      OBVIOUS
    <3>3. CASE UNCHANGED google
      BY <3>3
    <3>4. ASSUME NEW account \in Accounts,
                 google' = [account |-> Append(google.account, account),
                            live |-> google.live \cup {Len(google.account) + 1}]
          PROVE  google' \in [account : Seq(Accounts), live : SUBSET Nat]
      BY <3>1, <3>2, <3>4
    <3> QED BY <1>5, <3>3, <3>4 DEF ExchangeCode
  <2>2. PICK token \in Nat : Preserve(token)
    BY <1>5 DEF ExchangeCode
  <2>3. ceremony' \in [state : {"none", "provider_started", "response_preserved",
                                "applying", "completed", "ended"},
                       seen : SeenType, token : Tokens]
    BY <2>2 DEF Preserve, Tokens
  <2> QED BY <1>5, <2>1, <2>3 DEF ExchangeCode
<1>6. CASE EndCeremony
  BY <1>2, <1>6 DEF EndCeremony
<1>7. CASE ClaimPreservedResult
  BY <1>7 DEF ClaimPreservedResult
<1>8. CASE ReconnectGoogleAccount
  <2>1. /\ row' \in RowType /\ row'.status = "active" /\ row'.use = "active"
        /\ row'.token \in Nat /\ row'.window = Nothing
    <3>1. ceremony.token \in Nat
      BY <1>8 DEF ReconnectGoogleAccount, TokensIssued, Answered, Tokens
    <3> QED
      BY <1>8, <3>1 DEF ReconnectGoogleAccount, RowType, Uses, Windows, Statuses, Tokens
  <2> QED BY <1>2, <1>8, <2>1 DEF ReconnectGoogleAccount
<1>9. CASE ReleaseClaim
  BY <1>2, <1>9 DEF ReleaseClaim
<1>10. CASE LeaseLapses
  BY <1>10 DEF LeaseLapses
<1>11. CASE FenceForDeparture
  <2>1. row' = Fenced /\ row.status = "active"
    BY <1>11 DEF FenceForDeparture, Fenced, Usable
  <2> QED BY <1>11, <2>1, FencedRow DEF FenceForDeparture
<1>12. CASE UserRevokes
  <2>1. google' \in [account : Seq(Accounts), live : SUBSET Nat]
    <3>1. \A live \in SUBSET Nat :
            [google EXCEPT !.live = live] \in [account : Seq(Accounts), live : SUBSET Nat]
      OBVIOUS
    <3>2. \A token : google.live \ {token} \in SUBSET Nat
      OBVIOUS
    <3>3. PICK token : google' = [google EXCEPT !.live = google.live \ {token}]
      BY <1>12 DEF UserRevokes, End
    <3> QED BY <3>1, <3>2, <3>3
  <2> QED BY <1>12, <2>1 DEF UserRevokes
<1> QED
  BY <1>3, <1>4, <1>5, <1>6, <1>7, <1>8, <1>9, <1>10, <1>11, <1>12 DEF Rest, Ceremony

-----------------------------------------------------------------------------
(* What a step of one leaves to the others. *)

LEMMA RefreshFrame ==
  ASSUME CredentialTypeOK, NEW r \in Refreshers, Refresh(r)
  PROVE  /\ UNCHANGED <<google, attempt, permit, window, held, ceremony, lapses>>
         /\ \A p \in (Refreshers \cup Disconnects) \ {r} : pc'[p] = pc[p]
         /\ \A q \in Refreshers \ {r} : snap'[q] = snap[q]
<1> USE DEF CredentialTypeOK
<1>1. UNCHANGED <<google, attempt, permit, window, held, ceremony, lapses>>
  BY DEF Refresh, LoadConnection, LoadLatest, Contend, Recheck, GoogleAnswers,
         RefreshFails, CommitTokens, RequireReauthorization, Leave,
         refreshVars, disconnectVars
<1>2. \E label : Goto(r, label)
  BY DEF Refresh, LoadConnection, LoadLatest, Contend, Recheck, GoogleAnswers,
         RefreshFails, CommitTokens, RequireReauthorization, Leave, Go, Stop
<1>3. \A p \in (Refreshers \cup Disconnects) \ {r} : pc'[p] = pc[p]
  BY <1>2 DEF Goto
<1>4. snap' = snap \/ snap' = [snap EXCEPT ![r] = Unread] \/ snap' = [snap EXCEPT ![r] = Seen]
  BY DEF Refresh, LoadConnection, LoadLatest, Contend, Recheck, GoogleAnswers,
         RefreshFails, CommitTokens, RequireReauthorization, Leave, Go, Stop
<1>5. \A q \in Refreshers \ {r} : snap'[q] = snap[q]
  BY <1>4
<1> QED BY <1>1, <1>3, <1>5

LEMMA DisconnectFrame ==
  ASSUME CredentialTypeOK, NEW d \in Disconnects, Disconnect(d)
  PROVE  /\ UNCHANGED <<snap, lease, lapses, ceremony>>
         /\ \A p \in (Refreshers \cup Disconnects) \ {d} : pc'[p] = pc[p]
         /\ \A c \in Disconnects \ {d} : attempt'[c] = attempt[c] /\ window'[c] = window[c]
<1> USE DEF CredentialTypeOK
<1>1. UNCHANGED <<snap, lease, lapses, ceremony>>
  BY DEF Disconnect, ReadConnection, Prepare, AcquireDispatch, DispatchDenied, StartReads,
         StartCommits, SendRevoke, AnswerMissing, Settle, WindowCloses, ReconcileElapsed,
         refreshVars
<1>2. pc' = pc \/ \E label : Goto(d, label)
  BY DEF Disconnect, ReadConnection, Prepare, AcquireDispatch, DispatchDenied, StartReads,
         StartCommits, SendRevoke, AnswerMissing, Settle, WindowCloses, ReconcileElapsed
<1>3. \A p \in (Refreshers \cup Disconnects) \ {d} : pc'[p] = pc[p]
  BY <1>2 DEF Goto
<1>4. attempt' = attempt \/ \E a : attempt' = [attempt EXCEPT ![d] = a]
  <2>1. CASE AcquireDispatch(d)
    BY <2>1 DEF AcquireDispatch
  <2>2. CASE ~AcquireDispatch(d)
    BY <2>2 DEF Disconnect, ReadConnection, Prepare, DispatchDenied, StartReads,
           StartCommits, SendRevoke, AnswerMissing, Settle, WindowCloses,
           ReconcileElapsed, Close
  <2> QED BY <2>1, <2>2
<1>5. window' = window \/ \E w : window' = [window EXCEPT ![d] = w]
  BY DEF Disconnect, ReadConnection, Prepare, AcquireDispatch, DispatchDenied, StartReads,
         StartCommits, SendRevoke, AnswerMissing, Settle, WindowCloses, ReconcileElapsed
<1>6. \A c \in Disconnects \ {d} : attempt'[c] = attempt[c] /\ window'[c] = window[c]
  BY <1>4, <1>5
<1> QED BY <1>1, <1>3, <1>6

LEMMA RestFrame ==
  ASSUME Rest
  PROVE  UNCHANGED <<pc, snap, attempt, permit, window, held>>
  BY DEF Rest, LocalDisconnect, Ceremony, BeginCeremony, ExchangeCode, EndCeremony,
         ClaimPreservedResult, ReconnectGoogleAccount, ReleaseClaim, LeaseLapses,
         FenceForDeparture, UserRevokes, refreshVars, disconnectVars

-----------------------------------------------------------------------------
(* The row only moves on, and a dead grant stays dead. *)

Later ==
  /\ row.life =< row'.life /\ row.gen =< row'.gen
  /\ row'.life # row.life \/ row'.gen # row.gen

LEMMA RedactMoves ==
  ASSUME CredentialTypeOK, NEW d \in Disconnects, CanRedact(d), RedactConnection(d)
  PROVE  Later
<1> USE DEF CredentialTypeOK
<1>1. /\ row'.life = attempt[d].life + 1 /\ row'.gen = attempt[d].gen + 1
  BY DEF RedactConnection, Redacted
<1>2. /\ row.gen = attempt[d].gen
      /\ row.life = attempt[d].life \/ row.life = attempt[d].life + 1
  BY DEF CanRedact, Versions
<1>3. attempt[d].life \in Nat /\ attempt[d].gen \in Nat
  OBVIOUS
<1> QED BY <1>1, <1>2, <1>3 DEF Later

LEMMA RowMoves ==
  ASSUME CredentialTypeOK, Next
  PROVE  row' = row \/ Later
<1> USE DEF CredentialTypeOK
<1>1. row.life \in Nat /\ row.gen \in Nat
  BY DEF RowType
<1>2. ASSUME NEW r \in Refreshers, Refresh(r) PROVE row' = row \/ Later
  <2>1. CASE CommitTokens(r)
    <3>1. row' = row \/ row' = Renewed(snap[r].token)
      BY <2>1 DEF CommitTokens, Renewed
    <3>2. snap[r].token \in Tokens
      BY DEF SeenType
    <3> QED BY <1>1, <3>1, <3>2, RenewedRow DEF Later
  <2>2. CASE RequireReauthorization(r)
    BY <1>1, <2>2, FencedRow DEF RequireReauthorization, Fenced, Later
  <2>3. CASE ~CommitTokens(r) /\ ~RequireReauthorization(r)
    BY <1>2, <2>3 DEF Refresh, LoadConnection, LoadLatest, Contend, Recheck, GoogleAnswers,
                      RefreshFails, Leave
  <2> QED BY <2>1, <2>2, <2>3
<1>3. ASSUME NEW d \in Disconnects, Disconnect(d) PROVE row' = row \/ Later
  <2>1. CASE AcquireDispatch(d)
    <3>1. row' = Taken(d)
      BY <2>1 DEF AcquireDispatch, Taken
    <3> QED BY <1>1, <3>1, TakenRow DEF Later
  <2>2. CASE Settle(d)
    BY <2>2, RedactMoves DEF Settle
  <2>3. CASE ReconcileElapsed(d)
    BY <2>3, RedactMoves DEF ReconcileElapsed
  <2>4. CASE ~AcquireDispatch(d) /\ ~Settle(d) /\ ~ReconcileElapsed(d)
    BY <1>3, <2>4 DEF Disconnect, ReadConnection, Prepare, DispatchDenied, StartReads,
                      StartCommits, SendRevoke, AnswerMissing, WindowCloses
  <2> QED BY <2>1, <2>2, <2>3, <2>4
<1>4. ASSUME Rest PROVE row' = row \/ Later
  <2>1. CASE LocalDisconnect
    BY <1>1, <2>1 DEF LocalDisconnect, Redacted, Later
  <2>2. CASE ReconnectGoogleAccount
    BY <1>1, <2>2 DEF ReconnectGoogleAccount, Later
  <2>3. CASE FenceForDeparture
    BY <1>1, <2>3, FencedRow DEF FenceForDeparture, Fenced, Later
  <2>4. CASE ~LocalDisconnect /\ ~ReconnectGoogleAccount /\ ~FenceForDeparture
    BY <1>4, <2>4 DEF Rest, Ceremony, BeginCeremony, ExchangeCode, EndCeremony,
                      ClaimPreservedResult, ReleaseClaim, LeaseLapses, UserRevokes
  <2> QED BY <2>1, <2>2, <2>3, <2>4
<1> QED BY <1>2, <1>3, <1>4 DEF Next, Rest

LEMMA PrecedesStays ==
  ASSUME CredentialTypeOK, CredentialTypeOK', Next, NEW s \in SeenType, Precedes(s)
  PROVE  Precedes(s)'
<1>1. s.life \in Nat /\ s.gen \in Nat
  BY DEF SeenType
<1>2. row.life \in Nat /\ row.gen \in Nat /\ row'.life \in Nat /\ row'.gen \in Nat
  BY DEF CredentialTypeOK, RowType
<1>3. row' = row \/ Later
  BY RowMoves
<1>4. CASE row' = row
  BY <1>4 DEF Precedes, Versions
<1>5. CASE Later
  BY <1>1, <1>2, <1>5 DEF Later, Precedes, Versions
<1> QED BY <1>3, <1>4, <1>5

\* What the row holds now is what anybody reads of it.
LEMMA SeenPrecedes ==
  ASSUME CredentialTypeOK
  PROVE  Precedes(Seen) /\ Seen \in SeenType
  BY DEF CredentialTypeOK, Precedes, Seen, Versions, SeenType, RowType

\* Google only gives grants and ends them.
LEMMA GoogleSteps ==
  ASSUME CredentialTypeOK, Next
  PROVE  \/ UNCHANGED google
         \/ \E t : End(t)
         \/ \E account \in Accounts :
              /\ \A t \in google.live : AccountOf(t) # account
              /\ google' = [account |-> Append(google.account, account),
                            live |-> google.live \cup {Len(google.account) + 1}]
<1>1. ASSUME NEW r \in Refreshers, Refresh(r) PROVE UNCHANGED google
  BY <1>1, RefreshFrame
<1>2. ASSUME NEW d \in Disconnects, Disconnect(d) PROVE UNCHANGED google \/ End(held[d])
  BY <1>2 DEF Disconnect, ReadConnection, Prepare, AcquireDispatch, DispatchDenied,
       StartReads, StartCommits, SendRevoke, AnswerMissing, Settle, WindowCloses,
       ReconcileElapsed
<1>3. ASSUME LocalDisconnect \/ (Ceremony /\ ~ExchangeCode) \/ LeaseLapses
             \/ FenceForDeparture
      PROVE  UNCHANGED google
  BY <1>3 DEF LocalDisconnect, Ceremony, BeginCeremony, EndCeremony, ClaimPreservedResult,
       ReconnectGoogleAccount, ReleaseClaim, LeaseLapses, FenceForDeparture
<1>4. UserRevokes => \E t : End(t)
  BY DEF UserRevokes
<1>5. CASE ExchangeCode
  BY <1>5 DEF ExchangeCode
<1> QED BY <1>1, <1>2, <1>3, <1>4, <1>5 DEF Next, Ceremony

\* What is known of a token of a grant stays known.
LEMMA GoogleMoves ==
  ASSUME CredentialTypeOK, Next, NEW token \in Given
  PROVE  /\ token \in 1..Len(google'.account)
         /\ google'.account[token] = google.account[token]
         /\ token \notin google.live => token \notin google'.live
<1> DEFINE before == google.account
<1>1. before \in Seq(Accounts) /\ google \in [account : Seq(Accounts), live : SUBSET Nat]
  BY DEF CredentialTypeOK
<1>2. token \in 1..Len(before)
  BY DEF Given
<1>3. CASE UNCHANGED google
  BY <1>2, <1>3
<1>4. ASSUME NEW t, End(t) PROVE google'.account = before /\ google'.live = google.live \ {t}
  BY <1>1, <1>4 DEF End
<1>5. ASSUME NEW account \in Accounts,
             google' = [account |-> Append(before, account),
                        live |-> google.live \cup {Len(before) + 1}]
      PROVE  /\ token \in 1..Len(google'.account)
             /\ google'.account[token] = before[token]
             /\ token \notin google.live => token \notin google'.live
  <2>1. /\ Len(before) \in Nat
        /\ Len(Append(before, account)) = Len(before) + 1
        /\ \A i \in 1..Len(before) : Append(before, account)[i] = before[i]
    BY <1>1
  <2>2. google'.account = Append(before, account)
        /\ google'.live = google.live \cup {Len(before) + 1}
    BY <1>5
  <2> HIDE DEF before
  <2> QED BY <1>2, <2>1, <2>2
<1> QED BY <1>2, <1>3, <1>4, <1>5, GoogleSteps

LEMMA OneLiveStep ==
  ASSUME CredentialTypeOK, OneLive, Next
  PROVE  OneLive'
<1> DEFINE before == google.account
<1>1. before \in Seq(Accounts) /\ google \in [account : Seq(Accounts), live : SUBSET Nat]
  BY DEF CredentialTypeOK
<1>2. CASE UNCHANGED google
  BY <1>2 DEF OneLive, Given, AccountOf
<1>3. ASSUME NEW t, End(t) PROVE OneLive'
  <2>1. google'.account = before /\ google'.live = google.live \ {t}
    BY <1>1, <1>3 DEF End
  <2> QED BY <2>1 DEF OneLive, Given, AccountOf
<1>4. ASSUME NEW account \in Accounts,
             \A t \in google.live : AccountOf(t) # account,
             google' = [account |-> Append(before, account),
                        live |-> google.live \cup {Len(before) + 1}]
      PROVE  OneLive'
  <2>1. /\ Len(before) \in Nat
        /\ Len(Append(before, account)) = Len(before) + 1
        /\ \A i \in 1..Len(before) : Append(before, account)[i] = before[i]
        /\ Append(before, account)[Len(before) + 1] = account
    BY <1>1
  <2>2. google'.account = Append(before, account)
        /\ google'.live = google.live \cup {Len(before) + 1}
    BY <1>4
  <2>3. /\ google.live \subseteq 1..Len(before)
        /\ \A s, t \in google.live : before[s] = before[t] => s = t
        /\ \A t \in google.live : before[t] # account
    BY <1>4 DEF OneLive, Given, AccountOf
  <2> HIDE DEF before
  <2>4. google'.live \subseteq 1..Len(google'.account)
    BY <2>1, <2>2, <2>3
  <2>5. ASSUME NEW s \in google'.live, NEW t \in google'.live,
               google'.account[s] = google'.account[t]
        PROVE  s = t
    <3>1. \A u \in google.live : google'.account[u] = before[u]
      BY <2>1, <2>2, <2>3
    <3>2. google'.account[Len(before) + 1] = account
      BY <2>1, <2>2
    <3> QED BY <2>2, <2>3, <2>5, <3>1, <3>2
  <2> QED BY <2>4, <2>5 DEF OneLive, Given, AccountOf
<1> QED BY <1>2, <1>3, <1>4, GoogleSteps

-----------------------------------------------------------------------------
(* Refreshes. *)

\* A refresh at work has kept what it read, or reads the row in this step.
LEMMA SnapMoves ==
  ASSUME CredentialTypeOK, Next, NEW r \in Refreshers, pc'[r] \in Working
  PROVE  \/ pc[r] \in Working /\ snap'[r] = snap[r]
         \/ Usable /\ snap'[r] = Seen /\ UNCHANGED <<row, google>>
<1> USE CredentialAssumption
<1>1. pc \in [Refreshers \cup Disconnects -> RefreshPc \cup DisconnectPc]
      /\ snap \in [Refreshers -> SeenType]
  BY DEF CredentialTypeOK
<1>2. CASE Refresh(r)
  <2>1. \A label : Goto(r, label) => pc'[r] = label
    BY <1>1 DEF Goto
  <2>2. Stop(r) => pc'[r] \notin Working
    BY <2>1 DEF Stop, Working
  <2>3. \A label : Go(r, label) => pc'[r] \notin Working \/ snap' = snap
    BY <2>2 DEF Go
  <2>4. CASE LoadConnection(r)
    BY <1>1, <2>4 DEF LoadConnection
  <2>5. CASE LoadLatest(r) \/ Contend(r) \/ Recheck(r) \/ GoogleAnswers(r)
    <3>1. pc[r] \in Working
      BY <2>5 DEF LoadLatest, Contend, Recheck, GoogleAnswers, Working
    <3>2. \E label : Go(r, label)
      BY <2>5 DEF LoadLatest, Contend, Recheck, GoogleAnswers
    <3> QED BY <2>3, <3>1, <3>2
  <2>6. CASE RefreshFails(r) \/ CommitTokens(r) \/ RequireReauthorization(r)
    BY <2>2, <2>6 DEF RefreshFails, CommitTokens, RequireReauthorization
  <2>7. CASE Leave(r)
    BY <2>1, <2>7 DEF Leave, Working
  <2> QED BY <1>2, <2>4, <2>5, <2>6, <2>7 DEF Refresh
<1>3. ASSUME NEW q \in Refreshers \ {r}, Refresh(q)
      PROVE  pc[r] \in Working /\ snap'[r] = snap[r]
  BY <1>3, RefreshFrame
<1>4. ASSUME NEW d \in Disconnects, Disconnect(d)
      PROVE  pc[r] \in Working /\ snap'[r] = snap[r]
  <2>1. r # d
    OBVIOUS
  <2> QED BY <1>4, <2>1, DisconnectFrame
<1>5. ASSUME Rest
      PROVE  pc[r] \in Working /\ snap'[r] = snap[r]
  BY <1>5, RestFrame
<1> QED BY <1>2, <1>3, <1>4, <1>5 DEF Next, Rest

LEMMA SnapStep ==
  ASSUME CredentialTypeOK, CredentialTypeOK', SnapHonest, TokensIssued, Next
  PROVE  SnapHonest'
<1> SUFFICES ASSUME NEW r \in Refreshers, pc'[r] \in Working
             PROVE  /\ snap'[r].status = "active" /\ snap'[r].token # Nothing
                    /\ snap'[r].token \in 1..Len(google'.account)
                    /\ snap'[r].life =< row'.life /\ snap'[r].gen =< row'.gen
                    /\ Versions(snap'[r]) = Versions(row') =>
                         snap'[r].status = row'.status /\ snap'[r].token = row'.token
  BY DEF SnapHonest, Working, Issued, Given, Precedes, Versions
<1>1. CASE pc[r] \in Working /\ snap'[r] = snap[r]
  <2>1. snap[r] \in SeenType
    BY DEF CredentialTypeOK
  <2>2. /\ snap[r].status = "active" /\ snap[r].token # Nothing
        /\ Issued(snap[r].token) /\ Precedes(snap[r])
    BY <1>1 DEF SnapHonest
  <2>3. snap[r].token \in Given
    BY <2>2 DEF Issued
  <2>4. snap[r].token \in 1..Len(google'.account)
    BY <2>3, GoogleMoves
  <2>5. ASSUME NEW s \in SeenType, Precedes(s)
        PROVE  /\ s.life =< row'.life /\ s.gen =< row'.gen
               /\ Versions(s) = Versions(row') => s.status = row'.status /\ s.token = row'.token
    BY <2>5, PrecedesStays DEF Precedes, Versions
  <2> QED BY <1>1, <2>1, <2>2, <2>4, <2>5
<1>2. CASE Usable /\ snap'[r] = Seen /\ UNCHANGED <<row, google>>
  <2>1. Precedes(Seen) /\ row.token # Nothing
    BY <1>2, SeenPrecedes DEF Usable, CredentialTypeOK
  <2> QED BY <1>2, <2>1 DEF Usable, Seen, TokensIssued, Issued, Given, Precedes, Versions
<1> QED BY <1>1, <1>2, SnapMoves

\* Who writes a "fence" has just been refused by Google.
LEMMA FenceStep ==
  ASSUME CredentialTypeOK, SnapHonest, FenceDead, Next
  PROVE  FenceDead'
<1> USE CredentialAssumption
<1> SUFFICES ASSUME NEW r \in Refreshers, pc'[r] = "fence"
             PROVE  snap'[r].token \notin google'.live
  BY DEF FenceDead, IsLive
<1>1. pc \in [Refreshers \cup Disconnects -> RefreshPc \cup DisconnectPc]
  BY DEF CredentialTypeOK
<1>2. \/ pc[r] = "fence" /\ snap'[r] = snap[r]
      \/ GoogleAnswers(r)
  <2>1. CASE Refresh(r)
    <3>1. \A label : Goto(r, label) => pc'[r] = label
      BY <1>1 DEF Goto
    <3>2. ~Stop(r)
      BY <3>1 DEF Stop
    <3> QED
      BY <2>1, <3>1, <3>2
      DEF Refresh, LoadConnection, LoadLatest, Contend, Recheck, GoogleAnswers, Go,
          RefreshFails, CommitTokens, RequireReauthorization, Leave
  <2>2. ASSUME NEW q \in Refreshers \ {r}, Refresh(q) PROVE pc[r] = "fence" /\ snap'[r] = snap[r]
    BY <2>2, RefreshFrame
  <2>3. ASSUME NEW d \in Disconnects, Disconnect(d)
        PROVE  pc[r] = "fence" /\ snap'[r] = snap[r]
    <3>1. r # d
      OBVIOUS
    <3> QED BY <2>3, <3>1, DisconnectFrame
  <2>4. ASSUME Rest PROVE pc[r] = "fence" /\ snap'[r] = snap[r]
    BY <2>4, RestFrame
  <2> QED BY <2>1, <2>2, <2>3, <2>4 DEF Next, Rest
<1>3. CASE pc[r] = "fence" /\ snap'[r] = snap[r]
  <2>1. ~IsLive(snap[r].token)
    BY <1>3 DEF FenceDead
  <2>2. snap[r].token \in Given
    BY <1>3 DEF SnapHonest, Working, Issued
  <2> QED BY <1>3, <2>1, <2>2, GoogleMoves DEF IsLive
<1>4. CASE GoogleAnswers(r)
  <2>1. \A label : Goto(r, label) => pc'[r] = label
    BY <1>1 DEF Goto
  <2>2. ~Stop(r)
    BY <2>1 DEF Stop
  <2>3. ~IsLive(snap[r].token) /\ snap' = snap /\ google' = google
    BY <1>4, <2>1, <2>2 DEF GoogleAnswers, Go
  <2> QED BY <2>3 DEF IsLive
<1> QED BY <1>2, <1>3, <1>4

\* The lock changes hands only when it is free, left or lapsed.
LEMMA OwnerStep ==
  ASSUME CredentialTypeOK, OwnerInside, Next
  PROVE  OwnerInside'
<1> USE CredentialAssumption
<1> SUFFICES ASSUME lapses' = 0, NEW r \in Refreshers, pc'[r] \in Leading
             PROVE  lease' = r
  BY DEF OwnerInside, Leading
<1>1. /\ pc \in [Refreshers \cup Disconnects -> RefreshPc \cup DisconnectPc]
      /\ lapses \in Nat
  BY DEF CredentialTypeOK
<1>2. CASE Refresh(r)
  <2>1. \A label : Goto(r, label) => pc'[r] = label
    BY <1>1 DEF Goto
  <2>2. ~Stop(r)
    BY <2>1 DEF Stop, Leading
  <2>3. lapses = 0
    BY <1>2, RefreshFrame
  <2>4. CASE Contend(r)
    BY <2>1, <2>2, <2>4 DEF Contend, Go, Leading
  <2>5. CASE Recheck(r) \/ GoogleAnswers(r)
    <3>1. pc[r] \in Leading /\ lease' = lease
      BY <2>5 DEF Recheck, GoogleAnswers, Leading, refreshVars
    <3> QED BY <2>3, <3>1 DEF OwnerInside
  <2>6. ~LoadConnection(r) /\ ~LoadLatest(r) /\ ~Leave(r)
    BY <2>1, <2>2 DEF LoadConnection, LoadLatest, Leave, Go, Leading
  <2>7. ~RefreshFails(r) /\ ~CommitTokens(r) /\ ~RequireReauthorization(r)
    BY <2>2 DEF RefreshFails, CommitTokens, RequireReauthorization
  <2> QED BY <1>2, <2>4, <2>5, <2>6, <2>7 DEF Refresh
<1>3. ASSUME NEW q \in Refreshers \ {r}, Refresh(q) PROVE lease' = r
  <2>1. pc[r] \in Leading /\ lapses = 0
    BY <1>3, RefreshFrame
  <2>2. lease = r
    BY <2>1 DEF OwnerInside
  <2> QED
    BY <1>3, <2>2
    DEF Refresh, LoadConnection, LoadLatest, Contend, Recheck, GoogleAnswers,
        RefreshFails, CommitTokens, RequireReauthorization, Leave, refreshVars
<1>4. ASSUME NEW d \in Disconnects, Disconnect(d) PROVE lease' = r
  <2>1. r # d
    OBVIOUS
  <2>2. pc[r] \in Leading /\ lapses = 0 /\ lease' = lease
    BY <1>4, <2>1, DisconnectFrame
  <2> QED BY <2>2 DEF OwnerInside
<1>5. ASSUME Rest PROVE lease' = r
  <2>1. pc[r] \in Leading
    BY <1>5, RestFrame
  <2>2. ~LeaseLapses
    BY <1>1 DEF LeaseLapses
  <2>3. UNCHANGED <<lease, lapses>>
    BY <1>5, <2>2
    DEF Rest, LocalDisconnect, Ceremony, BeginCeremony, ExchangeCode, EndCeremony,
        ClaimPreservedResult, ReconnectGoogleAccount, ReleaseClaim, FenceForDeparture,
        UserRevokes, refreshVars
  <2> QED BY <2>1, <2>3 DEF OwnerInside
<1> QED BY <1>2, <1>3, <1>4, <1>5 DEF Next, Rest

\* A row that is written and active afterwards was refreshed or reconnected.
LEMMA ActiveMoves ==
  ASSUME CredentialTypeOK, Next, row' # row, row'.status = "active"
  PROVE  \/ \E q \in Refreshers : CommitTokens(q)
         \/ row'.life = row.life + 1
<1>1. ASSUME NEW q \in Refreshers, Refresh(q) PROVE CommitTokens(q)
  <2>1. ~RequireReauthorization(q)
    BY FencedRow DEF RequireReauthorization, Fenced, CredentialTypeOK
  <2> QED BY <1>1, <2>1 DEF Refresh, LoadConnection, LoadLatest, Contend, Recheck,
                            GoogleAnswers, RefreshFails, Leave
<1>2. ASSUME NEW d \in Disconnects, Disconnect(d) PROVE FALSE
  <2>1. ~AcquireDispatch(d)
    BY TakenRow DEF AcquireDispatch, Taken, CredentialTypeOK
  <2>2. ~RedactConnection(d)
    BY DEF RedactConnection, Redacted
  <2> QED BY <1>2, <2>1, <2>2
          DEF Disconnect, ReadConnection, Prepare, DispatchDenied, StartReads,
              StartCommits, SendRevoke, AnswerMissing, Settle, WindowCloses, ReconcileElapsed
<1>3. ASSUME Rest PROVE row'.life = row.life + 1
  <2>1. ~LocalDisconnect
    BY DEF LocalDisconnect, Redacted
  <2>2. ~FenceForDeparture
    BY FencedRow DEF FenceForDeparture, Fenced, CredentialTypeOK
  <2>3. ReconnectGoogleAccount
    BY <1>3, <2>1, <2>2
    DEF Rest, Ceremony, BeginCeremony, ExchangeCode, EndCeremony, ClaimPreservedResult,
        ReleaseClaim, LeaseLapses, UserRevokes
  <2> QED BY <2>3 DEF ReconnectGoogleAccount
<1> QED BY <1>1, <1>2, <1>3 DEF Next, Rest

\* Only the owner commits, so nobody overtakes a leader but by moving the
\* lifecycle or ending the credential.
LEMMA LeaderStep ==
  ASSUME CredentialTypeOK, SnapHonest, OwnerInside, LeaderIsCurrent, Next
  PROVE  LeaderIsCurrent'
<1> USE CredentialAssumption
<1> DEFINE Deep == {"asked", "commit", "fence"}
<1> SUFFICES ASSUME lapses' = 0, NEW r \in Refreshers, lease' = r, pc'[r] \in Deep,
                    row'.status = "active", row'.life = snap'[r].life
             PROVE  row'.gen = snap'[r].gen
  BY DEF LeaderIsCurrent
<1>1. /\ pc \in [Refreshers \cup Disconnects -> RefreshPc \cup DisconnectPc]
      /\ lapses \in Nat /\ snap[r] \in SeenType /\ row.life \in Nat
  BY DEF CredentialTypeOK, RowType
<1>2. \A label : Goto(r, label) => pc'[r] = label
  BY <1>1 DEF Goto
<1>3. ~Stop(r)
  BY <1>2 DEF Stop
<1>4. /\ lapses = 0
      /\ \/ pc[r] \in Deep /\ snap'[r] = snap[r]
         \/ Recheck(r)
  <2>1. CASE Refresh(r)
    <3>1. lapses = 0
      BY <2>1, RefreshFrame
    <3>2. Recheck(r) \/ GoogleAnswers(r)
      BY <1>2, <1>3, <2>1
      DEF Refresh, LoadConnection, LoadLatest, Contend, Go,
          RefreshFails, CommitTokens, RequireReauthorization, Leave
    <3> QED BY <1>3, <3>1, <3>2 DEF GoogleAnswers, Go
  <2>2. ASSUME NEW q \in Refreshers \ {r}, Refresh(q)
        PROVE  lapses = 0 /\ pc[r] \in Deep /\ snap'[r] = snap[r]
    BY <2>2, RefreshFrame
  <2>3. ASSUME NEW d \in Disconnects, Disconnect(d)
        PROVE  lapses = 0 /\ pc[r] \in Deep /\ snap'[r] = snap[r]
    <3>1. r # d
      OBVIOUS
    <3> QED BY <2>3, <3>1, DisconnectFrame
  <2>4. ASSUME Rest PROVE lapses = 0 /\ pc[r] \in Deep /\ snap'[r] = snap[r]
    <3>1. lapses = 0
      BY <1>1, <2>4
      DEF Rest, LocalDisconnect, Ceremony, BeginCeremony, ExchangeCode, EndCeremony,
          ClaimPreservedResult, ReconnectGoogleAccount, ReleaseClaim, LeaseLapses,
          FenceForDeparture, UserRevokes, refreshVars
    <3> QED BY <2>4, <3>1, RestFrame
  <2> QED BY <2>1, <2>2, <2>3, <2>4 DEF Next, Rest
<1>5. CASE Recheck(r)
  BY <1>2, <1>3, <1>5 DEF Recheck, Go, Superseded
<1>6. CASE pc[r] \in Deep /\ snap'[r] = snap[r]
  <2>1. lease = r
    BY <1>4, <1>6 DEF OwnerInside, Leading
  <2>2. CASE row' = row
    BY <1>4, <1>6, <2>1, <2>2 DEF LeaderIsCurrent
  <2>3. ASSUME NEW q \in Refreshers, CommitTokens(q) PROVE FALSE
    <3>1. lease = q
      BY <1>4, <2>3 DEF CommitTokens, OwnerInside, Leading
    <3> QED BY <1>3, <2>1, <2>3, <3>1 DEF CommitTokens
  <2>4. CASE row'.life = row.life + 1
    <3>1. snap[r].life =< row.life /\ snap[r].life \in Nat
      BY <1>1, <1>6 DEF SnapHonest, Precedes, Working, SeenType
    <3> QED BY <1>1, <1>6, <2>4, <3>1
  <2> QED BY <2>2, <2>3, <2>4, ActiveMoves
<1> QED BY <1>4, <1>5, <1>6

-----------------------------------------------------------------------------
(* The ceremony and the tokens. *)

LEMMA CeremonyMoves ==
  ASSUME CredentialTypeOK, Next
  PROVE  \/ ceremony' = ceremony
         \/ /\ BeginCeremony /\ ceremony'.seen = Seen /\ ceremony'.token = ceremony.token
            /\ ceremony'.state \notin Answered
         \/ /\ ceremony.state \in Pending /\ ceremony'.seen = ceremony.seen
            /\ \/ ceremony.state \in Answered /\ ceremony'.token = ceremony.token
               \/ ceremony'.token \in Nat \cap google'.live
         \/ ceremony'.state \notin Pending /\ ceremony'.token = Nothing
<1> DEFINE Goal ==
         \/ ceremony' = ceremony
         \/ /\ BeginCeremony /\ ceremony'.seen = Seen /\ ceremony'.token = ceremony.token
            /\ ceremony'.state \notin Answered
         \/ /\ ceremony.state \in Pending /\ ceremony'.seen = ceremony.seen
            /\ \/ ceremony.state \in Answered /\ ceremony'.token = ceremony.token
               \/ ceremony'.token \in Nat \cap google'.live
         \/ ceremony'.state \notin Pending /\ ceremony'.token = Nothing
<1>1. ceremony \in [state : {"none", "provider_started", "response_preserved",
                            "applying", "completed", "ended"},
                   seen : SeenType, token : Tokens]
  BY DEF CredentialTypeOK
<1>2. CASE BeginCeremony
  BY <1>1, <1>2 DEF BeginCeremony, Answered
<1>3. CASE ExchangeCode
  <2>1. PICK token \in Nat : Preserve(token) /\ token \in google'.live
    <3>1. google.live \subseteq Nat /\ Len(google.account) + 1 \in Nat
      BY DEF CredentialTypeOK
    <3> QED BY <1>3, <3>1 DEF ExchangeCode
  <2> QED BY <1>1, <1>3, <2>1 DEF ExchangeCode, Preserve, Pending
<1>4. CASE EndCeremony \/ ReconnectGoogleAccount
  BY <1>4 DEF EndCeremony, ReconnectGoogleAccount, Ended, Pending
<1>5. CASE ClaimPreservedResult
  BY <1>1, <1>5 DEF ClaimPreservedResult, Pending, Answered
<1>6. CASE ReleaseClaim
  <2>1. CASE ceremony' = Ended("ended")
    BY <2>1 DEF Ended, Pending
  <2>2. CASE ceremony' = [ceremony EXCEPT !.state = "response_preserved"]
    BY <1>1, <1>6, <2>2 DEF ReleaseClaim, Pending, Answered
  <2> QED BY <1>6, <2>1, <2>2 DEF ReleaseClaim
<1>7. ASSUME NEW r \in Refreshers, Refresh(r) PROVE ceremony' = ceremony
  BY <1>7, RefreshFrame
<1>8. ASSUME NEW d \in Disconnects, Disconnect(d) PROVE ceremony' = ceremony
  BY <1>8, DisconnectFrame
<1>9. CASE LocalDisconnect \/ LeaseLapses \/ FenceForDeparture \/ UserRevokes
  BY <1>9 DEF LocalDisconnect, LeaseLapses, FenceForDeparture, UserRevokes
<1>10. Goal
  <2> HIDE DEF Goal
  <2>1. CASE Ceremony
    BY <2>1, <1>2, <1>3, <1>4, <1>5, <1>6 DEF Ceremony, Goal
  <2> QED BY <2>1, <1>7, <1>8, <1>9 DEF Next, Goal
<1> QED BY <1>10

LEMMA CeremonyStep ==
  ASSUME CredentialTypeOK, CredentialTypeOK', CeremonyHonest, Next
  PROVE  CeremonyHonest'
<1> SUFFICES ASSUME ceremony'.state \in Pending
             PROVE  /\ ceremony'.seen.status # "disconnecting"
                    /\ ceremony'.seen.life =< row'.life /\ ceremony'.seen.gen =< row'.gen
                    /\ Versions(ceremony'.seen) = Versions(row') =>
                         /\ ceremony'.seen.status = row'.status
                         /\ ceremony'.seen.token = row'.token
  BY DEF CeremonyHonest, Pending, Precedes, Versions
<1>1. \/ ceremony.state \in Pending /\ ceremony'.seen = ceremony.seen
      \/ BeginCeremony
  BY CeremonyMoves
<1>2. CASE ceremony.state \in Pending /\ ceremony'.seen = ceremony.seen
  <2>1. /\ ceremony.seen \in SeenType /\ Precedes(ceremony.seen)
        /\ ceremony.seen.status # "disconnecting"
    BY <1>2 DEF CeremonyHonest, CredentialTypeOK
  <2>2. ASSUME NEW s \in SeenType, Precedes(s)
        PROVE  /\ s.life =< row'.life /\ s.gen =< row'.gen
               /\ Versions(s) = Versions(row') => s.status = row'.status /\ s.token = row'.token
    BY <2>2, PrecedesStays DEF Precedes, Versions
  <2> QED BY <1>2, <2>1, <2>2
<1>3. CASE BeginCeremony
  <2>1. ceremony'.seen = Seen /\ row' = row /\ row.status # "disconnecting"
    BY <1>3 DEF BeginCeremony, CredentialTypeOK
  <2>2. row.life \in Nat /\ row.gen \in Nat
    BY DEF CredentialTypeOK, RowType
  <2> QED BY <2>1, <2>2 DEF Seen
<1> QED BY <1>1, <1>2, <1>3

\* Where the token of the row comes from.
LEMMA TokenMoves ==
  ASSUME CredentialTypeOK, Next
  PROVE  \/ row'.token = row.token \/ row'.token = Nothing
         \/ \E r \in Refreshers : pc[r] = "commit" /\ row'.token = snap[r].token
         \/ row'.token = ceremony.token
<1>1. ASSUME NEW r \in Refreshers, Refresh(r)
      PROVE  row'.token = row.token \/ (pc[r] = "commit" /\ row'.token = snap[r].token)
  <2>1. CASE CommitTokens(r)
    <3>1. row' = row \/ row' = Renewed(snap[r].token)
      BY <2>1 DEF CommitTokens, Renewed
    <3>2. snap[r].token \in Tokens
      BY DEF CredentialTypeOK, SeenType
    <3> QED BY <2>1, <3>1, <3>2, RenewedRow DEF CommitTokens, CredentialTypeOK
  <2>2. CASE RequireReauthorization(r)
    BY <2>2, FencedRow DEF RequireReauthorization, Fenced, CredentialTypeOK
  <2>3. CASE ~CommitTokens(r) /\ ~RequireReauthorization(r)
    BY <1>1, <2>3 DEF Refresh, LoadConnection, LoadLatest, Contend, Recheck, GoogleAnswers,
                      RefreshFails, Leave
  <2> QED BY <2>1, <2>2, <2>3
<1>2. ASSUME NEW d \in Disconnects, Disconnect(d)
      PROVE  row'.token = row.token \/ row'.token = Nothing
  <2>1. CASE AcquireDispatch(d)
    BY <2>1, TakenRow DEF AcquireDispatch, Taken, CredentialTypeOK
  <2>2. CASE ~AcquireDispatch(d)
    BY <1>2, <2>2 DEF Disconnect, ReadConnection, Prepare, DispatchDenied, StartReads,
         StartCommits, SendRevoke, AnswerMissing, Settle, WindowCloses, ReconcileElapsed,
         RedactConnection, Redacted
  <2> QED BY <2>1, <2>2
<1>3. ASSUME Rest
      PROVE  row'.token = row.token \/ row'.token = Nothing \/ row'.token = ceremony.token
  <2>1. CASE FenceForDeparture
    BY <2>1, FencedRow DEF FenceForDeparture, Fenced, CredentialTypeOK
  <2>2. CASE ~FenceForDeparture
    BY <1>3, <2>2 DEF Rest, LocalDisconnect, Redacted, Ceremony, BeginCeremony, ExchangeCode,
         EndCeremony, ClaimPreservedResult, ReconnectGoogleAccount, ReleaseClaim,
         LeaseLapses, UserRevokes
  <2> QED BY <2>1, <2>2
<1> QED BY <1>1, <1>2, <1>3 DEF Next, Rest

LEMMA TokensStep ==
  ASSUME CredentialTypeOK, OneLive', SnapHonest, TokensIssued, Next
  PROVE  TokensIssued'
<1> DEFINE After == 1..Len(google'.account)
<1> USE CredentialAssumption
<1>1. ASSUME NEW t \in Given PROVE t \in After
  BY <1>1, GoogleMoves
<1>2. row'.token # Nothing => row'.token \in After
  <2>1. CASE row'.token = row.token
    BY <1>1, <2>1 DEF TokensIssued, Issued
  <2>2. CASE \E r \in Refreshers : pc[r] = "commit" /\ row'.token = snap[r].token
    BY <1>1, <2>2 DEF SnapHonest, Working, Issued
  <2>3. CASE row'.token = ceremony.token
    BY <1>1, <2>3 DEF TokensIssued, Issued
  <2> QED BY <2>1, <2>2, <2>3, TokenMoves
<1>3. google'.live \subseteq After
  BY DEF OneLive, Given
<1>4. ceremony'.token # Nothing => ceremony'.token \in After
  BY <1>1, <1>3, CeremonyMoves DEF TokensIssued, Issued
<1>5. ceremony'.state \in Answered => ceremony'.token # Nothing
  BY CeremonyMoves DEF TokensIssued, Answered, Pending
<1> QED BY <1>2, <1>4, <1>5 DEF TokensIssued, Issued, Given, Answered

-----------------------------------------------------------------------------
(* Disconnects. *)

\* An attempt is opened, dispatched or closed by its own steps alone, and is
\* not closed before the row it may redact is redacted.
LEMMA AttemptMoves ==
  ASSUME CredentialTypeOK, Next, NEW d \in Disconnects
  PROVE  \/ attempt'[d] = attempt[d]
         \/ Prepare(d) /\ attempt'[d].state = "active"
         \/ AcquireDispatch(d) /\ attempt'[d] = [attempt[d] EXCEPT !.state = "dispatching"]
         \/ /\ Settle(d) \/ ReconcileElapsed(d)
            /\ attempt'[d].state \in {"not_sent", "revoked", "ambiguous"}
            /\ Open(d) /\ (CanRedact(d) => RedactConnection(d))
<1>1. attempt \in [Disconnects -> [state : {"none", "active", "dispatching", "not_sent",
                                           "revoked", "ambiguous"}, life : Nat, gen : Nat]]
  BY DEF CredentialTypeOK
<1>2. \A outcome : Close(d, outcome) => attempt'[d].state = outcome
  BY <1>1 DEF Close
<1>3. CASE Prepare(d)
  BY <1>1, <1>3 DEF Prepare
<1>4. CASE AcquireDispatch(d)
  BY <1>1, <1>4 DEF AcquireDispatch
<1>5. CASE Settle(d)
  <2>1. \/ attempt' = attempt
        \/ Open(d) /\ RedactConnection(d) /\ Close(d, pc[d])
    BY <1>5 DEF Settle, Open
  <2>2. pc[d] \in {"not_sent", "revoked", "ambiguous"}
    BY <1>5 DEF Settle
  <2> QED BY <1>2, <1>5, <2>1, <2>2
<1>6. CASE ReconcileElapsed(d)
  <2>1. Open(d) /\ (CanRedact(d) => RedactConnection(d))
    BY <1>6 DEF ReconcileElapsed, Elapsed
  <2>2. Close(d, "ambiguous") \/ Close(d, "not_sent")
    BY <1>6 DEF ReconcileElapsed
  <2> QED BY <1>2, <1>6, <2>1, <2>2
<1>7. ASSUME Disconnect(d), ~Prepare(d), ~AcquireDispatch(d), ~Settle(d), ~ReconcileElapsed(d)
      PROVE  attempt' = attempt
  BY <1>7 DEF Disconnect, ReadConnection, DispatchDenied, StartReads, StartCommits,
     SendRevoke, AnswerMissing, WindowCloses
<1>8. ASSUME NEW c \in Disconnects \ {d}, Disconnect(c) PROVE attempt'[d] = attempt[d]
  BY <1>8, DisconnectFrame
<1>9. ASSUME NEW r \in Refreshers, Refresh(r) PROVE attempt' = attempt
  BY <1>9, RefreshFrame
<1>10. ASSUME Rest PROVE attempt' = attempt
  BY <1>10, RestFrame
<1> QED BY <1>3, <1>4, <1>5, <1>6, <1>7, <1>8, <1>9, <1>10 DEF Next, Rest

LEMMA OneOpenStep ==
  ASSUME CredentialTypeOK, OneOpen, Next
  PROVE  OneOpen'
<1> SUFFICES ASSUME NEW c \in Disconnects, NEW d \in Disconnects, c # d,
                    attempt'[c].state \in {"active", "dispatching"},
                    attempt'[d].state \in {"active", "dispatching"}
             PROVE  FALSE
  BY DEF OneOpen, Open
<1>1. ASSUME NEW e \in Disconnects, attempt'[e].state \in {"active", "dispatching"}
      PROVE  Open(e) \/ Prepare(e)
  BY <1>1, AttemptMoves DEF AcquireDispatch, Open
<1>2. ASSUME NEW e \in Disconnects, NEW f \in Disconnects \ {e}, Prepare(e)
      PROVE  ~Open(f) /\ attempt'[f] = attempt[f]
  BY <1>2 DEF Prepare, CredentialTypeOK
<1>3. ASSUME NEW e \in Disconnects, NEW f \in Disconnects \ {e}, Prepare(e)
      PROVE  attempt'[f].state \notin {"active", "dispatching"}
  BY <1>2, <1>3 DEF Open
<1>4. Open(c) /\ Open(d)
  BY <1>1, <1>3
<1> QED BY <1>4 DEF OneOpen

LEMMA BehindStep ==
  ASSUME CredentialTypeOK, CredentialTypeOK', DispatchBehind, Next
  PROVE  DispatchBehind'
<1> SUFFICES ASSUME NEW d \in Disconnects, attempt'[d].state = "dispatching"
             PROVE  attempt'[d].life + 1 =< row'.life /\ attempt'[d].gen =< row'.gen
  BY DEF DispatchBehind
<1>1. /\ attempt[d].life \in Nat /\ attempt[d].gen \in Nat
      /\ row.life \in Nat /\ row.gen \in Nat /\ row'.life \in Nat /\ row'.gen \in Nat
  BY DEF CredentialTypeOK, RowType
<1>2. CASE attempt'[d] = attempt[d]
  <2>1. attempt[d].life + 1 =< row.life /\ attempt[d].gen =< row.gen
    BY <1>2 DEF DispatchBehind
  <2> QED BY <1>1, <1>2, <2>1, RowMoves DEF Later
<1>3. CASE AcquireDispatch(d) /\ attempt'[d] = [attempt[d] EXCEPT !.state = "dispatching"]
  <2>1. row' = Taken(d) /\ row.life = attempt[d].life /\ row.gen = attempt[d].gen
    BY <1>3 DEF AcquireDispatch, Taken, CanRedact, Versions
  <2>2. row'.life = row.life + 1 /\ row'.gen = row.gen
    BY <2>1, TakenRow DEF CredentialTypeOK
  <2>3. attempt'[d].life = attempt[d].life /\ attempt'[d].gen = attempt[d].gen
    BY <1>3 DEF CredentialTypeOK
  <2> QED BY <1>1, <2>1, <2>2, <2>3
<1> QED BY <1>2, <1>3, AttemptMoves

\* What an attempt may redact after a step it could redact before, and nobody
\* has touched it.
LEMMA RedactableStays ==
  ASSUME CredentialTypeOK, CredentialTypeOK', DispatchBehind, Next,
         NEW d \in Disconnects, attempt[d].state = "dispatching",
         attempt'[d] = attempt[d], CanRedact(d)'
  PROVE  row' = row /\ CanRedact(d)
<1>1. /\ attempt[d].life \in Nat /\ attempt[d].gen \in Nat
      /\ row.life \in Nat /\ row.gen \in Nat /\ row'.life \in Nat /\ row'.gen \in Nat
  BY DEF CredentialTypeOK, RowType
<1>2. /\ row'.status = "disconnecting"
      /\ row'.life = attempt[d].life + 1 /\ row'.gen = attempt[d].gen
  BY DEF CanRedact, Versions
<1>3. attempt[d].life + 1 =< row.life /\ attempt[d].gen =< row.gen
  BY DEF DispatchBehind
<1>4. row' = row
  BY <1>1, <1>2, <1>3, RowMoves DEF Later
<1> QED BY <1>2, <1>4 DEF CanRedact, Versions

\* What a disconnect holds is read from the row and kept while it is revoked.
LEMMA HeldMoves ==
  ASSUME CredentialTypeOK, Next, NEW d \in Disconnects
  PROVE  /\ held'[d] \in {held[d], row.token, Nothing}
         /\ pc'[d] = "revoked" =>
              /\ held'[d] = held[d]
              /\ \/ pc[d] = "revoked"
                 \/ IsLive(held[d]) /\ End(held[d]) /\ UNCHANGED row
<1> USE CredentialAssumption
<1>1. /\ pc \in [Refreshers \cup Disconnects -> RefreshPc \cup DisconnectPc]
      /\ held \in [Disconnects -> Tokens]
  BY DEF CredentialTypeOK
<1>2. \A label : Goto(d, label) => pc'[d] = label
  BY <1>1 DEF Goto
<1>3. Drop(d) => held'[d] = Nothing
  BY <1>1 DEF Drop
<1>4. CASE Disconnect(d)
  <2>1. CASE SendRevoke(d)
    <3>1. PICK outcome \in Answers(d) :
            Goto(d, outcome) /\ IF outcome = "revoked" THEN UNCHANGED held ELSE Drop(d)
      BY <2>1 DEF SendRevoke
    <3>2. outcome = "revoked" => IsLive(held[d])
      BY DEF Answers
    <3> QED BY <1>2, <1>3, <2>1, <3>1, <3>2 DEF SendRevoke
  <2>2. CASE Settle(d)
    BY <1>2, <1>3, <2>2 DEF Settle
  <2>3. CASE ReadConnection(d)
    BY <1>1, <1>2, <2>3 DEF ReadConnection
  <2>4. CASE ~SendRevoke(d) /\ ~Settle(d) /\ ~ReadConnection(d)
    <3>1. UNCHANGED held \/ Drop(d)
      BY <1>4, <2>4 DEF Disconnect, Prepare, AcquireDispatch, DispatchDenied, StartReads,
         StartCommits, AnswerMissing, WindowCloses, ReconcileElapsed
    <3>2. pc'[d] = "revoked" => UNCHANGED <<pc, held>>
      BY <1>2, <1>4, <2>4 DEF Disconnect, Prepare, AcquireDispatch, DispatchDenied,
         StartReads, StartCommits, AnswerMissing, WindowCloses, ReconcileElapsed
    <3> QED BY <1>3, <3>1, <3>2
  <2> QED BY <2>1, <2>2, <2>3, <2>4
<1>5. ASSUME NEW c \in Disconnects \ {d}, Disconnect(c)
      PROVE  held'[d] = held[d] /\ pc'[d] = pc[d]
  <2>1. pc'[d] = pc[d]
    BY <1>5, DisconnectFrame
  <2>2. held' = held \/ \E t : held' = [held EXCEPT ![c] = t]
    BY <1>5 DEF Disconnect, ReadConnection, Prepare, AcquireDispatch, DispatchDenied,
       StartReads, StartCommits, SendRevoke, AnswerMissing, Settle, WindowCloses,
       ReconcileElapsed, Drop
  <2> QED BY <1>1, <2>1, <2>2
<1>6. ASSUME NEW r \in Refreshers, Refresh(r) PROVE held'[d] = held[d] /\ pc'[d] = pc[d]
  <2>1. r # d
    OBVIOUS
  <2> QED BY <1>6, <2>1, RefreshFrame
<1>7. ASSUME Rest PROVE held'[d] = held[d] /\ pc'[d] = pc[d]
  BY <1>7, RestFrame
<1> QED BY <1>4, <1>5, <1>6, <1>7 DEF Next, Rest

LEMMA HeldStep ==
  ASSUME CredentialTypeOK, TokensIssued, OneLive, HeldHonest, Next
  PROVE  HeldHonest'
<1> USE CredentialAssumption
<1> SUFFICES ASSUME NEW d \in Disconnects
             PROVE  /\ held'[d] # Nothing => held'[d] \in 1..Len(google'.account)
                    /\ pc'[d] = "revoked" => held'[d] # Nothing
  BY DEF HeldHonest, Issued, Given
<1>1. ASSUME NEW t \in Given PROVE t \in 1..Len(google'.account)
  BY <1>1, GoogleMoves
<1>2. /\ held[d] # Nothing => held[d] \in Given
      /\ row.token # Nothing => row.token \in Given
  BY DEF HeldHonest, TokensIssued, Issued
<1>3. IsLive(held[d]) => held[d] # Nothing
  BY DEF IsLive, CredentialTypeOK
<1> QED BY <1>1, <1>2, <1>3, HeldMoves DEF HeldHonest

LEMMA RevokedStep ==
  ASSUME CredentialTypeOK, CredentialTypeOK', TokensIssued, HeldHonest, OneLive,
         DispatchBehind, RevokedDead, Next
  PROVE  RevokedDead'
<1> SUFFICES ASSUME NEW d \in Disconnects, pc'[d] = "revoked",
                    attempt'[d].state = "dispatching", CanRedact(d)',
                    google'.account[row'.token] = google'.account[held'[d]]
             PROVE  row'.token \notin google'.live
  BY DEF RevokedDead, IsLive, AccountOf
<1>1. held'[d] = held[d]
  BY HeldMoves
<1>2. CASE pc[d] = "revoked"
  <2>1. ~AcquireDispatch(d)
    BY <1>2 DEF AcquireDispatch
  <2>2. attempt'[d] = attempt[d]
    BY <2>1, AttemptMoves
  <2>3. row' = row /\ CanRedact(d)
    BY <2>2, RedactableStays
  <2>4. row.status = "disconnecting"
    BY <2>2, <2>3 DEF CanRedact
  <2>5. row.token \in Given /\ held[d] \in Given
    BY <1>2, <2>4 DEF TokensIssued, HeldHonest, Issued, CredentialTypeOK
  <2>6. AccountOf(row.token) = AccountOf(held[d])
    BY <1>1, <2>3, <2>5, GoogleMoves DEF AccountOf
  <2>7. ~IsLive(row.token)
    BY <1>2, <2>2, <2>3, <2>6 DEF RevokedDead
  <2> QED BY <2>3, <2>5, <2>7, GoogleMoves DEF IsLive
<1>3. CASE IsLive(held[d]) /\ End(held[d]) /\ UNCHANGED row
  <2>1. google'.account = google.account /\ google'.live = google.live \ {held[d]}
    BY <1>3 DEF End, CredentialTypeOK
  <2>2. SUFFICES ASSUME row.token \in google.live PROVE row.token = held[d]
    BY <1>3, <2>1, <2>2
  <2> QED BY <1>1, <1>3, <2>1, <2>2 DEF OneLive, AccountOf, IsLive
<1> QED BY <1>2, <1>3, HeldMoves

\* While a revoke holds the row, only the attempt itself or a local disconnect
\* that no open window keeps away writes it, and both redact it.
LEMMA HeldRowMoves ==
  ASSUME CredentialTypeOK, CeremonyHonest, Next,
         row.status = "disconnecting", row' # row
  PROVE  /\ row'.status = "disconnected"
         /\ \/ \E c \in Disconnects :
                  attempt[c].state = "dispatching" /\ attempt'[c].state # "dispatching"
            \/ window[row.window] # "open"
<1>1. ~Usable /\ row.use # "active"
  BY DEF Usable, CredentialTypeOK
<1>2. ASSUME NEW r \in Refreshers, Refresh(r) PROVE FALSE
  BY <1>1, <1>2
  DEF Refresh, LoadConnection, LoadLatest, Contend, Recheck, GoogleAnswers,
      RefreshFails, CommitTokens, RequireReauthorization, Leave, StillAsRead
<1>3. ASSUME NEW d \in Disconnects, Disconnect(d)
      PROVE  /\ row'.status = "disconnected"
             /\ attempt[d].state = "dispatching" /\ attempt'[d].state # "dispatching"
  <2>1. ~AcquireDispatch(d)
    BY <1>1 DEF AcquireDispatch, CanRedact
  <2>2. Settle(d) \/ ReconcileElapsed(d)
    BY <1>3, <2>1 DEF Disconnect, ReadConnection, Prepare, DispatchDenied, StartReads,
       StartCommits, SendRevoke, AnswerMissing, WindowCloses
  <2>3. CanRedact(d) /\ RedactConnection(d)
    BY <2>2 DEF Settle, ReconcileElapsed
  <2>4. attempt[d].state = "dispatching"
    BY <1>1, <2>3 DEF CanRedact
  <2>5. \E outcome \in {"not_sent", "revoked", "ambiguous"} : Close(d, outcome)
    BY <2>2, <2>3, <2>4 DEF Settle, ReconcileElapsed
  <2>6. attempt'[d].state # "dispatching"
    BY <2>5 DEF Close, CredentialTypeOK
  <2> QED BY <2>3, <2>4, <2>6 DEF RedactConnection, Redacted
<1>4. ASSUME Rest PROVE row'.status = "disconnected" /\ window[row.window] # "open"
  <2>1. ~FenceForDeparture
    BY <1>1 DEF FenceForDeparture
  <2>2. ~ReconnectGoogleAccount
    BY DEF ReconnectGoogleAccount, CeremonyHonest, Pending, Precedes
  <2>3. LocalDisconnect
    BY <1>4, <2>1, <2>2
    DEF Rest, Ceremony, BeginCeremony, ExchangeCode, EndCeremony, ClaimPreservedResult,
        ReleaseClaim, LeaseLapses, UserRevokes
  <2> QED BY <2>3 DEF LocalDisconnect, InFlight, Redacted
<1> QED BY <1>2, <1>3, <1>4 DEF Next, Rest

LEMMA OwnsStep ==
  ASSUME CredentialTypeOK, CredentialTypeOK', CeremonyHonest, OneOpen, RevokeOwnsItsRow, Next
  PROVE  RevokeOwnsItsRow'
<1> USE CredentialAssumption
<1>1. ASSUME NEW d \in Disconnects, attempt'[d].state = "dispatching", window'[d] = "open"
      PROVE  row'.window = d
  <2>1. CASE AcquireDispatch(d)
    BY <2>1, TakenRow DEF AcquireDispatch, Taken, CredentialTypeOK
  <2>2. CASE ~AcquireDispatch(d)
    <3>1. attempt'[d] = attempt[d] /\ ~Prepare(d)
      <4>1. attempt'[d] = attempt[d]
        BY <1>1, <2>2, AttemptMoves
      <4>2. ~Prepare(d)
        BY <1>1 DEF Prepare, CredentialTypeOK
      <4> QED BY <4>1, <4>2
    <3>2. window[d] = "open"
      <4>1. ASSUME Disconnect(d) PROVE window[d] = "open"
        BY <1>1, <3>1, <4>1
        DEF Disconnect, ReadConnection, AcquireDispatch, DispatchDenied, StartReads,
            StartCommits, SendRevoke, AnswerMissing, Settle, WindowCloses, ReconcileElapsed
      <4>2. ASSUME NEW c \in Disconnects \ {d}, Disconnect(c) PROVE window[d] = "open"
        BY <1>1, <4>2, DisconnectFrame
      <4>3. ASSUME NEW r \in Refreshers, Refresh(r) PROVE window[d] = "open"
        BY <1>1, <4>3, RefreshFrame
      <4>4. ASSUME Rest PROVE window[d] = "open"
        BY <1>1, <4>4, RestFrame
      <4> QED BY <4>1, <4>2, <4>3, <4>4 DEF Next, Rest
    <3>3. row.window = d /\ row.status = "disconnecting"
      BY <1>1, <3>1, <3>2 DEF RevokeOwnsItsRow, CredentialTypeOK
    <3>4. ASSUME NEW c \in Disconnects,
                 attempt[c].state = "dispatching", attempt'[c].state # "dispatching"
          PROVE  FALSE
      BY <1>1, <3>1, <3>4 DEF OneOpen, Open
    <3>5. row' = row
      BY <3>2, <3>3, <3>4, HeldRowMoves
    <3> QED BY <3>3, <3>5
  <2> QED BY <2>1, <2>2
<1>2. ASSUME NEW w \in Disconnects, row'.window = w, row'.status = "disconnecting"
      PROVE  /\ attempt'[w].state = "dispatching"
             /\ row'.life = attempt'[w].life + 1 /\ row'.gen = attempt'[w].gen
  <2>1. CASE row' = row
    <3>1. attempt[w].state = "dispatching" /\ CanRedact(w)
      BY <1>2, <2>1 DEF RevokeOwnsItsRow
    <3>2. ~Prepare(w) /\ ~AcquireDispatch(w)
      BY <1>2, <2>1, <3>1 DEF Prepare, AcquireDispatch, Usable
    <3>3. ~RedactConnection(w)
      BY <1>2 DEF RedactConnection, Redacted
    <3>4. attempt'[w] = attempt[w]
      BY <3>1, <3>2, <3>3, AttemptMoves
    <3> QED BY <2>1, <3>1, <3>4 DEF CanRedact, Versions
  <2>2. CASE row' # row
    <3>1. row.status # "disconnecting"
      BY <1>2, <2>2, HeldRowMoves
    <3>2. \E d \in Disconnects : AcquireDispatch(d)
      <4>1. ASSUME NEW r \in Refreshers, Refresh(r) PROVE FALSE
        <5>1. CASE CommitTokens(r)
          <6>1. row' = Renewed(snap[r].token) /\ snap[r].token \in Tokens
            BY <2>2, <5>1 DEF CommitTokens, Renewed, CredentialTypeOK, SeenType
          <6> QED BY <1>2, <3>1, <6>1, RenewedRow DEF CredentialTypeOK
        <5>2. CASE RequireReauthorization(r)
          BY <1>2, <2>2, <5>2, FencedRow DEF RequireReauthorization, Fenced, CredentialTypeOK
        <5>3. CASE ~CommitTokens(r) /\ ~RequireReauthorization(r)
          BY <2>2, <4>1, <5>3 DEF Refresh, LoadConnection, LoadLatest, Contend, Recheck,
             GoogleAnswers, RefreshFails, Leave
        <5> QED BY <5>1, <5>2, <5>3
      <4>2. ASSUME NEW d \in Disconnects, Disconnect(d) PROVE AcquireDispatch(d)
        BY <1>2, <2>2, <4>2
        DEF Disconnect, ReadConnection, Prepare, DispatchDenied, StartReads, StartCommits,
            SendRevoke, AnswerMissing, Settle, WindowCloses, ReconcileElapsed,
            RedactConnection, Redacted
      <4>3. ASSUME Rest PROVE FALSE
        <5>1. ~FenceForDeparture
          BY <1>2, FencedRow DEF FenceForDeparture, Fenced, CredentialTypeOK
        <5> QED BY <1>2, <2>2, <4>3, <5>1
                DEF Rest, LocalDisconnect, Redacted, Ceremony, BeginCeremony, ExchangeCode,
                    EndCeremony, ClaimPreservedResult, ReconnectGoogleAccount,
                    ReleaseClaim, LeaseLapses, UserRevokes
      <4> QED BY <4>1, <4>2, <4>3 DEF Next, Rest
    <3>3. PICK d \in Disconnects : AcquireDispatch(d)
      BY <3>2
    <3>4. row' = Taken(d) /\ Versions(row) = Versions(attempt[d])
          /\ attempt' = [attempt EXCEPT ![d].state = "dispatching"]
      BY <3>3 DEF AcquireDispatch, Taken, CanRedact
    <3>5. w = d /\ row'.life = row.life + 1 /\ row'.gen = row.gen
      BY <1>2, <3>4, TakenRow DEF CredentialTypeOK
    <3>6. /\ attempt'[d].state = "dispatching"
          /\ attempt'[d].life = attempt[d].life /\ attempt'[d].gen = attempt[d].gen
      BY <3>4 DEF CredentialTypeOK
    <3> QED BY <3>4, <3>5, <3>6 DEF Versions
  <2> QED BY <2>1, <2>2
<1>3. row'.status = "disconnecting" => row'.window \in Disconnects
  BY DEF CredentialTypeOK, RowType, Windows
<1> QED BY <1>1, <1>2, <1>3 DEF RevokeOwnsItsRow, CanRedact, Versions

-----------------------------------------------------------------------------
(* The invariant and the theorems. *)

LEMMA InitIInv ==
  ASSUME Init
  PROVE  IInv
<1> USE CredentialAssumption DEF Init
<1>1. Unread \in SeenType
  BY DEF Unread, SeenType, Statuses, Tokens
<1>2. row \in RowType
  BY DEF RowType, Statuses, Uses, Windows, Tokens
<1>3. CredentialTypeOK
  <2>1. /\ pc \in [Refreshers \cup Disconnects -> RefreshPc \cup DisconnectPc]
        /\ held \in [Disconnects -> Tokens]
    BY DEF RefreshPc, DisconnectPc, Tokens
  <2>2. google \in [account : Seq(Accounts), live : SUBSET Nat]
        /\ snap \in [Refreshers -> SeenType]
    BY <1>1
  <2>3. lapses \in 0..MaxLapses
    OBVIOUS
  <2> QED BY <1>1, <1>2, <2>1, <2>2, <2>3 DEF CredentialTypeOK, Tokens
<1>4. SnapHonest /\ FenceDead /\ OwnerInside /\ LeaderIsCurrent
  BY DEF SnapHonest, FenceDead, OwnerInside, LeaderIsCurrent, Working, Leading
<1>5. CeremonyHonest /\ TokensIssued /\ HeldHonest /\ OneLive
  BY DEF CeremonyHonest, Pending, TokensIssued, HeldHonest, OneLive, Issued, Given,
         Answered, AccountOf
<1>6. OneOpen /\ DispatchBehind /\ RevokedDead /\ RevokeOwnsItsRow
  BY DEF OneOpen, Open, DispatchBehind, RevokedDead, RevokeOwnsItsRow
<1> QED BY <1>3, <1>4, <1>5, <1>6 DEF IInv

LEMMA StepIInv ==
  ASSUME IInv, [Next]_vars
  PROVE  IInv'
<1>1. CASE Next
  <2> USE <1>1
  <2>1. CredentialTypeOK'
    BY RefreshTypes, DisconnectTypes, RestTypes DEF IInv, Next, Rest
  <2>2. SnapHonest' /\ FenceDead' /\ OwnerInside' /\ LeaderIsCurrent'
    BY <2>1, SnapStep, FenceStep, OwnerStep, LeaderStep DEF IInv
  <2>3. CeremonyHonest' /\ TokensIssued' /\ HeldHonest' /\ OneLive'
    BY <2>1, CeremonyStep, OneLiveStep, TokensStep, HeldStep DEF IInv
  <2>4. OneOpen' /\ DispatchBehind' /\ RevokedDead' /\ RevokeOwnsItsRow'
    BY <2>1, OneOpenStep, BehindStep, RevokedStep, OwnsStep DEF IInv
  <2> QED BY <2>1, <2>2, <2>3, <2>4 DEF IInv
<1>2. CASE UNCHANGED vars
  <2> USE <1>2 DEF vars
  <2>1. CredentialTypeOK'
    BY DEF IInv, CredentialTypeOK
  <2>2. SnapHonest' /\ FenceDead' /\ OwnerInside' /\ LeaderIsCurrent'
    BY DEF IInv, SnapHonest, FenceDead, OwnerInside, LeaderIsCurrent, Issued, Given,
           Precedes, Versions, IsLive
  <2>3. CeremonyHonest' /\ TokensIssued' /\ HeldHonest' /\ OneLive'
    BY DEF IInv, CeremonyHonest, TokensIssued, HeldHonest, OneLive, Issued, Given,
           Precedes, Versions, AccountOf
  <2>4. OneOpen' /\ DispatchBehind' /\ RevokedDead' /\ RevokeOwnsItsRow'
    BY DEF IInv, OneOpen, Open, DispatchBehind, RevokedDead, RevokeOwnsItsRow, CanRedact,
           Usable, Versions, IsLive, AccountOf
  <2> QED BY <2>1, <2>2, <2>3, <2>4 DEF IInv
<1> QED BY <1>1, <1>2

LEMMA Invariance == Spec => []IInv
  BY InitIInv, StepIInv, PTL DEF Spec

\* Whatever refresh, disconnect, ceremony and departure do to the connection of
\* google-oauth.adapter.ts and its stores, use, tokens and windows go with the
\* status of the row.
THEOREM CredentialTyped == Spec => []CredentialTypeOK
<1>1. IInv => CredentialTypeOK
  BY DEF IInv
<1> QED BY <1>1, Invariance, PTL

\* Without a lapsed lease no two refreshes start from the same generation: the
\* second look of the winner is enough.
THEOREM NobodyAsksTwice == Spec => []LeaderIsCurrent
<1>1. IInv => LeaderIsCurrent
  BY DEF IInv
<1> QED BY <1>1, Invariance, PTL

\* A governed revoke and the row it holds stay together until one transaction
\* closes the attempt and redacts the row.
THEOREM RevokeKeepsItsRow == Spec => []RevokeOwnsItsRow
<1>1. IInv => RevokeOwnsItsRow
  BY DEF IInv
<1> QED BY <1>1, Invariance, PTL

\* An answer that comes late writes over the token it was asked for or not at
\* all, and only a refused one asks for a reauthorization.
THEOREM LateAnswersLand == Spec => AnswersLandOnTheirToken
<1> USE CredentialAssumption
<1>1. ASSUME IInv, Next, NEW r \in Refreshers, pc[r] \in {"commit", "fence"},
             pc'[r] # pc[r], row' # row
      PROVE  /\ Usable /\ row.token = snap[r].token
             /\ pc[r] = "fence" => ~IsLive(row.token)
  <2>1. Refresh(r)
    <3>1. ASSUME NEW q \in Refreshers \ {r}, Refresh(q) PROVE FALSE
      BY <1>1, <3>1, RefreshFrame DEF IInv
    <3>2. ASSUME NEW d \in Disconnects, Disconnect(d) PROVE FALSE
      <4>1. r # d
        OBVIOUS
      <4> QED BY <1>1, <3>2, <4>1, DisconnectFrame DEF IInv
    <3>3. ASSUME Rest PROVE FALSE
      BY <1>1, <3>3, RestFrame
    <3> QED BY <1>1, <3>1, <3>2, <3>3 DEF Next, Rest
  <2>2. CommitTokens(r) \/ RequireReauthorization(r)
    BY <1>1, <2>1 DEF Refresh, LoadConnection, LoadLatest, Contend, Recheck, GoogleAnswers,
       RefreshFails, Leave
  <2>3. row.use = "active" /\ Versions(row) = Versions(snap[r])
    BY <1>1, <2>2 DEF CommitTokens, RequireReauthorization, StillAsRead
  <2>4. snap[r].status = "active" /\ Precedes(snap[r])
    BY <1>1 DEF IInv, SnapHonest, Working
  <2>5. row.status = "active" /\ row.token = snap[r].token
    BY <2>3, <2>4 DEF Precedes
  <2>6. pc[r] = "fence" => ~IsLive(snap[r].token)
    BY <1>1 DEF IInv, FenceDead
  <2> QED BY <2>3, <2>5, <2>6 DEF Usable
<1>2. IInv /\ [Next]_vars =>
        [\A r \in Refreshers :
           pc[r] \in {"commit", "fence"} /\ pc'[r] # pc[r] /\ row' # row
             => /\ Usable /\ row.token = snap[r].token
                /\ pc[r] = "fence" => ~IsLive(row.token)]_vars
  BY <1>1 DEF vars
<1> QED BY <1>2, Invariance, PTL DEF Spec, AnswersLandOnTheirToken

\* The three versions are enough to tell: a ceremony that finds them again finds
\* the row it was approved for.
THEOREM CeremonyLands == Spec => LandsOnWhatItSaw
<1>1. ASSUME IInv, Next, ceremony'.state = "completed", ceremony.state # "completed"
      PROVE  Seen = ceremony.seen
  <2>1. ReconnectGoogleAccount
    <3>1. ASSUME NEW r \in Refreshers, Refresh(r) PROVE FALSE
      BY <1>1, <3>1, RefreshFrame DEF IInv
    <3>2. ASSUME NEW d \in Disconnects, Disconnect(d) PROVE FALSE
      BY <1>1, <3>2, DisconnectFrame DEF IInv
    <3>3. ASSUME Rest PROVE ReconnectGoogleAccount
      <4>1. ceremony \in [state : {"none", "provider_started", "response_preserved",
                                  "applying", "completed", "ended"},
                         seen : SeenType, token : Tokens]
        BY <1>1 DEF IInv, CredentialTypeOK
      <4>2. ~BeginCeremony /\ ~ClaimPreservedResult
        BY <1>1, <4>1 DEF BeginCeremony, ClaimPreservedResult
      <4>3. ~ExchangeCode
        BY <1>1, <4>1 DEF ExchangeCode, Preserve
      <4>4. ~EndCeremony /\ ~ReleaseClaim
        BY <1>1, <4>1 DEF EndCeremony, ReleaseClaim, Ended
      <4>5. ~LocalDisconnect /\ ~LeaseLapses /\ ~FenceForDeparture /\ ~UserRevokes
        BY <1>1 DEF LocalDisconnect, LeaseLapses, FenceForDeparture, UserRevokes
      <4> QED BY <3>3, <4>2, <4>3, <4>4, <4>5 DEF Rest, Ceremony
    <3> QED BY <1>1, <3>1, <3>2, <3>3 DEF Next, Rest
  <2>2. Precedes(ceremony.seen) /\ Versions(row) = Versions(ceremony.seen)
    BY <1>1, <2>1 DEF ReconnectGoogleAccount, IInv, CeremonyHonest, Pending
  <2>3. ceremony.seen \in SeenType
    BY <1>1 DEF IInv, CredentialTypeOK
  <2> QED BY <2>2, <2>3 DEF Precedes, Versions, Seen, SeenType
<1>2. IInv /\ [Next]_vars =>
        [ceremony'.state = "completed" /\ ceremony.state # "completed"
           => Seen = ceremony.seen]_vars
  BY <1>1 DEF vars
<1> QED BY <1>2, Invariance, PTL DEF Spec, LandsOnWhatItSaw

\* A disconnect is recorded as revoked only over a token that is dead at Google,
\* however late it is settled, unless the row has taken another account's since.
THEOREM RevokeEndedItsAccount == Spec => RevokedEndsItsAccount
<1>1. ASSUME IInv, Next, NEW d \in Disconnects,
             attempt'[d].state = "revoked", attempt[d].state # "revoked",
             AccountOf(row.token) = AccountOf(held[d])
      PROVE  ~IsLive(row.token)
  <2>1. Settle(d) \/ ReconcileElapsed(d)
    BY <1>1, AttemptMoves DEF IInv, CredentialTypeOK
  <2>2. \A outcome : Close(d, outcome) => attempt'[d].state = outcome
    BY <1>1 DEF Close, IInv, CredentialTypeOK
  <2>3. ~ReconcileElapsed(d)
    BY <1>1, <2>2 DEF ReconcileElapsed
  <2>4. Settle(d) /\ CanRedact(d) /\ Close(d, pc[d])
    BY <1>1, <2>1, <2>3 DEF Settle
  <2>5. pc[d] = "revoked"
    BY <1>1, <2>2, <2>4
  <2>6. attempt[d].state = "dispatching"
    BY <1>1, <2>4, <2>5 DEF Settle
  <2> QED BY <1>1, <2>4, <2>5, <2>6 DEF IInv, RevokedDead
<1>2. IInv /\ [Next]_vars =>
        [\A d \in Disconnects :
           /\ attempt'[d].state = "revoked" /\ attempt[d].state # "revoked"
           /\ AccountOf(row.token) = AccountOf(held[d])
           => ~IsLive(row.token)]_vars
  BY <1>1 DEF vars
<1> QED BY <1>2, Invariance, PTL DEF Spec, RevokedEndsItsAccount
=============================================================================
