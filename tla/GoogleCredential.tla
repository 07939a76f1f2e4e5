--------------------------- MODULE GoogleCredential ---------------------------
(***************************************************************************)
(* The credential of one Google connection and the four that change it: a  *)
(* single-flight refresh, a disconnect that revokes under a permit, an     *)
(* OAuth ceremony that reconnects, and the departure of the connector.     *)
(* Each reads the row, talks to Redis or Google without holding anything,  *)
(* and writes under a guard on the row's versions.                         *)
(*                                                                         *)
(* access_version moves only with lifecycle_version or with the            *)
(* generation, so the pair <<life, gen>> stands for the three versions.    *)
(***************************************************************************)
EXTENDS Integers, FiniteSets, Sequences

CONSTANTS
  Refreshers,   \* calls of refreshGoogleToken
  Disconnects,  \* disconnect requests, each with its attempt id
  Accounts,     \* Google accounts (subjects) a user may give a grant of
  Nothing,      \* a redacted token, no owner, no deadline
  MaxLapses     \* bound: refresh leases that lapse under their owner

ASSUME CredentialAssumption ==
  /\ MaxLapses \in Nat
  /\ Nothing \notin Nat \cup Refreshers \cup Disconnects
  /\ Refreshers \cap Disconnects = {}

VARIABLES
  row,       \* google_connections; tokens are the number of their grant
  google,    \* the account of each grant given to this client, and the live ones
  lease,     \* the owner of the refresh lock in Redis
  lapses,    \* how often that lock expired under its owner
  pc,        \* where a refresh or a disconnect request stands
  snap,      \* the row a refresh read first
  held,      \* the refresh token a disconnect read first
  attempt,   \* google_disconnect_revoke receipts
  permit,    \* the permit of its revoke
  window,    \* its cleanup window
  ceremony   \* the google_oauth_exchange receipt

vars == <<row, google, lease, lapses, pc, snap, held, attempt, permit, window,
          ceremony>>

refreshVars    == <<lease, lapses>>
disconnectVars == <<attempt, permit, window, held>>

-----------------------------------------------------------------------------
Usable == row.status = "active" /\ row.use = "active"

Seen == [status |-> row.status, life |-> row.life, gen |-> row.gen, token |-> row.token]

Versions(s) == <<s.life, s.gen>>

Goto(p, label) == pc' = [pc EXCEPT ![p] = label]

Unread == [status |-> "active", life |-> 0, gen |-> 0, token |-> Nothing]

\* A call that ends holds nothing; only the owner has a lock to delete.
Stop(r) ==
  /\ Goto(r, IF lease = r THEN "leave" ELSE "done")
  /\ snap' = [snap EXCEPT ![r] = Unread]

Go(r, label) == IF label = "leave" THEN Stop(r) ELSE Goto(r, label) /\ UNCHANGED snap

IsLive(token) == token \in google.live

AccountOf(token) == google.account[token]

\* Revoking any token of a grant ends the grant.
End(token) == google' = [google EXCEPT !.live = @ \ {token}]

-----------------------------------------------------------------------------
(* Refresh. *)

\* A call that finds the connection usable, and so does its first look.
LoadConnection(r) ==
  /\ pc[r] = "idle" /\ Usable
  /\ snap' = [snap EXCEPT ![r] = Seen]
  /\ Goto(r, "contend")
  /\ UNCHANGED <<row, google, refreshVars, disconnectVars, ceremony>>

\* Another replica's refresh is returned, a connection that changed is refused.
Superseded(r) == ~Usable \/ row.gen # snap[r].gen

LoadLatest(r) ==
  /\ pc[r] = "wait"
  /\ Go(r, IF Superseded(r) THEN "leave" ELSE "contend")
  /\ UNCHANGED <<row, google, refreshVars, disconnectVars, ceremony>>

\* SET NX; the loser sleeps and looks again until its deadline.
Contend(r) ==
  /\ pc[r] = "contend"
  /\ \/ /\ lease = Nothing /\ lease' = r /\ Go(r, "leader")
     \/ /\ lease # Nothing /\ UNCHANGED lease
        /\ \E label \in {"wait", "leave"} : Go(r, label)
  /\ UNCHANGED <<row, google, lapses, disconnectVars, ceremony>>

\* Deviation of the next definition: the winner trusts what it read before.
TrustFirstLook(r) ==
  /\ pc[r] = "leader" /\ Goto(r, "asked")
  /\ UNCHANGED <<row, google, snap, refreshVars, disconnectVars, ceremony>>

\* The winner looks once more: the previous owner may just have committed.
Recheck(r) ==
  /\ pc[r] = "leader"
  /\ Go(r, IF Superseded(r) THEN "leave" ELSE "asked")
  /\ UNCHANGED <<row, google, refreshVars, disconnectVars, ceremony>>

\* Google refuses a token of a dead grant for good.  Leadership is proved again
\* before anything is written.
GoogleAnswers(r) ==
  /\ pc[r] = "asked"
  /\ Go(r, IF lease # r THEN "leave"
           ELSE IF IsLive(snap[r].token) THEN "commit" ELSE "fence")
  /\ UNCHANGED <<row, google, refreshVars, disconnectVars, ceremony>>

\* The backoff, the authorization or the permit refuses the call, or the call
\* fails or stays without an answer.
RefreshFails(r) ==
  /\ pc[r] \in {"leader", "asked"} /\ Stop(r)
  /\ UNCHANGED <<row, google, refreshVars, disconnectVars, ceremony>>

\* Deviation of the next definition: any active credential may be written.
StillActive(r) == row.use = "active"

\* The guard of both writes: the row as this refresh read it.
StillAsRead(r) ==
  row.use = "active" /\ Versions(row) = Versions(snap[r])

\* updateTokens writes the refresh token it started from back with the new
\* access token.
CommitTokens(r) ==
  /\ pc[r] = "commit" /\ Stop(r)
  /\ row' = IF StillAsRead(r)
            THEN [row EXCEPT !.token = snap[r].token, !.gen = @ + 1] ELSE row
  /\ UNCHANGED <<google, refreshVars, disconnectVars, ceremony>>

RequireReauthorization(r) ==
  /\ pc[r] = "fence" /\ Stop(r)
  /\ row' = IF row.status = "active" /\ StillAsRead(r)
            THEN [row EXCEPT !.status = "reauth_required", !.life = @ + 1] ELSE row
  /\ UNCHANGED <<google, refreshVars, disconnectVars, ceremony>>

\* Only the owner deletes the lock.
Leave(r) ==
  /\ pc[r] = "leave" /\ Goto(r, "done")
  /\ lease' = IF lease = r THEN Nothing ELSE lease
  /\ UNCHANGED <<row, google, snap, lapses, disconnectVars, ceremony>>

\* The owner stops renewing: it stalls, dies or loses Redis.
LeaseLapses ==
  /\ lease # Nothing /\ lapses < MaxLapses
  /\ lease' = Nothing /\ lapses' = lapses + 1
  /\ UNCHANGED <<row, google, pc, snap, disconnectVars, ceremony>>

-----------------------------------------------------------------------------
(* Disconnect. *)

Open(d) == attempt[d].state \in {"active", "dispatching"}

\* Deviation of the next definition: the token stays.
RedactedInName(life, gen) ==
  [status |-> "disconnected", use |-> "none", life |-> life, gen |-> gen,
   token |-> row.token, window |-> Nothing]

Redacted(life, gen) ==
  [status |-> "disconnected", use |-> "none", life |-> life, gen |-> gen,
   token |-> Nothing, window |-> Nothing]

\* The row is redacted to the attempt's own versions plus one if it is still
\* the row the attempt was made for, or the one its dispatch made of it.
CanRedact(d) ==
  LET a == attempt[d]
  IN IF a.state = "dispatching"
     THEN row.status = "disconnecting" /\ Versions(row) = <<a.life + 1, a.gen>>
     ELSE Usable /\ Versions(row) = Versions(a)

RedactConnection(d) ==
  row' = Redacted(attempt[d].life + 1, attempt[d].gen + 1)

Close(d, outcome) ==
  /\ attempt' = [attempt EXCEPT ![d] = [state |-> outcome, life |-> 0, gen |-> 0]]
  /\ permit' = [permit EXCEPT ![d] = "none"]

\* The token is kept until the request ends or its outcome says nothing of it.
Drop(d) == held' = [held EXCEPT ![d] = Nothing]

ReadConnection(d) ==
  /\ pc[d] = "idle" /\ row.status # "disconnected"
  /\ Goto(d, "authorize") /\ held' = [held EXCEPT ![d] = row.token]
  /\ UNCHANGED <<row, google, snap, refreshVars, attempt, permit, window, ceremony>>

\* The authorization reads the versions afresh, the token is the one read
\* first.  One attempt may be open; a row that moved between authorization and
\* attempt is refused like any other.
Prepare(d) ==
  /\ pc[d] = "authorize" /\ Usable
  /\ \A other \in Disconnects \ {d} : ~Open(other)
  /\ attempt' = [attempt EXCEPT ![d] =
       [state |-> "active", life |-> row.life, gen |-> row.gen]]
  /\ window' = [window EXCEPT ![d] = "open"]
  /\ Goto(d, "acquire")
  /\ UNCHANGED <<row, google, snap, held, refreshVars, permit, ceremony>>

\* A permit is admitted and bound to the attempt; the row turns cleanup_only.
AcquireDispatch(d) ==
  /\ pc[d] = "acquire" /\ window[d] = "open"
  /\ attempt[d].state = "active" /\ CanRedact(d)
  /\ row' = [row EXCEPT !.status = "disconnecting", !.use = "cleanup_only",
                        !.life = @ + 1, !.window = d]
  /\ attempt' = [attempt EXCEPT ![d].state = "dispatching"]
  /\ permit' = [permit EXCEPT ![d] = "admitted"]
  /\ Goto(d, "start")
  /\ UNCHANGED <<google, snap, held, refreshVars, window, ceremony>>

\* Any refusal before the gateway is asked proves that nothing was sent.
DispatchDenied(d) ==
  /\ pc[d] = "acquire" /\ Goto(d, "not_sent") /\ Drop(d)
  /\ UNCHANGED <<row, google, snap, refreshVars, attempt, permit, window, ceremony>>

MayStart(d) ==
  /\ attempt[d].state = "dispatching" /\ window[d] = "open"
  /\ row.status = "disconnecting" /\ row.window = d
  /\ Versions(row) = <<attempt[d].life + 1, attempt[d].gen>>

\* The start reads receipt and connection without a lock, and commits later.
StartReads(d) ==
  /\ pc[d] = "start"
  /\ IF MayStart(d) THEN Goto(d, "started") /\ UNCHANGED <<permit, held>>
     ELSE Goto(d, "not_sent") /\ Drop(d) /\ permit' = [permit EXCEPT ![d] = "fenced"]
  /\ UNCHANGED <<row, google, snap, refreshVars, attempt, window, ceremony>>

StartCommits(d) ==
  /\ pc[d] = "started" /\ Goto(d, "send")
  /\ permit' = [permit EXCEPT ![d] = "started"]
  /\ UNCHANGED <<row, google, snap, held, refreshVars, attempt, window, ceremony>>

\* Deviation of the next definition: an answer that the token is not valid
\* counts as revoked.
AnyAnswerRevokes(d) == {"revoked", "ambiguous"}

\* What the caller makes of the request: Google answers 2xx only if it revoked
\* something, and any answer may be lost.
Answers(d) == IF IsLive(held[d]) THEN {"revoked", "ambiguous"} ELSE {"ambiguous"}

SendRevoke(d) ==
  /\ pc[d] = "send"
  /\ \E outcome \in Answers(d) :
       Goto(d, outcome) /\ IF outcome = "revoked" THEN UNCHANGED held ELSE Drop(d)
  /\ End(held[d])
  /\ UNCHANGED <<row, snap, refreshVars, attempt, permit, window, ceremony>>

\* The request was never made or never arrived, and nobody can tell.
AnswerMissing(d) ==
  /\ pc[d] \in {"start", "started", "send"} /\ Goto(d, "ambiguous") /\ Drop(d)
  /\ UNCHANGED <<row, google, snap, refreshVars, attempt, permit, window, ceremony>>

\* Attempt, redaction and fact commit together or not at all; what cannot be
\* settled is left to recovery, or was settled by it.
Settle(d) ==
  /\ pc[d] \in {"not_sent", "revoked", "ambiguous"} /\ Goto(d, "done") /\ Drop(d)
  /\ IF attempt[d].state = "dispatching" \/ (attempt[d].state = "active" /\ pc[d] = "not_sent")
     THEN IF CanRedact(d) THEN RedactConnection(d) /\ Close(d, pc[d])
          ELSE UNCHANGED <<row, attempt, permit>>
     ELSE UNCHANGED <<row, attempt, permit>>
  /\ UNCHANGED <<google, snap, refreshVars, window, ceremony>>

\* A governed disconnect keeps others away while its window is open.
InFlight == row.status = "disconnecting" /\ window[row.window] = "open"

\* Deviation of the next definition: it does not wait for a governed revoke.
DisconnectOverRevoke ==
  /\ row.status # "disconnected"
  /\ row' = Redacted(row.life + 1, row.gen + 1)
  /\ UNCHANGED <<google, pc, snap, refreshVars, disconnectVars, ceremony>>

\* A request that gets no authorization or no attempt, whatever it read.
LocalDisconnect ==
  /\ row.status # "disconnected" /\ ~InFlight
  /\ row' = Redacted(row.life + 1, row.gen + 1)
  /\ UNCHANGED <<google, pc, snap, refreshVars, disconnectVars, ceremony>>

\* Nothing reads the window of an attempt that is closed.
WindowCloses(d) ==
  /\ window[d] = "open" /\ Open(d)
  /\ window' = [window EXCEPT ![d] = "closed"]
  /\ UNCHANGED <<row, google, pc, snap, held, refreshVars, attempt, permit, ceremony>>

Elapsed(d) == Open(d) /\ window[d] = "closed"

\* The five-minute sweep.  A permit that did not start proves not-sent.
ReconcileElapsed(d) ==
  /\ Elapsed(d)
  /\ Close(d, IF attempt[d].state = "dispatching" /\ permit[d] = "started"
              THEN "ambiguous" ELSE "not_sent")
  /\ IF CanRedact(d) THEN RedactConnection(d) ELSE UNCHANGED row
  /\ UNCHANGED <<google, pc, snap, held, refreshVars, window, ceremony>>

-----------------------------------------------------------------------------
(* The OAuth ceremony of a reconnect. *)

\* The target is read, the attempt begun and the exchange authorized for a row
\* that no revoke holds; if it moves in between, no commit will take it.
BeginCeremony ==
  /\ ceremony.state = "none" /\ row.status # "disconnecting"
  /\ ceremony' = [ceremony EXCEPT !.state = "provider_started", !.seen = Seen]
  /\ UNCHANGED <<row, google, pc, snap, refreshVars, disconnectVars>>

Preserve(token) ==
  ceremony' = [ceremony EXCEPT !.state = "response_preserved", !.token = token]

\* Consent with whichever account the user picks: it renews the live grant of
\* that account or gives it a new one; the answer is preserved.
ExchangeCode ==
  /\ ceremony.state = "provider_started"
  /\ \/ \E token \in google.live : Preserve(token) /\ UNCHANGED google
     \/ \E account \in Accounts :
          /\ \A token \in google.live : AccountOf(token) # account
          /\ google' = [account |-> Append(google.account, account),
                        live |-> google.live \cup {Len(google.account) + 1}]
          /\ Preserve(Len(google.account) + 1)
  /\ UNCHANGED <<row, pc, snap, refreshVars, disconnectVars>>

Ended(state) == [state |-> state, seen |-> Unread, token |-> Nothing]

\* An exchange without a preserved answer, or a response past its hour.
EndCeremony ==
  /\ ceremony.state \in {"provider_started", "response_preserved", "applying"}
  /\ ceremony' = Ended("ended")
  /\ UNCHANGED <<row, google, pc, snap, refreshVars, disconnectVars>>

\* A claim names no owner: one that is taken over looks as it did before.
ClaimPreservedResult ==
  /\ ceremony.state = "response_preserved"
  /\ ceremony' = [ceremony EXCEPT !.state = "applying"]
  /\ UNCHANGED <<row, google, pc, snap, refreshVars, disconnectVars>>

\* The account must be the row's own; a redacted row names none.
IdentityFits ==
  row.token # Nothing => AccountOf(row.token) = AccountOf(ceremony.token)

\* Deviation of the next definition: only the lifecycle is compared.
ReconnectOverRefresh ==
  /\ ceremony.state = "applying" /\ row.life = ceremony.seen.life /\ IdentityFits
  /\ row' = [status |-> "active", use |-> "active", life |-> row.life + 1,
             gen |-> row.gen + 1, token |-> ceremony.token, window |-> Nothing]
  /\ ceremony' = Ended("completed")
  /\ UNCHANGED <<google, pc, snap, refreshVars, disconnectVars>>

\* Row, receipt and fact commit together.
ReconnectGoogleAccount ==
  /\ ceremony.state = "applying"
  /\ Versions(row) = Versions(ceremony.seen) /\ IdentityFits
  /\ row' = [status |-> "active", use |-> "active", life |-> row.life + 1,
             gen |-> row.gen + 1, token |-> ceremony.token, window |-> Nothing]
  /\ ceremony' = Ended("completed")
  /\ UNCHANGED <<google, pc, snap, refreshVars, disconnectVars>>

\* A refused commit gives the claim back, or gives the response up.
ReleaseClaim ==
  /\ ceremony.state = "applying"
  /\ ceremony' \in {Ended("ended"), [ceremony EXCEPT !.state = "response_preserved"]}
  /\ UNCHANGED <<row, google, pc, snap, refreshVars, disconnectVars>>

-----------------------------------------------------------------------------
(* The connector leaves; the user takes a grant back at Google. *)

FenceForDeparture ==
  /\ Usable
  /\ row' = [row EXCEPT !.status = "reauth_required", !.life = @ + 1]
  /\ UNCHANGED <<google, pc, snap, refreshVars, disconnectVars, ceremony>>

UserRevokes ==
  /\ \E token \in google.live : End(token)
  /\ UNCHANGED <<row, pc, snap, refreshVars, disconnectVars, ceremony>>

-----------------------------------------------------------------------------
Init ==
  /\ row = [status |-> "active", use |-> "active", life |-> 0, gen |-> 0,
            token |-> 1, window |-> Nothing]
  /\ \E account \in Accounts : google = [account |-> <<account>>, live |-> {1}]
  /\ lease = Nothing /\ lapses = 0
  /\ pc = [p \in Refreshers \cup Disconnects |-> "idle"]
  /\ snap = [r \in Refreshers |-> Unread]
  /\ held = [d \in Disconnects |-> Nothing]
  /\ attempt = [d \in Disconnects |-> [state |-> "none", life |-> 0, gen |-> 0]]
  /\ permit = [d \in Disconnects |-> "none"]
  /\ window = [d \in Disconnects |-> "none"]
  /\ ceremony = [state |-> "none", seen |-> Unread, token |-> Nothing]

Refresh(r) ==
  \/ LoadConnection(r) \/ LoadLatest(r) \/ Contend(r) \/ Recheck(r)
  \/ GoogleAnswers(r) \/ RefreshFails(r) \/ CommitTokens(r)
  \/ RequireReauthorization(r) \/ Leave(r)

Disconnect(d) ==
  \/ ReadConnection(d) \/ Prepare(d)
  \/ AcquireDispatch(d) \/ DispatchDenied(d) \/ StartReads(d) \/ StartCommits(d)
  \/ SendRevoke(d) \/ AnswerMissing(d) \/ Settle(d)
  \/ WindowCloses(d) \/ ReconcileElapsed(d)

Ceremony ==
  \/ BeginCeremony \/ ExchangeCode \/ EndCeremony
  \/ ClaimPreservedResult \/ ReconnectGoogleAccount \/ ReleaseClaim

Next ==
  \/ \E r \in Refreshers : Refresh(r)
  \/ \E d \in Disconnects : Disconnect(d)
  \/ LocalDisconnect \/ Ceremony \/ LeaseLapses \/ FenceForDeparture \/ UserRevokes

Spec == Init /\ [][Next]_vars

-----------------------------------------------------------------------------
(* Properties. *)

Statuses == {"active", "reauth_required", "disconnecting", "disconnected"}
Tokens   == Nat \cup {Nothing}
SeenType == [status : Statuses, life : Nat, gen : Nat, token : Tokens]
Uses     == {"active", "cleanup_only", "none"}
Windows  == Disconnects \cup {Nothing}
RowType  == [status : Statuses, use : Uses, life : Nat, gen : Nat, token : Tokens,
             window : Windows]

RefreshPc    == {"idle", "contend", "wait", "leader", "asked", "commit", "fence", "leave", "done"}
DisconnectPc == {"idle", "authorize", "acquire", "start", "started", "send",
                 "not_sent", "revoked", "ambiguous", "done"}

\* Every variable keeps its type, and use and tokens go with the status.
CredentialTypeOK ==
  /\ row \in RowType
  /\ row.use = "none" <=> row.status = "disconnected"
  /\ row.use = "cleanup_only" <=> row.status = "disconnecting"
  /\ row.token = Nothing <=> row.status = "disconnected"
  /\ row.window # Nothing <=> row.status = "disconnecting"
  /\ google \in [account : Seq(Accounts), live : SUBSET Nat]
  /\ lease \in Refreshers \cup {Nothing} /\ lapses \in 0..MaxLapses
  /\ pc \in [Refreshers \cup Disconnects -> RefreshPc \cup DisconnectPc]
  /\ snap \in [Refreshers -> SeenType]
  /\ held \in [Disconnects -> Tokens]
  /\ attempt \in [Disconnects -> [state : {"none", "active", "dispatching", "not_sent",
                                           "revoked", "ambiguous"},
                                  life : Nat, gen : Nat]]
  /\ permit \in [Disconnects -> {"none", "admitted", "started", "fenced"}]
  /\ window \in [Disconnects -> {"none", "open", "closed"}]
  /\ ceremony \in [state : {"none", "provider_started", "response_preserved",
                            "applying", "completed", "ended"},
                   seen : SeenType, token : Tokens]

\* A refresh whose answer comes late writes nothing over a token that was
\* replaced or redacted since: what it writes back is the token that is stored,
\* and it asks for a reauthorization only if that token's grant is dead.
AnswersLandOnTheirToken ==
  [][\A r \in Refreshers :
       pc[r] \in {"commit", "fence"} /\ pc'[r] # pc[r] /\ row' # row
         => /\ Usable /\ row.token = snap[r].token
            /\ pc[r] = "fence" => ~IsLive(row.token)]_vars

\* Unless a lease lapsed, the owner of the lock that is past its second look
\* works from the newest generation, so no refresh is asked for twice.
LeaderIsCurrent ==
  lapses = 0 =>
    \A r \in Refreshers :
      /\ lease = r /\ pc[r] \in {"asked", "commit", "fence"}
      /\ row.status = "active" /\ row.life = snap[r].life
      => row.gen = snap[r].gen

\* A ceremony commits over the authority it was approved for and nothing that
\* happened since: no disconnect, departure or refresh is undone.
LandsOnWhatItSaw ==
  [][ceremony'.state = "completed" /\ ceremony.state # "completed"
       => Seen = ceremony.seen]_vars

\* A disconnect recorded as revoked leaves no live grant behind, with its token
\* forgotten, of the account whose token it sent.
RevokedEndsItsAccount ==
  [][\A d \in Disconnects :
       /\ attempt'[d].state = "revoked" /\ attempt[d].state # "revoked"
       /\ AccountOf(row.token) = AccountOf(held[d])
       => ~IsLive(row.token)]_vars

\* While its window is open a dispatched revoke finds the row it was made for,
\* and a disconnecting row always has the attempt that can redact it, so neither
\* is left behind when the process dies.
RevokeOwnsItsRow ==
  /\ \A d \in Disconnects :
       attempt[d].state = "dispatching" /\ window[d] = "open" => row.window = d
  /\ row.status = "disconnecting" =>
       attempt[row.window].state = "dispatching" /\ CanRedact(row.window)
=============================================================================
