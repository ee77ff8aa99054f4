------------------------------ MODULE Accounts ------------------------------
(***************************************************************************)
(* One user who may log in with one Telegram account after another, the     *)
(* worker that reads the user's sources through a cached client             *)
(* (workers/ingestor.ts, workers/userClient.ts), and the bot that resolves  *)
(* and joins what the user adds through a client of its own                 *)
(* (sources/telegram/connector.ts, userSession.ts, bot/ui/actions.ts).      *)
(*                                                                          *)
(* An access hash, a membership and the message numbers of a dialog belong  *)
(* to the account that got them; a source row belongs to the user.          *)
(*                                                                          *)
(* A worker and a bot take a step per await.  Leases are in Leases.tla, the *)
(* pages of a source in Ingestion.tla, categories in Catalog.tla.           *)
(***************************************************************************)
EXTENDS Naturals, Sequences, FiniteSets

CONSTANTS
  Account,     \* Telegram accounts of the user
  Nobody,      \* no account: an unset cursor
  Public,      \* channels with a username
  Private,     \* channels that take an invite link
  Dialog,      \* bots and users
  NoSource,
  MaxSources,  \* quotas.max_channels
  MaxLogins,   \* bound: logins
  MaxAdds,     \* bound: /add commands
  MaxRevoked,  \* bound: authorizations that Telegram withdraws
  MaxFaults    \* bound: failed calls, lost connections and crashes

Source == Public \cup Private \cup Dialog

ASSUME NobodyAssumption == Nobody \notin Account
ASSUME NoSourceAssumption == NoSource \notin Source
ASSUME BoundAssumption == MaxLogins \in Nat /\ MaxAdds \in Nat /\ MaxFaults \in Nat

VARIABLES
  auth,      \* the account of each session, by the number of its login
  revoked,   \* the sessions that Telegram does not accept any more
  member,    \* <<account, private channel>>
  session,   \* the session in telegram_sessions, or NoSession
  status,    \* telegram_sessions.status, "none" without a row
  row,       \* sources
  client,    \* the worker: the session of the cached UserClient
  conn,      \* client.connected
  wpc,       \* where the tick is
  snapshot,  \* the rows getSyncableSources returned, without those it is done with
  current,   \* the source the loop is at; the rest of "snapshot" is to come
  update,    \* the bot: the source that /add names, or NoSource
  bpc,       \* where its handler is
  using,     \* the session of withUserConnector
  reply,     \* what the handler ended with
  overtook,  \* history: the row's session came while the worker had a client
  switched,  \* history: rows that were added again by another account
  stray,     \* history: the update's channel was joined for it, and no row made
  adds,
  faults

tgVars == <<auth, revoked, member>>
sessionVars == <<session, status, overtook>>
sourceVars == <<row, switched>>
workerVars == <<client, conn, wpc, snapshot, current>>
botVars == <<update, bpc, using, reply, stray, adds>>
vars == <<tgVars, sessionVars, sourceVars, workerVars, botVars, faults>>

NoSession == 0

Sessions == 1..Len(auth)

\* "born" numbers the rows: a source that is removed and added has a new id.
Row == [born : 1..MaxAdds, meta : Account, cursor : Account \cup {Nobody},
        sync : {"idle", "syncing", "error"}, backoff : BOOLEAN]
NoRow == [born |-> 0]

Tracked == {c \in Source : row[c] # NoRow}

Init ==
  /\ auth = <<>>
  /\ revoked = {}
  /\ member = {}
  /\ session = NoSession
  /\ status = "none"
  /\ row = [c \in Source |-> NoRow]
  /\ client = NoSession
  /\ conn = FALSE
  /\ wpc = "sleep"
  /\ snapshot = [c \in Source |-> NoRow]
  /\ current = NoSource
  /\ update = NoSource
  /\ bpc = "idle"
  /\ using = NoSession
  /\ reply = "none"
  /\ overtook = FALSE
  /\ switched = {}
  /\ stray = FALSE
  /\ adds = 0
  /\ faults = 0

Fault == faults < MaxFaults /\ faults' = faults + 1

-----------------------------------------------------------------------------
(* The user and Telegram *)

\* saveSession
Login(a) ==
  /\ Len(auth) < MaxLogins
  /\ auth' = Append(auth, a)
  /\ session' = Len(auth) + 1
  /\ status' = "active"
  /\ overtook' = (client # NoSession)
  /\ UNCHANGED <<revoked, member, sourceVars, workerVars, botVars, faults>>

\* /logout: revokeSession deletes the row, and neither tells the worker nor
\* logs out of Telegram.
Logout ==
  /\ bpc = "idle"
  /\ status # "none"
  /\ session' = NoSession
  /\ status' = "none"
  /\ overtook' = FALSE
  /\ UNCHANGED <<tgVars, sourceVars, workerVars, botVars, faults>>

\* The authorization is withdrawn; connections stay as they are.
Revoke(n) ==
  /\ n \in Sessions \ revoked
  /\ Cardinality(revoked) < MaxRevoked
  /\ revoked' = revoked \cup {n}
  /\ UNCHANGED <<auth, member, sessionVars, sourceVars, workerVars, botVars, faults>>

LoseConnection ==
  /\ conn
  /\ Fault
  /\ conn' = FALSE
  /\ UNCHANGED <<tgVars, sessionVars, sourceVars, client, wpc, snapshot, current, botVars>>

\* backoff_until passes.
BackoffEnds(c) ==
  /\ row[c] # NoRow /\ row[c].backoff
  /\ row' = [row EXCEPT ![c].backoff = FALSE]
  /\ UNCHANGED <<tgVars, sessionVars, switched, workerVars, botVars, faults>>

-----------------------------------------------------------------------------
(* The worker *)

\* A step of the tick before, and in, the loop over the sources
Step(location) ==
  /\ wpc = location
  /\ UNCHANGED <<tgVars, session, overtook, switched, botVars>>

Tick(location) == Step(location) /\ UNCHANGED <<row, snapshot, current, faults>>

Loop(location) == Step(location) /\ UNCHANGED <<client, conn, status, faults>>

Goto(location) == wpc' = location

\* Wrong: disconnect forgets the client and not its connection.
Forget == client' = NoSession /\ UNCHANGED conn

Disconnect == client' = NoSession /\ conn' = FALSE

\* claimSessions returns the user, or the client is dropped.  getClient does not
\* compare the session of a cached client with the row.
Claim ==
  /\ Tick("sleep")
  /\ UNCHANGED status
  /\ IF status = "active"
     THEN /\ client' = IF client = NoSession THEN session ELSE client
          /\ Goto("connect")
          /\ UNCHANGED conn
     ELSE client # NoSession /\ Disconnect /\ UNCHANGED wpc

\* ensureConnected, then getSyncableSources.  A client that is connected is used
\* as it is, and one may be let through whose next request will be refused.
Connect ==
  /\ Step("connect")
  /\ conn' = TRUE
  /\ snapshot' = row
  /\ Goto("next")
  /\ UNCHANGED <<client, status, row, current, faults>>

\* Wrong: whatever keeps the client from connecting.
AnyError(s) == TRUE

\* isAuthError
AuthError(s) == s \in revoked

ConnectDenied ==
  /\ Tick("connect")
  /\ ~ conn
  /\ AuthError(client)
  /\ Goto("mark")
  /\ UNCHANGED <<client, conn, status>>

\* markSessionStatus, for whichever session the row has by now; disconnect.
MarkReauth ==
  /\ Tick("mark")
  /\ status' = IF status = "none" THEN "none" ELSE "needs_reauth"
  /\ Disconnect
  /\ Goto("sleep")

Remaining == {c \in Source : snapshot[c] # NoRow}

\* Wrong: the update finds the source by what it refers to.
AnyRow(c) == row[c] # NoRow

\* UPDATE ... WHERE id = $1
SameRow(c) == row[c].born = snapshot[c].born

\* markSyncStatus and updateCursor, for the row that was listed
SetRow(c, new) == row' = [row EXCEPT ![c] = IF SameRow(c) THEN new ELSE @]

\* Wrong: a source that is in error is left alone.
Healthy(c) == snapshot[c].sync # "error"

Due(c) == ~ snapshot[c].backoff

StartSource ==
  /\ Loop("next")
  /\ \E c \in Remaining :
       IF Due(c)
       THEN /\ SetRow(c, [row[c] EXCEPT !.sync = "syncing", !.backoff = FALSE])
            /\ current' = c
            /\ Goto("fetch")
            /\ UNCHANGED snapshot
       ELSE /\ snapshot' = [snapshot EXCEPT ![c] = NoRow]
            /\ UNCHANGED <<row, current, wpc>>

\* What session s can read with the access hash of account a.
Readable(s, c, a) ==
  /\ s \notin revoked
  /\ auth[s] = a
  /\ c \in Private => <<a, c>> \in member

\* seedCursor, fetchSince: getMessages with the peer of telegram_meta
Fetch ==
  /\ Loop("fetch")
  /\ Goto(IF conn /\ Readable(client, current, snapshot[current].meta)
          THEN "store" ELSE "error")
  /\ UNCHANGED <<row, snapshot, current>>

\* The cursor of a dialog that counts another account's messages moves only
\* if this one's have come to higher numbers.
Numbering(c) ==
  IF c \notin Dialog THEN {Nobody}
  ELSE IF snapshot[c].cursor = Nobody THEN {auth[client]}
  ELSE {snapshot[c].cursor, auth[client]}

NextSource ==
  /\ Goto("next")
  /\ snapshot' = [snapshot EXCEPT ![current] = NoRow]
  /\ current' = NoSource

Store ==
  /\ Loop("store")
  /\ \E a \in Numbering(current) :
       SetRow(current, [row[current] EXCEPT !.cursor = a, !.sync = "idle", !.backoff = FALSE])
  /\ NextSource

\* Wrong: the error is logged and no more.
Unnoticed == "idle"

ErrorStatus == "error"

HandleSourceError ==
  /\ Loop("error")
  /\ SetRow(current, [row[current] EXCEPT !.sync = ErrorStatus, !.backoff = TRUE])
  /\ NextSource

EndTick ==
  /\ Loop("next")
  /\ Remaining = {}
  /\ Goto("sleep")
  /\ UNCHANGED <<row, snapshot, current>>

LeaveUser ==
  /\ Goto("sleep")
  /\ snapshot' = [c \in Source |-> NoRow]
  /\ current' = NoSource

\* A call fails for another reason.  In the loop over the sources it counts
\* against the source; before the loop, and when the error itself cannot be
\* written, the tick leaves the user.
WorkerFails ==
  /\ Step(wpc)
  /\ Fault
  /\ \/ /\ wpc = "next"
        /\ current' \in {c \in Remaining : Due(c)}
        /\ Goto("error") /\ UNCHANGED snapshot
     \/ /\ wpc \in {"fetch", "store"}
        /\ Goto("error") /\ UNCHANGED <<snapshot, current>>
     \/ /\ wpc \in {"connect", "mark", "error"}
        /\ LeaveUser
  /\ UNCHANGED <<client, conn, status, row>>

WorkerCrash ==
  /\ client # NoSession
  /\ Step(wpc)
  /\ Fault
  /\ Disconnect
  /\ LeaveUser
  /\ UNCHANGED <<status, row>>

-----------------------------------------------------------------------------
(* The bot: /add with trackChannel, /remove *)

Handling(location) ==
  /\ bpc = location
  /\ UNCHANGED <<auth, revoked, sessionVars, workerVars>>

Proceed(location) == bpc' = location /\ UNCHANGED <<update, reply, adds>>

Answer(text) == bpc' = "done" /\ reply' = text /\ using' = NoSession /\ UNCHANGED <<update, adds>>

Receive(c) ==
  /\ Handling("idle")
  /\ adds < MaxAdds
  /\ adds' = adds + 1
  /\ update' = c
  /\ bpc' = "quota"
  /\ stray' = FALSE
  /\ UNCHANGED <<member, sourceVars, using, reply, faults>>

\* The quota comes first, also for a source that is there already; then
\* withUserConnector with getSessionString, or NotLoggedInError.
OpenSession ==
  /\ Handling("quota")
  /\ IF Cardinality(Tracked) >= MaxSources THEN Answer("limit")
     ELSE IF status # "active" THEN Answer("login")
     ELSE using' = session /\ Proceed("resolve")
  /\ UNCHANGED <<member, sourceVars, stray, faults>>

ResolveDenied ==
  /\ Handling("resolve")
  /\ using \in revoked
  /\ Answer("refused")
  /\ UNCHANGED <<member, sourceVars, stray, faults>>

\* resolveUsername: neither a public channel nor a dialog has to be joined.
ResolveUsername ==
  /\ Handling("resolve")
  /\ update \notin Private
  /\ using \notin revoked
  /\ Proceed("create")
  /\ UNCHANGED <<member, sourceVars, using, stray, faults>>

\* ImportChatInvite
JoinByInvite ==
  /\ Handling("resolve")
  /\ update \in Private
  /\ using \notin revoked
  /\ <<auth[using], update>> \notin member
  /\ member' = member \cup {<<auth[using], update>>}
  /\ stray' = TRUE
  /\ Proceed("create")
  /\ UNCHANGED <<sourceVars, using, faults>>

\* Wrong: what Telegram refuses to join cannot be resolved.
Unresolved == Answer("unresolved")

CheckInvite == Proceed("create") /\ UNCHANGED using

\* USER_ALREADY_PARTICIPANT, CheckChatInvite
AlreadyParticipant ==
  /\ Handling("resolve")
  /\ using \notin revoked
  /\ <<auth[using], update>> \in member
  /\ CheckInvite
  /\ UNCHANGED <<member, sourceVars, stray, faults>>

\* createSource: ON CONFLICT it takes the new access hash and keeps the cursor.
CreateSource ==
  /\ Handling("create")
  /\ LET c == update
         a == auth[using]
     IN
     /\ row' = [row EXCEPT ![c] =
                  IF @ = NoRow THEN [born |-> adds, meta |-> a, cursor |-> Nobody,
                                     sync |-> "idle", backoff |-> FALSE]
                               ELSE [@ EXCEPT !.meta = a]]
     /\ switched' = switched \cup {d \in {c} : row[d] # NoRow /\ row[d].meta # a}
  /\ stray' = FALSE
  /\ Answer("added")
  /\ UNCHANGED <<member, faults>>

\* /remove does not leave the channel.
Remove(c) ==
  /\ Handling("idle")
  /\ c \in Tracked
  /\ row' = [row EXCEPT ![c] = NoRow]
  /\ switched' = switched \ {c}
  /\ UNCHANGED <<member, botVars, faults>>

\* The next poll confirms the update.
Confirm ==
  /\ Handling("done")
  /\ bpc' = "idle"
  /\ update' = NoSource
  /\ reply' = "none"
  /\ UNCHANGED <<member, sourceVars, using, stray, adds, faults>>

BotFails ==
  /\ bpc \in {"quota", "resolve", "create"}
  /\ Handling(bpc)
  /\ Fault
  /\ Answer("error")
  /\ UNCHANGED <<member, sourceVars, stray>>

\* The update is delivered again.
BotCrash ==
  /\ bpc # "idle"
  /\ Handling(bpc)
  /\ Fault
  /\ bpc' = "quota"
  /\ using' = NoSession
  /\ reply' = "none"
  /\ UNCHANGED <<member, sourceVars, update, stray, adds>>

-----------------------------------------------------------------------------

User ==
  \/ \E a \in Account : Login(a)
  \/ Logout
  \/ \E c \in Source : Receive(c) \/ Remove(c)

Worker ==
  \/ Claim
  \/ Connect
  \/ ConnectDenied
  \/ MarkReauth
  \/ StartSource
  \/ Fetch
  \/ Store
  \/ HandleSourceError
  \/ EndTick

Bot ==
  \/ OpenSession
  \/ ResolveDenied
  \/ ResolveUsername
  \/ JoinByInvite
  \/ AlreadyParticipant
  \/ CreateSource
  \/ Confirm

Environment ==
  \/ \E n \in 1..MaxLogins : Revoke(n)
  \/ \E c \in Source : BackoffEnds(c)
  \/ LoseConnection
  \/ WorkerFails
  \/ WorkerCrash
  \/ BotFails
  \/ BotCrash

Next == User \/ Worker \/ Bot \/ Environment

Spec == Init /\ [][Next]_vars

\* loop() schedules the next tick whatever happened in the last, and time
\* passes.  Nothing is assumed of the user, the bot or Telegram.
Fairness == WF_vars(Worker) /\ \A c \in Source : WF_vars(BackoffEnds(c))

FairSpec == Spec /\ Fairness

-----------------------------------------------------------------------------
(* Properties *)

(***************************************************************************)
(* Every variable has a value of its kind, only a client is connected, and  *)
(* a row is of an account that the user has logged in with.                 *)
(***************************************************************************)
TypeOK ==
  /\ auth \in Seq(Account) /\ Len(auth) <= MaxLogins
  /\ revoked \subseteq Sessions
  /\ overtook \in BOOLEAN
  /\ member \subseteq Account \X Private
  /\ {session, client, using} \subseteq Sessions \cup {NoSession}
  /\ status \in {"none", "active", "needs_reauth"}
  /\ status = "none" <=> session = NoSession
  /\ row \in [Source -> Row \cup {NoRow}]
  /\ snapshot \in [Source -> Row \cup {NoRow}]
  /\ \A c \in Tracked : \E n \in Sessions : auth[n] = row[c].meta
  /\ conn \in BOOLEAN
  /\ conn => client # NoSession
  /\ wpc \in {"sleep", "connect", "mark", "next", "fetch", "store", "error"}
  /\ current \in Remaining \cup {NoSource}
  /\ update \in Source \cup {NoSource}
  /\ bpc \in {"idle", "quota", "resolve", "create", "done"}
  /\ reply \in {"none", "added", "limit", "login", "refused", "unresolved", "error"}
  /\ switched \subseteq Tracked
  /\ stray \in BOOLEAN
  /\ adds \in 0..MaxAdds
  /\ faults \in 0..MaxFaults

(***************************************************************************)
(* The user is asked to log in again because Telegram has withdrawn the     *)
(* session that is in the row.  There is one other way: the session came    *)
(* while the worker still had the client of an earlier one, and it is that  *)
(* one that was refused (ingestor.ts:90 marks the row of the user).         *)
(***************************************************************************)
ReauthExplained == status = "needs_reauth" => session \in revoked \/ overtook

(***************************************************************************)
(* A user who is logged in, and whose login overtook no client, is served:  *)
(* every source that the account of the session added and can read is read  *)
(* again and again, whatever happened before (a session withdrawn in the    *)
(* middle of a tick, connections lost, other accounts, other sources that   *)
(* cannot be read).                                                         *)
(***************************************************************************)
Served(c) ==
  /\ status = "active"
  /\ ~ overtook
  /\ c \in Tracked
  /\ Readable(session, c, row[c].meta)

ReadAgain == \A c \in Source : <>[]Served(c) => []<>(wpc = "store" /\ current = c)

(***************************************************************************)
(* An authorization that Telegram has withdrawn does not go unnoticed: in   *)
(* the end the user is asked to log in again, or each source shows an       *)
(* error, which is all that happens as long as the connection stands.       *)
(***************************************************************************)
Withdrawn(c) == status = "active" /\ session \in revoked /\ ~ overtook /\ c \in Tracked

WithdrawalShown ==
  \A c \in Source : []<>(Withdrawn(c) => row[c].sync = "error")

(***************************************************************************)
(* The messages of a dialog are numbered for each account.  A cursor that   *)
(* counts those of another account than the one the dialog is read by, and  *)
(* hides this one's, is only in a row that was added again by another       *)
(* account: to remove it and add it anew is enough, also while a worker is  *)
(* in the middle of the row that is removed.                                *)
(***************************************************************************)
CursorsOwned ==
  \A c \in Tracked \ switched : row[c].cursor \in {Nobody, row[c].meta}

(***************************************************************************)
(* A channel that the bot has joined for an /add is tracked when the /add   *)
(* is handled, also when the process died after the invite had been used,   *)
(* and never turned down by the quota.  Otherwise a call failed after the   *)
(* joining, or the second delivery found no session to go on with.          *)
(***************************************************************************)
JoinedIsTracked == bpc = "done" /\ stray => reply \in {"error", "login", "refused"}
=============================================================================
