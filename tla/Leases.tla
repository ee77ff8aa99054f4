------------------------------- MODULE Leases -------------------------------
(***************************************************************************)
(* How the ingestor processes divide the Telegram sessions among them: the  *)
(* lease columns of telegram_sessions (storage/sessions.ts), the tick of a  *)
(* worker with its cache of Telegram clients (workers/ingestor.ts,          *)
(* workers/userClient.ts), start and stop of a process                      *)
(* (entrypoints/ingestor.ts), and the users who log in and out meanwhile    *)
(* (sources/telegram/login.ts, bot/index.ts).                               *)
(*                                                                          *)
(* What syncUser does with the sources of a user is Ingestion.tla; here it  *)
(* is a period of time in which the worker uses the user's session.         *)
(*                                                                          *)
(* Time is counted in poll intervals.  A lease is a countdown, so that the  *)
(* clock itself need not be a variable.                                     *)
(***************************************************************************)
EXTENDS Integers, FiniteSets

CONSTANTS
  User,           \* the users, each with at most one session row
  Worker,         \* the ingestor processes, by WORKER_ID
  Nobody,         \* owner_worker_id IS NULL
  Lease,          \* LEASE_SECONDS in poll intervals
  MaxUsers,       \* MAX_USERS_PER_WORKER
  MaxLate,        \* bound: how long ago a lease expired is told up to here
  MaxTickLength,  \* bound: poll intervals that a claim may wait, and a tick last
  MaxLogins,      \* bound: logins
  MaxLogouts,     \* bound: logouts
  MaxRejects,     \* bound: sessions that Telegram stops accepting
  MaxStops,       \* bound: crashes and orderly stops
  MaxFaults       \* bound: failed calls

ASSUME LeaseAssumption == Lease \in Nat
ASSUME MaxLateAssumption == MaxLate \in Nat
ASSUME NobodyAssumption == Nobody \notin Worker

VARIABLES
  status,     \* telegram_sessions.status, or "none" when there is no row
  session,    \* the session string of the row: the number of the login
  born,       \* the login that inserted the row
  owner,      \* owner_worker_id
  ttl,        \* lease_expires_at, as the time that is left
  logins,     \* how many logins there have been
  logouts,    \* how many logouts there have been
  rejected,   \* the sessions that Telegram does not accept any more
  loggedOut,  \* the sessions that were in a row when their user logged out
  proc,       \* whether each process is up, stopping, or down
  pc,         \* where its tick is
  owned,      \* the users that the last claim returned
  claimed,    \* the rows that the last claim returned, as <<user, born>>
  age,        \* the time since that claim
  todo,       \* the users the tick has still to sync
  current,    \* the user it is syncing, or NoUser
  using,      \* the session of the client it is syncing that user with
  client,     \* clients: the session of each user's UserClient, or NoClient
  stops,      \* how many crashes and stops there have been
  faults      \* how many calls have failed

rowVars == <<status, session, born, owner, ttl>>
userVars == <<logins, logouts, rejected, loggedOut>>
tickVars == <<pc, owned, claimed, age, todo, current, using, client>>
vars == <<rowVars, userVars, proc, tickVars, stops, faults>>

NoUser == Nobody

NoClient == 0

\* NULLS FIRST, and NULL counts as expired: less than every countdown.
NoLease == -MaxLate - 1

Countdown == NoLease .. Lease

(***************************************************************************)
(* "sleep"    between two ticks                                             *)
(* "claim"    about to call claimSessions                                   *)
(* "renew"    about to call renewLeases                                     *)
(* "drop"     about to close the clients of users not claimed               *)
(* "next"     at the head of the loop over the claimed users                *)
(* "connect"  about to call ensureConnected                                 *)
(* "reauth"   about to write needs_reauth                                   *)
(* "sync"     working on the user's sources                                 *)
(***************************************************************************)
Location == {"sleep", "claim", "renew", "drop", "next", "connect", "reauth", "sync"}

Init ==
  /\ status = [u \in User |-> "none"]
  /\ session = [u \in User |-> 0]
  /\ born = [u \in User |-> 0]
  /\ owner = [u \in User |-> Nobody]
  /\ ttl = [u \in User |-> NoLease]
  /\ logins = 0
  /\ logouts = 0
  /\ rejected = {}
  /\ loggedOut = {}
  /\ proc = [w \in Worker |-> "up"]
  /\ pc = [w \in Worker |-> "claim"]
  /\ owned = [w \in Worker |-> {}]
  /\ claimed = [w \in Worker |-> {}]
  /\ age = [w \in Worker |-> 0]
  /\ todo = [w \in Worker |-> {}]
  /\ current = [w \in Worker |-> NoUser]
  /\ using = [w \in Worker |-> NoClient]
  /\ client = [w \in Worker |-> [u \in User |-> NoClient]]
  /\ stops = 0
  /\ faults = 0

-----------------------------------------------------------------------------
(* Users, Telegram, and time *)

\* saveSession: a row that is there keeps its owner and its lease.
Login(u) ==
  /\ logins < MaxLogins
  /\ logins' = logins + 1
  /\ status' = [status EXCEPT ![u] = "active"]
  /\ session' = [session EXCEPT ![u] = logins + 1]
  /\ born' = [born EXCEPT ![u] = IF status[u] = "none" THEN logins + 1 ELSE @]
  /\ UNCHANGED <<owner, ttl, logouts, rejected, loggedOut, proc, tickVars, stops, faults>>

\* revokeSession deletes the row.  Nothing tells the worker.
Logout(u) ==
  /\ status[u] # "none"
  /\ logouts < MaxLogouts
  /\ logouts' = logouts + 1
  /\ loggedOut' = loggedOut \cup {session[u]}
  /\ status' = [status EXCEPT ![u] = "none"]
  /\ session' = [session EXCEPT ![u] = 0]
  /\ born' = [born EXCEPT ![u] = 0]
  /\ owner' = [owner EXCEPT ![u] = Nobody]
  /\ ttl' = [ttl EXCEPT ![u] = NoLease]
  /\ UNCHANGED <<logins, rejected, proc, tickVars, stops, faults>>

\* The session is terminated on Telegram's side.
Reject(x) ==
  /\ x \in 1..logins
  /\ Cardinality(rejected) < MaxRejects
  /\ rejected' = rejected \cup {x}
  /\ rejected' # rejected
  /\ UNCHANGED <<rowVars, logins, logouts, loggedOut, proc, tickVars, stops, faults>>

\* A poll interval passes, which wakes the workers that sleep.
Tick ==
  /\ \A w \in Worker :
       proc[w] = "down" \/ pc[w] = "sleep" \/ age[w] < MaxTickLength
  /\ ttl' = [u \in User |-> IF ttl[u] > -MaxLate THEN ttl[u] - 1 ELSE ttl[u]]
  /\ age' = [w \in Worker |-> IF age[w] <= Lease THEN age[w] + 1 ELSE age[w]]
  /\ pc' = [w \in Worker |->
              IF pc[w] = "sleep" /\ proc[w] = "up" THEN "claim" ELSE pc[w]]
  /\ UNCHANGED <<status, session, born, owner, userVars, proc>>
  /\ UNCHANGED <<owned, claimed, todo, current, using, client, stops, faults>>

-----------------------------------------------------------------------------
(* The tick of a worker *)

Alive(w) == proc[w] # "down"

Goto(w, location) == pc' = [pc EXCEPT ![w] = location]

\* Wrong: whoever asks gets every active session.
AnyActive(w) == {u \in User : status[u] = "active"}

\* active, and unowned, ours, or with an expired lease
Claimable(w) ==
  {u \in User : /\ status[u] = "active"
                /\ owner[u] \in {Nobody, w} \/ ttl[u] < 0}

\* Wrong: no ORDER BY.
AnyOf(users, candidates) ==
  /\ users \subseteq candidates
  /\ \/ Cardinality(users) = MaxUsers
     \/ users = candidates /\ Cardinality(users) < MaxUsers

\* ORDER BY lease_expires_at NULLS FIRST LIMIT MaxUsers, out of candidates
FirstOf(users, candidates) ==
  /\ users \subseteq candidates
  /\ \/ Cardinality(users) = MaxUsers
     \/ users = candidates /\ Cardinality(users) < MaxUsers
  /\ \A u \in users, v \in candidates \ users : ttl[u] <= ttl[v]

\* claimSessions is a single UPDATE: of two workers that claim a row at the
\* same time the second finds it locked or taken.
Claim(w) ==
  /\ Alive(w)
  /\ pc[w] = "claim"
  /\ \E users \in SUBSET User :
       /\ FirstOf(users, Claimable(w))
       /\ owner' = [u \in User |-> IF u \in users THEN w ELSE owner[u]]
       /\ ttl' = [u \in User |-> IF u \in users THEN Lease ELSE ttl[u]]
       /\ owned' = [owned EXCEPT ![w] = users]
       /\ claimed' = [claimed EXCEPT ![w] = {<<u, born[u]>> : u \in users}]
       /\ todo' = [todo EXCEPT ![w] = users]
  /\ age' = [age EXCEPT ![w] = 0]
  /\ Goto(w, "renew")
  /\ UNCHANGED <<status, session, born, userVars, proc, current, using, client, stops, faults>>

\* Wrong: the interval is added to the lease there is.
Extended(u) == ttl[u] + Lease

Renewed(u) == Lease

Renew(w) ==
  /\ Alive(w)
  /\ pc[w] = "renew"
  /\ ttl' = [u \in User |-> IF u \in owned[w] /\ owner[u] = w THEN Renewed(u) ELSE ttl[u]]
  /\ Goto(w, "drop")
  /\ UNCHANGED <<status, session, born, owner, userVars, proc>>
  /\ UNCHANGED <<owned, claimed, age, todo, current, using, client, stops, faults>>

\* Wrong: a client is kept as long as its session is accepted.
KeepsGood(w, u) == client[w][u] \notin rejected

\* The clients of users that were not claimed are closed.
Keeps(w, u) == u \in owned[w]

Drop(w) ==
  /\ Alive(w)
  /\ pc[w] = "drop"
  /\ client' = [client EXCEPT ![w] =
                  [u \in User |-> IF Keeps(w, u) THEN @[u] ELSE NoClient]]
  /\ Goto(w, "next")
  /\ UNCHANGED <<rowVars, userVars, proc, owned, claimed, age, todo, current, using, stops, faults>>

(***************************************************************************)
(* getClient: the client in the map, if there is one, whatever the row says *)
(* by now; else a new one if the row has an active session; else the user   *)
(* is passed over.                                                          *)
(***************************************************************************)
ClientFor(w, u) ==
  IF client[w][u] # NoClient THEN client[w][u]
  ELSE IF status[u] = "active" THEN session[u] ELSE NoClient

StartUser(w) ==
  /\ Alive(w)
  /\ pc[w] = "next"
  /\ \E u \in todo[w] :
       /\ todo' = [todo EXCEPT ![w] = @ \ {u}]
       /\ client' = [client EXCEPT ![w][u] = ClientFor(w, u)]
       /\ IF ClientFor(w, u) = NoClient
            THEN UNCHANGED <<pc, current, using>>
            ELSE /\ current' = [current EXCEPT ![w] = u]
                 /\ using' = [using EXCEPT ![w] = ClientFor(w, u)]
                 /\ Goto(w, "connect")
  /\ UNCHANGED <<rowVars, userVars, proc, owned, claimed, age, stops, faults>>

\* The loop goes on to the next user.
NextUser(w) ==
  /\ Goto(w, "next")
  /\ current' = [current EXCEPT ![w] = NoUser]
  /\ using' = [using EXCEPT ![w] = NoClient]

\* A client that is still connected, or whose session is good, is used.
Connected(w) ==
  /\ Alive(w)
  /\ pc[w] = "connect"
  /\ Goto(w, "sync")
  /\ UNCHANGED <<rowVars, userVars, proc, owned, claimed, age, todo, current, using, client>>
  /\ UNCHANGED <<stops, faults>>

\* isAuthError: Telegram does not accept the session of the client.
ConnectDenied(w) ==
  /\ Alive(w)
  /\ pc[w] = "connect"
  /\ using[w] \in rejected
  /\ Goto(w, "reauth")
  /\ UNCHANGED <<rowVars, userVars, proc, owned, claimed, age, todo, current, using, client>>
  /\ UNCHANGED <<stops, faults>>

\* markSessionStatus(userId, 'needs_reauth'): whichever session the row has.
MarkReauth(w) ==
  /\ Alive(w)
  /\ pc[w] = "reauth"
  /\ LET u == current[w] IN
       /\ status' = [status EXCEPT ![u] = IF status[u] # "none" THEN "needs_reauth" ELSE @]
       /\ client' = [client EXCEPT ![w][u] = NoClient]
  /\ NextUser(w)
  /\ UNCHANGED <<session, born, owner, ttl, userVars, proc, owned, claimed, age, todo>>
  /\ UNCHANGED <<stops, faults>>

SyncEnds(w) ==
  /\ Alive(w)
  /\ pc[w] = "sync"
  /\ NextUser(w)
  /\ UNCHANGED <<rowVars, userVars, proc, owned, claimed, age, todo, client, stops, faults>>

EndTick(w) ==
  /\ Alive(w)
  /\ pc[w] = "next"
  /\ todo[w] = {}
  /\ Goto(w, "sleep")
  /\ UNCHANGED <<rowVars, userVars, proc, owned, claimed, age, todo, current, using, client>>
  /\ UNCHANGED <<stops, faults>>

\* A query that fails before the loop ends the tick, one inside it ends the
\* work on the user.
CallFails(w) ==
  /\ Alive(w)
  /\ faults < MaxFaults
  /\ faults' = faults + 1
  /\ \/ /\ pc[w] \in {"claim", "renew"}
        /\ Goto(w, "sleep")
        /\ todo' = [todo EXCEPT ![w] = {}]
        /\ UNCHANGED <<current, using>>
     \/ /\ pc[w] = "next"
        /\ \E u \in todo[w] :
             client[w][u] = NoClient /\ todo' = [todo EXCEPT ![w] = @ \ {u}]
        /\ UNCHANGED <<pc, current, using>>
     \/ /\ pc[w] \in {"connect", "reauth", "sync"}
        /\ NextUser(w)
        /\ UNCHANGED todo
  /\ UNCHANGED <<rowVars, userVars, proc, owned, claimed, age, client, stops>>

-----------------------------------------------------------------------------
(* Start and stop of a process *)

\* Wrong: every row that is leased is released.
AllRows(w) == {u \in User : owner[u] # Nobody}

RowsOf(w) == {u \in User : owner[u] = w}

\* Wrong: the leases are released before the clients are closed.
ReleaseFirst(w) ==
  /\ proc[w] = "up"
  /\ stops < MaxStops
  /\ stops' = stops + 1
  /\ proc' = [proc EXCEPT ![w] = "stopping"]
  /\ owner' = [u \in User |-> IF u \in RowsOf(w) THEN Nobody ELSE owner[u]]
  /\ UNCHANGED <<status, session, born, ttl, userVars, tickVars, faults>>

\* stop() goes on beside the tick that is in flight.
BeginStop(w) ==
  /\ proc[w] = "up"
  /\ stops < MaxStops
  /\ stops' = stops + 1
  /\ proc' = [proc EXCEPT ![w] = "stopping"]
  /\ UNCHANGED <<rowVars, userVars, tickVars, faults>>

CloseClients(w) ==
  /\ proc[w] = "stopping"
  /\ client' = [client EXCEPT ![w] = [u \in User |-> NoClient]]
  /\ proc' = [proc EXCEPT ![w] = "closed"]
  /\ UNCHANGED <<rowVars, userVars, pc, owned, claimed, age, todo, current, using, stops, faults>>

ReleaseLeases(w) ==
  /\ proc[w] = "closed"
  /\ owner' = [u \in User |-> IF u \in RowsOf(w) THEN Nobody ELSE owner[u]]
  /\ ttl' = [u \in User |-> IF u \in RowsOf(w) THEN NoLease ELSE ttl[u]]
  /\ claimed' = [claimed EXCEPT ![w] = {}]
  /\ proc' = [proc EXCEPT ![w] = "released"]
  /\ UNCHANGED <<status, session, born, userVars, stops, faults>>
  /\ UNCHANGED <<pc, owned, age, todo, current, using, client>>

\* The memory of the process is gone.
Lost(w) ==
  /\ proc' = [proc EXCEPT ![w] = "down"]
  /\ pc' = [pc EXCEPT ![w] = "claim"]
  /\ owned' = [owned EXCEPT ![w] = {}]
  /\ claimed' = [claimed EXCEPT ![w] = {}]
  /\ age' = [age EXCEPT ![w] = 0]
  /\ todo' = [todo EXCEPT ![w] = {}]
  /\ current' = [current EXCEPT ![w] = NoUser]
  /\ using' = [using EXCEPT ![w] = NoClient]
  /\ client' = [client EXCEPT ![w] = [u \in User |-> NoClient]]

\* process.exit, also when releaseLeases failed
Exit(w) ==
  /\ proc[w] \in {"closed", "released"}
  /\ Lost(w)
  /\ UNCHANGED <<rowVars, userVars, stops, faults>>

Crash(w) ==
  /\ Alive(w)
  /\ stops < MaxStops
  /\ stops' = stops + 1
  /\ Lost(w)
  /\ UNCHANGED <<rowVars, userVars, faults>>

\* start() runs the first tick at once.
Start(w) ==
  /\ proc[w] = "down"
  /\ proc' = [proc EXCEPT ![w] = "up"]
  /\ UNCHANGED <<rowVars, userVars, tickVars, stops, faults>>

-----------------------------------------------------------------------------

Step(w) ==
  \/ Claim(w)
  \/ Renew(w)
  \/ Drop(w)
  \/ StartUser(w)
  \/ Connected(w)
  \/ ConnectDenied(w)
  \/ MarkReauth(w)
  \/ SyncEnds(w)
  \/ EndTick(w)

Stop(w) ==
  \/ BeginStop(w)
  \/ CloseClients(w)
  \/ ReleaseLeases(w)
  \/ Exit(w)
  \/ Crash(w)

Next ==
  \/ \E u \in User : Login(u) \/ Logout(u)
  \/ \E x \in 1..MaxLogins : Reject(x)
  \/ Tick
  \/ \E w \in Worker : Step(w) \/ CallFails(w) \/ Stop(w) \/ Start(w)

Spec == Init /\ [][Next]_vars

(***************************************************************************)
(* Time passes; the event loop of a process that is up takes every step of  *)
(* its tick, and stop() is carried through.  Nothing makes anyone log in,   *)
(* or start a process that is down.                                         *)
(***************************************************************************)
Fairness ==
  /\ WF_vars(Tick)
  /\ \A w \in Worker : WF_vars(Step(w)) /\ WF_vars(Exit(w)) /\ WF_vars(CloseClients(w))

FairSpec == Spec /\ Fairness
-----------------------------------------------------------------------------
(* Properties *)

\* Every variable has a value of its kind; in particular no lease is longer
\* than LEASE_SECONDS.
TypeOK ==
  /\ status \in [User -> {"none", "active", "needs_reauth"}]
  /\ session \in [User -> Nat]
  /\ born \in [User -> Nat]
  /\ owner \in [User -> Worker \cup {Nobody}]
  /\ ttl \in [User -> Countdown]
  /\ logins \in Nat
  /\ logouts \in Nat
  /\ rejected \subseteq Nat
  /\ loggedOut \subseteq Nat
  /\ proc \in [Worker -> {"up", "stopping", "closed", "released", "down"}]
  /\ pc \in [Worker -> Location]
  /\ owned \in [Worker -> SUBSET User]
  /\ claimed \in [Worker -> SUBSET (User \X Nat)]
  /\ age \in [Worker -> 0 .. Lease + 1]
  /\ todo \in [Worker -> SUBSET User]
  /\ current \in [Worker -> User \cup {NoUser}]
  /\ using \in [Worker -> Nat]
  /\ client \in [Worker -> [User -> Nat]]
  /\ stops \in Nat
  /\ faults \in Nat

\* What w may believe for LEASE_SECONDS after claimSessions returned u to it.
HoldsLease(w, u) ==
  /\ status[u] # "none"
  /\ <<u, born[u]>> \in claimed[w]
  /\ age[w] <= Lease

(***************************************************************************)
(* A session that claimSessions has returned to a worker is returned to no  *)
(* other worker while the lease runs, whatever crashes, stops, logins and   *)
(* logouts there are in between: "claims sessions with a lease for exactly  *)
(* one worker" (storage.test.ts).                                           *)
(***************************************************************************)
LeaseExclusive ==
  \A u \in User : \A v, w \in Worker :
    HoldsLease(v, u) /\ HoldsLease(w, u) => v = w

(***************************************************************************)
(* The leases are locks (SessionLock): between one worker and another a     *)
(* session is with nobody, no step passes it on, and a claim is the only    *)
(* step that gives a worker a session.                                      *)
(***************************************************************************)
Lock == INSTANCE SessionLock
          WITH holders <- [u \in User |-> {w \in Worker : HoldsLease(w, u)}]

ImplementsLock == Lock!Spec

Works(w, u) == pc[w] = "sync" /\ current[w] = u

\* stop() has not come to releaseLeases, if it has begun at all.
Unreleased(w) == proc[w] \in {"up", "stopping", "closed"}

Syncs(w, u) == Unreleased(w) /\ Works(w, u)

(***************************************************************************)
(* "They will split the session set via DB leases" (README): no two workers *)
(* work on the same user at the same time.  Nothing in a tick looks at the  *)
(* lease again after the first two queries, so that this depends on how     *)
(* long a tick lasts, and a tick goes on beside stop(): as long as stop()   *)
(* has not released the leases it must be left alone too.  Two things end   *)
(* the lease and not the work: releaseLeases, after which the tick goes on  *)
(* until the process exits, and a logout, after which the user may be       *)
(* served by two workers with two sessions.                                 *)
(***************************************************************************)
OneSyncer ==
  logouts = 0 =>
    \A u \in User : \A v, w \in Worker : Syncs(v, u) /\ Syncs(w, u) => v = w

(***************************************************************************)
(* "A crashed worker's lease expires and another worker takes over"         *)
(* (README), and the LIMIT of claimSessions starves nobody: a user whose    *)
(* session stays active is synced again and again as long as some process   *)
(* is running.                                                              *)
(***************************************************************************)
Available(u) == status[u] = "active" /\ \E w \in Worker : proc[w] = "up"

Served(u) == \E w \in Worker : proc[w] = "up" /\ Works(w, u)

SessionsServed == \A u \in User : <>[]Available(u) => []<>Served(u)

(***************************************************************************)
(* In the loop of its tick a worker has clients for users of its last claim *)
(* only.  Nothing else closes the client of a user who has logged out, was  *)
(* marked needs_reauth, or is served by another worker by now.              *)
(***************************************************************************)
InLoop == {"connect", "reauth", "sync"}

ClientsClaimed ==
  \A w \in Worker, u \in User :
    proc[w] = "up" /\ pc[w] \in InLoop \cup {"next"} /\ client[w][u] # NoClient
    => u \in owned[w]

(***************************************************************************)
(* "/logout - disconnect your account" (bot/index.ts): a worker does not    *)
(* keep a client for a session that the user has logged out of.             *)
(***************************************************************************)
Revoked(w, u) == client[w][u] \in loggedOut

LogoutDisconnects ==
  \A w \in Worker, u \in User : Revoked(w, u) ~> ~ Revoked(w, u)
-----------------------------------------------------------------------------
(* The inductive invariants behind LeaseExclusive and OneSyncer             *)
(* (LeasesProofs)                                                           *)

\* The login that inserted a row, or that a claim saw, is in the past.
BirthsInPast ==
  /\ \A u \in User : born[u] <= logins
  /\ \A w \in Worker : \A row \in claimed[w] : row[2] <= logins

\* The lease in the row covers what the worker may believe.
LeaseBacked ==
  \A w \in Worker, u \in User :
    HoldsLease(w, u) => owner[u] = w /\ ttl[u] >= Lease - age[w]

LeaseInv ==
  /\ TypeOK
  /\ BirthsInPast
  /\ LeaseBacked

\* While nobody logs out, a row that was claimed is still the same row.
ClaimsLast ==
  \A w \in Worker : \A row \in claimed[w] :
    status[row[1]] # "none" /\ born[row[1]] = row[2]

\* The users of the tick of a worker that has not released its leases are
\* users it has claimed, not longer than MaxTickLength ago.
TickWithinClaim(w) ==
  /\ proc[w] = "down" => pc[w] = "claim"
  /\ Unreleased(w) /\ pc[w] \notin {"sleep", "claim"} =>
       /\ age[w] <= MaxTickLength
       /\ \A u \in todo[w] : <<u, born[u]>> \in claimed[w]
  /\ Unreleased(w) /\ pc[w] \in InLoop => <<current[w], born[current[w]]>> \in claimed[w]

SplitInv ==
  /\ LeaseInv
  /\ logouts = 0 => ClaimsLast /\ \A w \in Worker : TickWithinClaim(w)
=============================================================================
