---------------------------- MODULE AccountsProofs ----------------------------
(***************************************************************************)
(* Theorems about a user with several Telegram accounts (Accounts), for any *)
(* number of accounts, sources, logins, /add commands and faults, and any   *)
(* quota.                                                                   *)
(***************************************************************************)
EXTENDS Accounts, TLAPS

USE NobodyAssumption, NoSourceAssumption, BoundAssumption

-----------------------------------------------------------------------------
(* The inductive invariant *)

\* A tick has a client, and in the loop a source.
Ticking ==
  /\ wpc # "sleep" => client # NoSession
  /\ wpc = "mark" => client \in revoked
  /\ IF wpc \in {"fetch", "store", "error"} THEN current \in Remaining ELSE current = NoSource
  /\ wpc = "store" => auth[client] = snapshot[current].meta

\* The client is of the session in the row, or of one before it.
ClientKnown == client # NoSession /\ status # "none" => client = session \/ overtook

Full == Cardinality(Tracked) >= MaxSources

\* A handler has an update, and from the resolving on a session; what it has
\* joined it may make a row for.
Adding ==
  /\ bpc # "idle" => update \in Source /\ adds > 0
  /\ bpc \in {"resolve", "create"} => using # NoSession /\ ~ Full
  /\ bpc # "idle" /\ stray => ~ Full
  /\ JoinedIsTracked

\* The number of a row is not used again: the one that the handler would use
\* is in no copy, unless it is in the row.
Births ==
  \A c \in Source :
    /\ row[c].born <= adds
    /\ snapshot[c].born <= adds
    /\ bpc # "idle" /\ snapshot[c].born = adds => row[c].born = adds

\* The copy of a row that no other account has added again
CopiesOwned ==
  \A c \in Remaining \ switched : SameRow(c) =>
    /\ snapshot[c].meta = row[c].meta
    /\ snapshot[c].cursor \in {Nobody, row[c].meta}

IInv ==
  /\ TypeOK
  /\ Ticking
  /\ ClientKnown
  /\ ReauthExplained
  /\ Adding
  /\ Births
  /\ CopiesOwned
  /\ CursorsOwned

\* The parts of TypeOK
SessionTypes ==
  /\ auth \in Seq(Account) /\ Len(auth) <= MaxLogins
  /\ revoked \subseteq Sessions
  /\ overtook \in BOOLEAN
  /\ member \subseteq Account \X Private
  /\ session \in Sessions \cup {NoSession}
  /\ client \in Sessions \cup {NoSession}
  /\ using \in Sessions \cup {NoSession}
  /\ status \in {"none", "active", "needs_reauth"}
  /\ status = "none" <=> session = NoSession

RowTypes ==
  /\ row \in [Source -> Row \cup {NoRow}]
  /\ snapshot \in [Source -> Row \cup {NoRow}]
  /\ \A c \in Tracked : \E n \in Sessions : auth[n] = row[c].meta
  /\ switched \subseteq Tracked

TickTypes ==
  /\ conn \in BOOLEAN
  /\ conn => client # NoSession
  /\ wpc \in {"sleep", "connect", "mark", "next", "fetch", "store", "error"}
  /\ current \in Remaining \cup {NoSource}

BotTypes ==
  /\ update \in Source \cup {NoSource}
  /\ bpc \in {"idle", "quota", "resolve", "create", "done"}
  /\ reply \in {"none", "added", "limit", "login", "refused", "unresolved", "error"}
  /\ stray \in BOOLEAN
  /\ adds \in 0..MaxAdds
  /\ faults \in 0..MaxFaults

LEMMA TypeParts ==
  /\ TypeOK <=> SessionTypes /\ RowTypes /\ TickTypes /\ BotTypes
  /\ TypeOK' <=> SessionTypes' /\ RowTypes' /\ TickTypes' /\ BotTypes'
BY DEF TypeOK, SessionTypes, RowTypes, TickTypes, BotTypes

-----------------------------------------------------------------------------
(* The user and Telegram *)

LEMMA LoginStep ==
  ASSUME IInv, NEW a \in Account, Login(a)
  PROVE  IInv'
<1> USE TypeParts DEF sourceVars, workerVars, botVars
<1>1. /\ auth' = Append(auth, a) /\ Len(auth) < MaxLogins
      /\ session' = Len(auth) + 1
      /\ status' = "active"
      /\ overtook' = (client # NoSession)
      /\ UNCHANGED <<revoked, member, sourceVars, workerVars, botVars, faults>>
  BY DEF Login
<1>2. /\ auth \in Seq(Account) /\ auth' \in Seq(Account)
      /\ Len(auth') = Len(auth) + 1 /\ Len(auth) \in Nat
      /\ \A n \in Sessions : auth'[n] = auth[n]
      /\ Sessions' = Sessions \cup {Len(auth) + 1}
  BY <1>1 DEF IInv, SessionTypes, Sessions
<1>3. SessionTypes'
  BY <1>1, <1>2 DEF IInv, SessionTypes, NoSession
<1>4. RowTypes'
  BY <1>1, <1>2 DEF IInv, RowTypes, Tracked
<1>5. TickTypes' /\ BotTypes'
  BY <1>1 DEF IInv, TickTypes, BotTypes, Remaining
<1>6. Ticking'
  <2>1. client # NoSession => client \in Sessions
    BY DEF IInv, SessionTypes
  <2> QED BY <1>1, <1>2, <2>1 DEF IInv, Ticking, Remaining
<1>7. ClientKnown' /\ ReauthExplained' /\ Births' /\ Adding'
  BY <1>1 DEF IInv, ClientKnown, ReauthExplained, Births, Adding, JoinedIsTracked, Full, Tracked
<1>8. CopiesOwned' /\ CursorsOwned'
  BY <1>1 DEF IInv, CopiesOwned, CursorsOwned, Tracked, Remaining, SameRow
<1> QED BY <1>3, <1>4, <1>5, <1>6, <1>7, <1>8 DEF IInv

\* What a step leaves alone
LEMMA Undisturbed ==
  ASSUME IInv
  PROVE  /\ UNCHANGED <<auth, row, snapshot, switched>> => RowTypes' /\ CopiesOwned' /\ CursorsOwned'
         /\ UNCHANGED <<snapshot, conn, client, wpc, current>> => TickTypes'
         /\ UNCHANGED <<row, snapshot, botVars>> => Births' /\ Adding'
         /\ UNCHANGED <<botVars, faults>> => BotTypes'
         /\ UNCHANGED <<sessionVars, client>> /\ revoked \subseteq revoked' =>
              ClientKnown' /\ ReauthExplained'
         /\ UNCHANGED <<auth, snapshot, client, wpc, current>> /\ revoked \subseteq revoked' =>
              Ticking'
         /\ UNCHANGED <<tgVars, sessionVars, client, using>> => SessionTypes'
<1> USE TypeParts DEF IInv
<1>1. ASSUME UNCHANGED <<auth, row, snapshot, switched>> PROVE RowTypes' /\ CopiesOwned' /\ CursorsOwned'
  <2>1. RowTypes'
    BY <1>1 DEF RowTypes, Tracked, Sessions
  <2>2. CopiesOwned' /\ CursorsOwned'
    BY <1>1 DEF CopiesOwned, CursorsOwned, Tracked, Remaining, SameRow
  <2> QED BY <2>1, <2>2
<1>2. ASSUME UNCHANGED <<snapshot, conn, client, wpc, current>> PROVE TickTypes'
  BY <1>2 DEF TickTypes, Remaining
<1>3. ASSUME UNCHANGED <<row, snapshot, botVars>> PROVE Births' /\ Adding'
  BY <1>3 DEF Births, Adding, JoinedIsTracked, Full, Tracked, botVars
<1>4. ASSUME UNCHANGED <<botVars, faults>> PROVE BotTypes'
  BY <1>4 DEF BotTypes, botVars
<1>5. ASSUME UNCHANGED <<sessionVars, client>>, revoked \subseteq revoked'
      PROVE  ClientKnown' /\ ReauthExplained'
  BY <1>5 DEF ClientKnown, ReauthExplained, sessionVars
<1>6. ASSUME UNCHANGED <<auth, snapshot, client, wpc, current>>, revoked \subseteq revoked'
      PROVE  Ticking'
  BY <1>6 DEF Ticking, Remaining
<1>7. ASSUME UNCHANGED <<tgVars, sessionVars, client, using>> PROVE SessionTypes'
  BY <1>7 DEF SessionTypes, Sessions, tgVars, sessionVars
<1> QED BY <1>1, <1>2, <1>3, <1>4, <1>5, <1>6, <1>7

LEMMA LogoutStep ==
  ASSUME IInv, Logout
  PROVE  IInv'
<1> USE TypeParts, Undisturbed DEF tgVars, sourceVars, workerVars, botVars
<1>1. /\ session' = NoSession
      /\ status' = "none"
      /\ overtook' = FALSE
      /\ UNCHANGED <<tgVars, sourceVars, workerVars, botVars, faults>>
  BY DEF Logout
<1>2. SessionTypes' /\ ClientKnown' /\ ReauthExplained'
  BY <1>1 DEF IInv, SessionTypes, ClientKnown, ReauthExplained, Sessions
<1> QED BY <1>1, <1>2 DEF IInv

LEMMA RevokeStep ==
  ASSUME IInv, NEW n, Revoke(n)
  PROVE  IInv'
<1> USE TypeParts, Undisturbed DEF sessionVars, sourceVars, workerVars, botVars
<1>1. /\ n \in Sessions
      /\ revoked' = revoked \cup {n}
      /\ UNCHANGED <<auth, member, sessionVars, sourceVars, workerVars, botVars, faults>>
  BY DEF Revoke
<1>2. SessionTypes'
  BY <1>1 DEF IInv, SessionTypes, Sessions
<1> QED BY <1>1, <1>2 DEF IInv

LEMMA LoseConnectionStep ==
  ASSUME IInv, LoseConnection
  PROVE  IInv'
<1> USE TypeParts, Undisturbed DEF tgVars, sessionVars, sourceVars, botVars
<1>1. /\ conn' = FALSE
      /\ faults' = faults + 1 /\ faults < MaxFaults
      /\ UNCHANGED <<tgVars, sessionVars, sourceVars, client, wpc, snapshot, current, botVars>>
  BY DEF LoseConnection, Fault
<1>2. TickTypes'
  BY <1>1 DEF IInv, TickTypes, Remaining
<1>3. BotTypes'
  BY <1>1 DEF IInv, BotTypes
<1> QED BY <1>1, <1>2, <1>3 DEF IInv

-----------------------------------------------------------------------------
(* The worker *)

\* A row keeps its number and its account, and its cursor the numbering of it.
Updated(c, new) ==
  /\ new \in Row
  /\ new.born = row[c].born
  /\ new.meta = row[c].meta
  /\ c \notin switched => new.cursor \in {row[c].cursor, Nobody, row[c].meta}

LEMMA RowsUpdated ==
  ASSUME IInv, UNCHANGED <<auth, switched>>, UNCHANGED botVars,
         DOMAIN row' = Source, row' = [c \in Source |-> row'[c]],
         \A c \in Source : row'[c] = row[c] \/ (c \in Tracked /\ Updated(c, row'[c])),
         snapshot' \in [Source -> Row \cup {NoRow}],
         \A c \in Source : snapshot'[c] \in {snapshot[c], NoRow}
  PROVE  RowTypes' /\ Births' /\ Adding' /\ CopiesOwned' /\ CursorsOwned'
<1> USE TypeParts DEF IInv
<1>0. row \in [Source -> Row \cup {NoRow}] /\ snapshot \in [Source -> Row \cup {NoRow}]
  BY DEF RowTypes
<1>1. \A c \in Source : row'[c] \in Row \cup {NoRow}
  BY <1>0 DEF Updated
<1>2. row' \in [Source -> Row \cup {NoRow}]
  BY <1>1
<1>3. \A r \in Row : r.born \in 1..MaxAdds /\ r # NoRow
  BY DEF Row, NoRow
<1>4. Tracked' = Tracked /\ \A c \in Source : row'[c].born = row[c].born
  BY <1>3 DEF Tracked, Updated
<1>5. \A c \in Tracked : row'[c].meta = row[c].meta
  BY DEF Updated, Tracked
<1>6. RowTypes'
  BY <1>2, <1>4, <1>5 DEF RowTypes, Sessions
<1>7. Births'
  <2>1. adds \in Nat /\ (bpc # "idle" => adds > 0) /\ NoRow.born = 0
    BY DEF BotTypes, Adding, NoRow
  <2> QED BY <1>4, <2>1 DEF Births, botVars
<1>8. Adding'
  BY <1>4 DEF Adding, JoinedIsTracked, Full, botVars
<1>9. CursorsOwned'
  BY <1>4, <1>5 DEF CursorsOwned, Tracked, Updated
<1>10. CopiesOwned'
  BY <1>3, <1>4, <1>5 DEF CopiesOwned, Remaining, SameRow, RowTypes, Tracked
<1> QED BY <1>6, <1>7, <1>8, <1>9, <1>10

\* A step of the worker that leaves the rows alone
LEMMA RowsKept ==
  ASSUME IInv, UNCHANGED <<auth, switched, row>>, UNCHANGED botVars,
         snapshot' \in [Source -> Row \cup {NoRow}],
         \A c \in Source : snapshot'[c] \in {snapshot[c], NoRow}
  PROVE  RowTypes' /\ Births' /\ Adding' /\ CopiesOwned' /\ CursorsOwned'
<1>1. DOMAIN row' = Source /\ row' = [c \in Source |-> row'[c]]
  BY TypeParts DEF IInv, RowTypes
<1> QED BY <1>1, RowsUpdated

\* What it sets is the row that was listed.
LEMMA RowSet ==
  ASSUME IInv, UNCHANGED <<auth, switched>>, UNCHANGED botVars,
         NEW c \in Remaining, NEW new, SetRow(c, new), SameRow(c) => Updated(c, new),
         snapshot' \in [Source -> Row \cup {NoRow}],
         \A d \in Source : snapshot'[d] \in {snapshot[d], NoRow}
  PROVE  RowTypes' /\ Births' /\ Adding' /\ CopiesOwned' /\ CursorsOwned'
<1>1. row \in [Source -> Row \cup {NoRow}] /\ snapshot \in [Source -> Row \cup {NoRow}]
  BY TypeParts DEF IInv, RowTypes
<1>2. SameRow(c) => c \in Tracked
  BY <1>1 DEF SameRow, Remaining, Tracked, Row, NoRow
<1>3. /\ DOMAIN row' = Source /\ row' = [d \in Source |-> row'[d]]
      /\ \A d \in Source : row'[d] = row[d] \/ (d \in Tracked /\ Updated(d, row'[d]))
  BY <1>1, <1>2 DEF SetRow, Remaining
<1> QED BY <1>3, RowsUpdated

LEMMA TypesOfRows ==
  ASSUME IInv
  PROVE  /\ row \in [Source -> Row \cup {NoRow}] /\ snapshot \in [Source -> Row \cup {NoRow}]
         /\ \A c \in Tracked : row[c] \in Row
         /\ \A c \in Remaining : snapshot[c] \in Row /\ (SameRow(c) => c \in Tracked)
         /\ \A c \in Source : snapshot' = [snapshot EXCEPT ![c] = NoRow] =>
              /\ snapshot' \in [Source -> Row \cup {NoRow}]
              /\ \A d \in Source : snapshot'[d] \in {snapshot[d], NoRow}
              /\ Remaining' = Remaining \ {c}
<1>1. row \in [Source -> Row \cup {NoRow}] /\ snapshot \in [Source -> Row \cup {NoRow}]
  BY TypeParts DEF IInv, RowTypes
<1> QED BY <1>1 DEF SameRow, Remaining, Tracked, Row, NoRow

LEMMA BackoffEndsStep ==
  ASSUME IInv, NEW c \in Source, BackoffEnds(c)
  PROVE  IInv'
<1> USE TypeParts DEF tgVars, sessionVars, workerVars, botVars
<1>1. /\ c \in Tracked
      /\ row' = [row EXCEPT ![c].backoff = FALSE]
      /\ UNCHANGED <<tgVars, sessionVars, switched, workerVars, botVars, faults>>
  BY DEF BackoffEnds, Tracked
<1>2. row[c] \in Row /\ row \in [Source -> Row \cup {NoRow}]
  BY <1>1, TypesOfRows
<1>3. /\ DOMAIN row' = Source /\ row' = [d \in Source |-> row'[d]]
      /\ \A d \in Source : row'[d] = row[d] \/ (d \in Tracked /\ Updated(d, row'[d]))
  <2>1. Updated(c, row'[c])
    BY <1>1, <1>2 DEF Updated, Row
  <2> QED BY <1>1, <1>2, <2>1
<1>4. RowTypes' /\ Births' /\ Adding' /\ CopiesOwned' /\ CursorsOwned'
  BY <1>1, <1>3, TypesOfRows, RowsUpdated
<1> QED BY <1>1, <1>4, Undisturbed DEF IInv

LEMMA ClaimStep ==
  ASSUME IInv, Claim
  PROVE  IInv'
<1> USE TypeParts DEF tgVars, sessionVars, workerVars, botVars
<1>1. /\ wpc = "sleep"
      /\ UNCHANGED <<tgVars, session, overtook, status, switched, botVars, row, snapshot, current, faults>>
  BY DEF Claim, Tick, Step
<1>2. \/ /\ status = "active" /\ wpc' = "connect" /\ UNCHANGED conn
         /\ client' = IF client = NoSession THEN session ELSE client
      \/ client' = NoSession /\ conn' = FALSE /\ wpc' = "sleep"
  BY <1>1 DEF Claim, Goto, Disconnect
<1>3. SessionTypes'
  BY <1>1, <1>2 DEF IInv, SessionTypes, Sessions
<1>4. TickTypes' /\ Ticking'
  BY <1>1, <1>2 DEF IInv, SessionTypes, TickTypes, Ticking, Remaining
<1>5. ClientKnown' /\ ReauthExplained'
  BY <1>1, <1>2 DEF IInv, ClientKnown, ReauthExplained
<1>6. RowTypes' /\ Births' /\ Adding' /\ CopiesOwned' /\ CursorsOwned' /\ BotTypes'
  BY <1>1, Undisturbed
<1> QED BY <1>3, <1>4, <1>5, <1>6 DEF IInv

LEMMA ConnectStep ==
  ASSUME IInv, Connect
  PROVE  IInv'
<1> USE TypeParts DEF tgVars, sessionVars, workerVars, botVars
<1>1. /\ wpc = "connect" /\ wpc' = "next"
      /\ conn' = TRUE
      /\ snapshot' = row
      /\ UNCHANGED <<tgVars, session, overtook, switched, botVars>>
      /\ UNCHANGED <<client, status, row, current, faults>>
  BY DEF Connect, Step, Goto
<1>2. RowTypes' /\ Births' /\ CopiesOwned' /\ CursorsOwned'
  <2>1. RowTypes' /\ Births'
    BY <1>1 DEF IInv, RowTypes, Births, Tracked, Sessions
  <2>2. CursorsOwned'
    BY <1>1 DEF IInv, CursorsOwned, Tracked
  <2>3. CopiesOwned'
    BY <1>1 DEF IInv, CopiesOwned, CursorsOwned, Tracked, Remaining
  <2> QED BY <2>1, <2>2, <2>3
<1>3. TickTypes' /\ Ticking'
  BY <1>1 DEF IInv, TickTypes, Ticking, Remaining
<1>4. SessionTypes' /\ ClientKnown' /\ ReauthExplained' /\ BotTypes'
  BY <1>1, Undisturbed
<1>5. Adding'
  BY <1>1 DEF IInv, Adding, JoinedIsTracked, Full, Tracked
<1> QED BY <1>2, <1>3, <1>4, <1>5 DEF IInv

LEMMA ConnectDeniedStep ==
  ASSUME IInv, ConnectDenied
  PROVE  IInv'
<1> USE TypeParts DEF tgVars, sessionVars, workerVars, botVars
<1>1. /\ wpc = "connect" /\ wpc' = "mark"
      /\ client \in revoked
      /\ UNCHANGED <<tgVars, session, overtook, switched, botVars>>
      /\ UNCHANGED <<client, conn, status, row, snapshot, current, faults>>
  BY DEF ConnectDenied, Tick, Step, Goto, AuthError
<1>2. TickTypes' /\ Ticking'
  BY <1>1 DEF IInv, TickTypes, Ticking, Remaining
<1>3. /\ SessionTypes' /\ ClientKnown' /\ ReauthExplained' /\ BotTypes'
      /\ RowTypes' /\ Births' /\ Adding' /\ CopiesOwned' /\ CursorsOwned'
  BY <1>1, Undisturbed
<1> QED BY <1>2, <1>3 DEF IInv

LEMMA MarkReauthStep ==
  ASSUME IInv, MarkReauth
  PROVE  IInv'
<1> USE TypeParts DEF tgVars, sessionVars, workerVars, botVars
<1>1. /\ wpc = "mark" /\ wpc' = "sleep"
      /\ status' = IF status = "none" THEN "none" ELSE "needs_reauth"
      /\ client' = NoSession /\ conn' = FALSE
      /\ UNCHANGED <<tgVars, session, overtook, switched, botVars>>
      /\ UNCHANGED <<row, snapshot, current, faults>>
  BY DEF MarkReauth, Tick, Step, Goto, Disconnect
<1>2. TickTypes' /\ Ticking'
  BY <1>1 DEF IInv, TickTypes, Ticking, Remaining
\* The client that was refused is of the session that is marked, or of one
\* that it overtook.
<1>3. ReauthExplained' /\ ClientKnown'
  BY <1>1 DEF IInv, Ticking, ClientKnown, ReauthExplained
<1>4. SessionTypes'
  BY <1>1 DEF IInv, SessionTypes, Sessions
<1>5. RowTypes' /\ Births' /\ Adding' /\ CopiesOwned' /\ CursorsOwned' /\ BotTypes'
  BY <1>1, Undisturbed
<1> QED BY <1>2, <1>3, <1>4, <1>5 DEF IInv

\* In the loop over the sources, only the rows and the place in the loop change.
LEMMA LoopKeeps ==
  ASSUME IInv, NEW location, Loop(location)
  PROVE  /\ UNCHANGED <<auth, switched>> /\ UNCHANGED botVars
         /\ SessionTypes' /\ ClientKnown' /\ ReauthExplained' /\ BotTypes'
BY Undisturbed DEF Loop, Step, tgVars, sessionVars, botVars

LEMMA StartSourceStep ==
  ASSUME IInv, StartSource
  PROVE  IInv'
<1> USE TypeParts
<1>1. /\ wpc = "next" /\ Loop("next")
      /\ UNCHANGED <<auth, revoked, client, conn>>
  BY DEF StartSource, Loop, Step, tgVars
<1>2. PICK c \in Remaining :
        \/ /\ SetRow(c, [row[c] EXCEPT !.sync = "syncing", !.backoff = FALSE])
           /\ current' = c
           /\ wpc' = "fetch"
           /\ UNCHANGED snapshot
        \/ /\ snapshot' = [snapshot EXCEPT ![c] = NoRow]
           /\ UNCHANGED <<row, current, wpc>>
  BY DEF StartSource, Goto
<1>3. c \in Source /\ (SameRow(c) => row[c] \in Row)
  BY TypesOfRows DEF Remaining
<1>4. SameRow(c) => Updated(c, [row[c] EXCEPT !.sync = "syncing", !.backoff = FALSE])
  BY <1>3 DEF Updated, Row
<1>5. snapshot' \in [Source -> Row \cup {NoRow}] /\ \A d \in Source : snapshot'[d] \in {snapshot[d], NoRow}
  BY <1>2, <1>3, TypesOfRows
<1>6. RowTypes' /\ Births' /\ Adding' /\ CopiesOwned' /\ CursorsOwned'
  BY <1>1, <1>2, <1>4, <1>5, RowSet, RowsKept, LoopKeeps
<1>7. TickTypes' /\ Ticking'
  BY <1>1, <1>2, <1>3 DEF IInv, TickTypes, Ticking, Remaining
<1> QED BY <1>1, <1>6, <1>7, LoopKeeps DEF IInv

LEMMA FetchStep ==
  ASSUME IInv, Fetch
  PROVE  IInv'
<1> USE TypeParts
<1>1. /\ wpc = "fetch" /\ Loop("fetch")
      /\ wpc' \in {"store", "error"}
      /\ wpc' = "store" => auth[client] = snapshot[current].meta
      /\ UNCHANGED <<row, snapshot, current>>
      /\ UNCHANGED <<auth, revoked, client, conn>>
  BY DEF Fetch, Loop, Step, Goto, Readable, tgVars
<1>2. TickTypes' /\ Ticking'
  BY <1>1 DEF IInv, TickTypes, Ticking, Remaining
<1>3. RowTypes' /\ Births' /\ Adding' /\ CopiesOwned' /\ CursorsOwned'
  BY <1>1, LoopKeeps, Undisturbed
<1> QED BY <1>1, <1>2, <1>3, LoopKeeps DEF IInv

\* The loop is done with a source.
LEMMA NextSourceStep ==
  ASSUME IInv, NEW location, Loop(location), NextSource, wpc \in {"store", "error"},
         NEW new, SetRow(current, new), SameRow(current) => Updated(current, new)
  PROVE  IInv'
<1> USE TypeParts
<1>1. /\ wpc' = "next" /\ current' = NoSource
      /\ snapshot' = [snapshot EXCEPT ![current] = NoRow]
      /\ UNCHANGED <<auth, revoked, client, conn>>
  BY DEF NextSource, Goto, Loop, Step, tgVars
<1>2. current \in Remaining /\ current \in Source
  BY DEF IInv, Ticking, Remaining
<1>3. RowTypes' /\ Births' /\ Adding' /\ CopiesOwned' /\ CursorsOwned'
  <2>1. snapshot' \in [Source -> Row \cup {NoRow}] /\ \A d \in Source : snapshot'[d] \in {snapshot[d], NoRow}
    BY <1>1, <1>2, TypesOfRows
  <2> QED BY <1>2, <2>1, RowSet, LoopKeeps
<1>4. TickTypes' /\ Ticking'
  BY <1>1 DEF IInv, TickTypes, Ticking
<1> QED BY <1>3, <1>4, LoopKeeps DEF IInv

LEMMA StoreStep ==
  ASSUME IInv, Store
  PROVE  IInv'
<1> USE TypeParts
<1>1. PICK a \in Numbering(current) :
        SetRow(current, [row[current] EXCEPT !.cursor = a, !.sync = "idle", !.backoff = FALSE])
  BY DEF Store
<1>2. /\ wpc = "store" /\ Loop("store") /\ NextSource
      /\ current \in Remaining /\ current \in Source
      /\ auth[client] = snapshot[current].meta
  BY DEF Store, Loop, Step, IInv, Ticking, Remaining
<1>3. ASSUME SameRow(current)
      PROVE  Updated(current, [row[current] EXCEPT !.cursor = a, !.sync = "idle", !.backoff = FALSE])
  <2>1. row[current] \in Row /\ snapshot[current] \in Row
    BY <1>2, <1>3, TypesOfRows
  <2>2. a \in {Nobody, snapshot[current].cursor, snapshot[current].meta}
    BY <1>1, <1>2 DEF Numbering
  <2>3. current \notin switched => a \in {Nobody, row[current].meta}
    BY <1>2, <1>3, <2>2 DEF IInv, CopiesOwned
  <2> QED BY <2>1, <2>2, <2>3 DEF Updated, Row
<1> QED BY <1>1, <1>2, <1>3, NextSourceStep

LEMMA HandleSourceErrorStep ==
  ASSUME IInv, HandleSourceError
  PROVE  IInv'
<1>1. /\ wpc = "error" /\ Loop("error") /\ NextSource
      /\ SetRow(current, [row[current] EXCEPT !.sync = "error", !.backoff = TRUE])
      /\ current \in Remaining
  BY DEF HandleSourceError, ErrorStatus, Loop, Step, IInv, Ticking
<1>2. SameRow(current) => Updated(current, [row[current] EXCEPT !.sync = "error", !.backoff = TRUE])
  <2>1. SameRow(current) => row[current] \in Row
    BY <1>1, TypesOfRows
  <2> QED BY <2>1 DEF Updated, Row
<1> QED BY <1>1, <1>2, NextSourceStep

LEMMA EndTickStep ==
  ASSUME IInv, EndTick
  PROVE  IInv'
<1> USE TypeParts
<1>1. /\ wpc = "next" /\ wpc' = "sleep" /\ Loop("next")
      /\ UNCHANGED <<row, snapshot, current, auth, revoked, client, conn>>
  BY DEF EndTick, Loop, Step, Goto, tgVars
<1>2. TickTypes' /\ Ticking'
  BY <1>1 DEF IInv, TickTypes, Ticking, Remaining
<1>3. RowTypes' /\ Births' /\ Adding' /\ CopiesOwned' /\ CursorsOwned'
  BY <1>1, LoopKeeps, Undisturbed
<1> QED BY <1>1, <1>2, <1>3, LoopKeeps DEF IInv

LEMMA WorkerFailsStep ==
  ASSUME IInv, WorkerFails
  PROVE  IInv'
<1> USE TypeParts DEF tgVars, sessionVars, botVars
<1>1. /\ faults' = faults + 1 /\ faults < MaxFaults
      /\ UNCHANGED <<tgVars, session, overtook, switched, botVars>>
      /\ UNCHANGED <<client, conn, status, row>>
  BY DEF WorkerFails, Step, Fault
<1>2. CASE wpc \in {"next", "fetch", "store"}
  <2>1. /\ wpc' = "error" /\ UNCHANGED snapshot
        /\ IF wpc = "next" THEN current' \in Remaining ELSE current' = current
    BY <1>2 DEF WorkerFails, Goto
  <2>2. TickTypes' /\ Ticking'
    BY <1>1, <2>1, <1>2 DEF IInv, TickTypes, Ticking, Remaining
  <2>3. /\ SessionTypes' /\ ClientKnown' /\ ReauthExplained'
        /\ RowTypes' /\ Births' /\ Adding' /\ CopiesOwned' /\ CursorsOwned'
    BY <1>1, <2>1, Undisturbed
  <2>4. BotTypes'
    BY <1>1 DEF IInv, BotTypes
  <2> QED BY <2>2, <2>3, <2>4 DEF IInv
<1>3. CASE LeaveUser
  <2>1. /\ wpc' = "sleep"
        /\ snapshot' = [c \in Source |-> NoRow]
        /\ current' = NoSource
    BY <1>3 DEF LeaveUser, Goto
  <2>2. TickTypes' /\ Ticking'
    BY <1>1, <2>1 DEF IInv, TickTypes, Ticking
  <2>3. BotTypes'
    BY <1>1 DEF IInv, BotTypes
  <2>4. SessionTypes' /\ ClientKnown' /\ ReauthExplained'
    BY <1>1 DEF IInv, SessionTypes, ClientKnown, ReauthExplained, Sessions
  <2>5. RowTypes' /\ Births' /\ Adding' /\ CopiesOwned' /\ CursorsOwned'
    BY <1>1, <2>1, RowsKept
  <2> QED BY <2>2, <2>3, <2>4, <2>5 DEF IInv
<1> QED BY <1>2, <1>3 DEF WorkerFails

LEMMA WorkerCrashStep ==
  ASSUME IInv, WorkerCrash
  PROVE  IInv'
<1> USE TypeParts DEF tgVars, sessionVars, botVars
<1>1. /\ client' = NoSession /\ conn' = FALSE
      /\ wpc' = "sleep"
      /\ snapshot' = [c \in Source |-> NoRow]
      /\ current' = NoSource
      /\ faults' = faults + 1 /\ faults < MaxFaults
      /\ UNCHANGED <<tgVars, session, overtook, switched, botVars, status, row>>
  BY DEF WorkerCrash, LeaveUser, Step, Fault, Goto, Disconnect
<1>2. TickTypes' /\ Ticking'
  BY <1>1 DEF TickTypes, Ticking
<1>3. BotTypes'
  BY <1>1 DEF IInv, BotTypes
<1>4. SessionTypes' /\ ClientKnown' /\ ReauthExplained'
  BY <1>1 DEF IInv, SessionTypes, ClientKnown, ReauthExplained, Sessions
<1>5. RowTypes' /\ Births' /\ Adding' /\ CopiesOwned' /\ CursorsOwned'
  BY <1>1, RowsKept
<1> QED BY <1>2, <1>3, <1>4, <1>5 DEF IInv

-----------------------------------------------------------------------------
(* The bot *)

\* A handler leaves sessions and the worker alone.
LEMMA HandlingKeeps ==
  ASSUME IInv, NEW location, Handling(location)
  PROVE  /\ bpc = location
         /\ TickTypes' /\ Ticking' /\ ClientKnown' /\ ReauthExplained'
         /\ UNCHANGED <<auth, revoked, snapshot, session, status, overtook, client>>
         /\ UNCHANGED <<row, switched>> => RowTypes' /\ CopiesOwned' /\ CursorsOwned'
         /\ member' \subseteq Account \X Private /\ using' \in {using, session, NoSession} =>
              SessionTypes'
<1>1. /\ bpc = location
      /\ UNCHANGED <<auth, revoked, sessionVars, workerVars>>
  BY DEF Handling
<1>2. UNCHANGED <<auth, revoked, snapshot, session, status, overtook, client, conn, wpc, current>>
  BY <1>1 DEF sessionVars, workerVars
<1>3. TickTypes' /\ Ticking' /\ ClientKnown' /\ ReauthExplained'
  BY <1>2, Undisturbed DEF sessionVars
<1>4. UNCHANGED <<row, switched>> => RowTypes' /\ CopiesOwned' /\ CursorsOwned'
  BY <1>2, Undisturbed
<1>5. ASSUME member' \subseteq Account \X Private, using' \in {using, session, NoSession}
      PROVE  SessionTypes'
  BY <1>2, <1>5, TypeParts DEF IInv, SessionTypes, Sessions
<1> QED BY <1>1, <1>2, <1>3, <1>4, <1>5

LEMMA ReceiveStep ==
  ASSUME IInv, NEW c \in Source, Receive(c)
  PROVE  IInv'
<1> USE TypeParts
<1>1. /\ Handling("idle")
      /\ adds < MaxAdds /\ adds' = adds + 1
      /\ update' = c
      /\ bpc' = "quota"
      /\ stray' = FALSE
      /\ UNCHANGED <<member, row, switched, using, reply, faults>>
  BY DEF Receive, sourceVars
<1>2. adds \in Nat
  BY DEF IInv, BotTypes
<1>3. BotTypes' /\ Adding'
  <2>1. adds' \in 0..MaxAdds /\ adds' > 0
    BY <1>1, <1>2
  <2>2. BotTypes'
    BY <1>1, <2>1 DEF IInv, BotTypes
  <2>3. Adding'
    BY <1>1, <2>1 DEF Adding, JoinedIsTracked
  <2> QED BY <2>2, <2>3
<1>4. Births'
  <2>1. \A d \in Source : row[d].born \in 0..adds /\ snapshot[d].born \in 0..adds
    BY TypesOfRows DEF IInv, Births, Row, NoRow
  <2> QED BY <1>1, <1>2, <2>1, HandlingKeeps DEF Births
<1>5. SessionTypes'
  BY <1>1, HandlingKeeps DEF IInv, SessionTypes
<1> QED BY <1>1, <1>3, <1>4, <1>5, HandlingKeeps DEF IInv

\* The handler goes on, or answers, and makes no row.
LEMMA BotStep ==
  ASSUME IInv, NEW location, Handling(location), location # "idle",
         bpc' \in {"quota", "resolve", "create", "done"},
         bpc' \in {"resolve", "create"} => using' # NoSession /\ ~ Full,
         using' \in {using, session, NoSession},
         stray' \in BOOLEAN, stray' => stray \/ ~ Full,
         bpc' = "done" /\ stray' => reply' \in {"error", "login", "refused"},
         reply' \in {"none", "added", "limit", "login", "refused", "unresolved", "error"},
         member' \subseteq Account \X Private,
         faults' \in 0..MaxFaults,
         UNCHANGED <<row, switched, update, adds>>
  PROVE  IInv'
<1> USE TypeParts
<1>1. BotTypes'
  BY DEF IInv, BotTypes
<1>2. Adding'
  BY HandlingKeeps DEF IInv, Adding, JoinedIsTracked, Full, Tracked
<1>3. Births'
  BY HandlingKeeps DEF IInv, Births
<1> QED BY <1>1, <1>2, <1>3, HandlingKeeps DEF IInv

LEMMA OpenSessionStep ==
  ASSUME IInv, OpenSession
  PROVE  IInv'
<1>1. /\ Handling("quota")
      /\ UNCHANGED <<member, row, switched, stray, faults, update, adds>>
      /\ \/ Full /\ bpc' = "done" /\ reply' = "limit" /\ using' = NoSession
         \/ bpc' = "done" /\ reply' = "login" /\ using' = NoSession
         \/ /\ ~ Full /\ status = "active"
            /\ bpc' = "resolve" /\ using' = session /\ UNCHANGED reply
  BY DEF OpenSession, Answer, Proceed, Full, sourceVars
<1>2. /\ member \subseteq Account \X Private /\ stray \in BOOLEAN /\ faults \in 0..MaxFaults
      /\ reply \in {"none", "added", "limit", "login", "refused", "unresolved", "error"}
      /\ status = "active" => session # NoSession
  BY TypeParts DEF IInv, SessionTypes, BotTypes
<1>3. Full => ~ stray
  BY <1>1, HandlingKeeps DEF IInv, Adding
<1> QED BY <1>1, <1>2, <1>3, BotStep

LEMMA BotOperands ==
  ASSUME IInv
  PROVE  /\ member \subseteq Account \X Private /\ stray \in BOOLEAN
         /\ update \in Source \cup {NoSource} /\ faults \in 0..MaxFaults /\ adds \in 0..MaxAdds
         /\ reply \in {"none", "added", "limit", "login", "refused", "unresolved", "error"}
         /\ auth \in Seq(Account) /\ using \in Sessions \cup {NoSession}
         /\ using # NoSession => using \in Sessions /\ auth[using] \in Account
         /\ bpc \in {"resolve", "create"} => using # NoSession /\ ~ Full
         /\ bpc # "idle" => adds > 0 /\ update \in Source /\ (stray => ~ Full)
<1>1. SessionTypes /\ BotTypes /\ Adding
  BY TypeParts DEF IInv
<1>2. using \in Sessions => auth[using] \in Account
  BY <1>1 DEF SessionTypes, Sessions
<1> QED BY <1>1, <1>2 DEF SessionTypes, BotTypes, Adding

LEMMA ResolveDeniedStep ==
  ASSUME IInv, ResolveDenied
  PROVE  IInv'
<1>1. /\ Handling("resolve")
      /\ bpc' = "done" /\ reply' = "refused" /\ using' = NoSession
      /\ UNCHANGED <<update, adds, member, row, switched, stray, faults>>
  BY DEF ResolveDenied, Answer, sourceVars
<1> QED BY <1>1, BotOperands, BotStep

LEMMA ResolveUsernameStep ==
  ASSUME IInv, ResolveUsername
  PROVE  IInv'
<1>1. /\ Handling("resolve")
      /\ bpc' = "create"
      /\ UNCHANGED <<update, reply, adds, member, row, switched, using, stray, faults>>
  BY DEF ResolveUsername, Proceed, sourceVars
<1>2. bpc = "resolve"
  BY <1>1 DEF Handling
<1> QED BY <1>1, <1>2, BotOperands, BotStep

LEMMA JoinByInviteStep ==
  ASSUME IInv, JoinByInvite
  PROVE  IInv'
<1>1. /\ Handling("resolve")
      /\ update \in Private
      /\ member' = member \cup {<<auth[using], update>>}
      /\ stray' = TRUE
      /\ bpc' = "create"
      /\ UNCHANGED <<update, reply, adds, row, switched, using, faults>>
  BY DEF JoinByInvite, Proceed, sourceVars
<1>2. bpc = "resolve"
  BY <1>1 DEF Handling
<1>3. member' \subseteq Account \X Private
  BY <1>1, <1>2, BotOperands
<1> QED BY <1>1, <1>2, <1>3, BotOperands, BotStep

LEMMA AlreadyParticipantStep ==
  ASSUME IInv, AlreadyParticipant
  PROVE  IInv'
<1>1. /\ Handling("resolve")
      /\ bpc' = "create"
      /\ UNCHANGED <<update, reply, adds, member, row, switched, using, stray, faults>>
  BY DEF AlreadyParticipant, CheckInvite, Proceed, sourceVars
<1>2. bpc = "resolve"
  BY <1>1 DEF Handling
<1> QED BY <1>1, <1>2, BotOperands, BotStep

LEMMA BotFailsStep ==
  ASSUME IInv, BotFails
  PROVE  IInv'
<1>1. /\ Handling(bpc) /\ bpc # "idle"
      /\ faults < MaxFaults /\ faults' = faults + 1
      /\ bpc' = "done" /\ reply' = "error" /\ using' = NoSession
      /\ UNCHANGED <<update, adds, member, row, switched, stray>>
  BY DEF BotFails, Fault, Answer, sourceVars
<1>2. faults' \in 0..MaxFaults
  BY <1>1, BotOperands
<1> QED BY <1>1, <1>2, BotOperands, BotStep

LEMMA BotCrashStep ==
  ASSUME IInv, BotCrash
  PROVE  IInv'
<1>1. /\ Handling(bpc) /\ bpc # "idle"
      /\ faults < MaxFaults /\ faults' = faults + 1
      /\ bpc' = "quota" /\ reply' = "none" /\ using' = NoSession
      /\ UNCHANGED <<update, adds, member, row, switched, stray>>
  BY DEF BotCrash, Fault, sourceVars
<1>2. faults' \in 0..MaxFaults
  BY <1>1, BotOperands
<1> QED BY <1>1, <1>2, BotOperands, BotStep

LEMMA ConfirmStep ==
  ASSUME IInv, Confirm
  PROVE  IInv'
<1> USE TypeParts
<1>1. /\ Handling("done")
      /\ bpc' = "idle" /\ update' = NoSource /\ reply' = "none"
      /\ UNCHANGED <<member, row, switched, using, stray, adds, faults>>
  BY DEF Confirm, sourceVars
<1>2. BotTypes'
  BY <1>1 DEF IInv, BotTypes
<1>3. Adding'
  BY <1>1 DEF Adding, JoinedIsTracked
<1>4. Births'
  BY <1>1, HandlingKeeps DEF IInv, Births
<1>5. SessionTypes'
  BY <1>1, BotOperands, HandlingKeeps
<1> QED BY <1>1, <1>2, <1>3, <1>4, <1>5, HandlingKeeps DEF IInv

\* A row that is made has a number of its own, one that is there keeps it.
LEMMA CreateSourceStep ==
  ASSUME IInv, CreateSource
  PROVE  IInv'
<1> USE TypeParts
<1> DEFINE c == update
           a == auth[using]
<1>1. /\ Handling("create")
      /\ row' = [row EXCEPT ![c] =
                   IF @ = NoRow THEN [born |-> adds, meta |-> a, cursor |-> Nobody,
                                      sync |-> "idle", backoff |-> FALSE]
                                ELSE [@ EXCEPT !.meta = a]]
      /\ switched' = switched \cup {d \in {c} : row[d] # NoRow /\ row[d].meta # a}
      /\ stray' = FALSE
      /\ bpc' = "done" /\ reply' = "added" /\ using' = NoSession
      /\ UNCHANGED <<update, adds, member, faults>>
  BY DEF CreateSource, Answer
<1>2. bpc = "create" /\ UNCHANGED <<auth, snapshot>>
  BY <1>1, HandlingKeeps
<1>3. /\ using \in Sessions /\ a \in Account
      /\ c \in Source /\ adds \in 1..MaxAdds
  BY <1>2, BotOperands
<1>4. /\ row \in [Source -> Row \cup {NoRow}] /\ snapshot \in [Source -> Row \cup {NoRow}]
      /\ \A d \in Tracked : row[d] \in Row
      /\ \A d \in Remaining : snapshot[d] \in Row
  BY TypesOfRows
<1>5. \A r \in Row : r.born \in 1..MaxAdds /\ r # NoRow
  BY DEF Row, NoRow
<1>6. /\ row'[c] \in Row
      /\ row'[c].meta = a
      /\ IF row[c] = NoRow THEN row'[c].born = adds /\ row'[c].cursor = Nobody
         ELSE row'[c].born = row[c].born /\ row'[c].cursor = row[c].cursor
      /\ \A d \in Source \ {c} : row'[d] = row[d]
      /\ DOMAIN row' = Source /\ row' = [d \in Source |-> row'[d]]
  <2>0. /\ \A d \in Source \ {c} : row'[d] = row[d]
        /\ DOMAIN row' = Source /\ row' = [d \in Source |-> row'[d]]
    BY <1>1, <1>4
  <2>1. CASE row[c] = NoRow
    <3>1. row'[c] = [born |-> adds, meta |-> a, cursor |-> Nobody, sync |-> "idle", backoff |-> FALSE]
      BY <1>1, <1>3, <1>4, <2>1
    <3>2. row'[c] \in Row
      BY <1>3, <3>1 DEF Row
    <3>3. row'[c].meta = a /\ row'[c].born = adds /\ row'[c].cursor = Nobody
      BY <3>1
    <3> QED BY <2>0, <2>1, <3>2, <3>3
  <2>2. CASE row[c] # NoRow
    <3>1. row'[c] = [row[c] EXCEPT !.meta = a] /\ row[c] \in Row
      BY <1>1, <1>3, <1>4, <2>2
    <3>2. row'[c] \in Row
      BY <1>3, <3>1 DEF Row
    <3>3. row'[c].meta = a /\ row'[c].born = row[c].born /\ row'[c].cursor = row[c].cursor
      BY <3>1 DEF Row
    <3> QED BY <2>0, <2>2, <3>2, <3>3
  <2> QED BY <2>1, <2>2
<1>7. Tracked' = Tracked \cup {c} /\ switched \subseteq switched'
  BY <1>1, <1>3, <1>5, <1>6 DEF Tracked
<1>8. RowTypes'
  <2>1. row' \in [Source -> Row \cup {NoRow}]
    BY <1>4, <1>6
  <2>2. \A d \in Tracked' : \E n \in Sessions' : auth'[n] = row'[d].meta
    BY <1>2, <1>3, <1>6, <1>7 DEF IInv, RowTypes, Sessions, Tracked
  <2>3. switched' \subseteq Tracked'
    BY <1>1, <1>7 DEF IInv, RowTypes
  <2> QED BY <1>2, <1>4, <2>1, <2>2, <2>3 DEF RowTypes
<1>9. BotTypes' /\ Adding'
  <2>1. BotTypes'
    BY <1>1 DEF IInv, BotTypes
  <2>2. Adding'
    BY <1>1, <1>3 DEF Adding, JoinedIsTracked
  <2> QED BY <2>1, <2>2
<1>10. NoRow.born = 0
  BY DEF NoRow
<1>11. Births'
  BY <1>1, <1>2, <1>3, <1>6, <1>10 DEF IInv, Births
<1>12. row[c] = NoRow => row'[c].born # snapshot[c].born
  BY <1>2, <1>3, <1>6, <1>10 DEF IInv, Births
<1>13. c \notin switched' /\ row[c] # NoRow => row[c].meta = a
  BY <1>1
<1>14. CopiesOwned'
  BY <1>2, <1>3, <1>6, <1>7, <1>12, <1>13 DEF IInv, CopiesOwned, Remaining, SameRow
<1>15. CursorsOwned'
  BY <1>3, <1>6, <1>7, <1>13 DEF IInv, CursorsOwned, Tracked
<1>16. SessionTypes'
  BY <1>1, BotOperands, HandlingKeeps
<1> QED BY <1>1, <1>8, <1>9, <1>11, <1>14, <1>15, <1>16, HandlingKeeps DEF IInv

LEMMA RemoveStep ==
  ASSUME IInv, NEW c \in Source, Remove(c)
  PROVE  IInv'
<1> USE TypeParts
<1>1. /\ Handling("idle")
      /\ c \in Tracked
      /\ row' = [row EXCEPT ![c] = NoRow]
      /\ switched' = switched \ {c}
      /\ UNCHANGED <<member, botVars, faults>>
  BY DEF Remove
<1>2. bpc = "idle" /\ bpc' = "idle" /\ UNCHANGED <<auth, snapshot, adds, using>>
  BY <1>1, HandlingKeeps DEF botVars
<1>3. /\ row \in [Source -> Row \cup {NoRow}] /\ snapshot \in [Source -> Row \cup {NoRow}]
      /\ \A d \in Remaining : snapshot[d] \in Row
  BY TypesOfRows
<1>4. /\ row'[c] = NoRow
      /\ \A d \in Source \ {c} : row'[d] = row[d]
      /\ row' \in [Source -> Row \cup {NoRow}]
  BY <1>1, <1>3
<1>5. Tracked' = Tracked \ {c}
  BY <1>4 DEF Tracked
<1>6. RowTypes'
  BY <1>1, <1>2, <1>3, <1>4, <1>5 DEF IInv, RowTypes, Sessions, Tracked
<1>7. BotTypes' /\ Adding'
  BY <1>1, <1>2 DEF IInv, BotTypes, Adding, JoinedIsTracked, botVars
<1>8. NoRow.born = 0 /\ adds \in Nat
  BY BotOperands DEF NoRow
<1>9. Births'
  BY <1>2, <1>4, <1>8 DEF IInv, Births
<1>10. \A r \in Row : r.born > 0
  BY DEF Row
<1>11. CopiesOwned'
  BY <1>1, <1>2, <1>3, <1>4, <1>8, <1>10 DEF IInv, CopiesOwned, Remaining, SameRow
<1>12. CursorsOwned'
  BY <1>1, <1>4, <1>5 DEF IInv, CursorsOwned, Tracked
<1>13. SessionTypes'
  BY <1>1, <1>2, BotOperands, HandlingKeeps
<1> QED BY <1>6, <1>7, <1>9, <1>11, <1>12, <1>13, <1>1, HandlingKeeps DEF IInv

-----------------------------------------------------------------------------
(* The theorems *)

LEMMA Initially ==
  ASSUME Init
  PROVE  IInv
<1>1. /\ auth = <<>> /\ Len(auth) = 0 /\ auth \in Seq(Account) /\ Sessions = {}
      /\ Tracked = {} /\ Remaining = {}
  BY DEF Init, Sessions, Tracked, Remaining
<1>2. TypeOK
  <2>1. SessionTypes
    <3>1. Len(auth) <= MaxLogins
      BY <1>1
    <3>2. /\ revoked = {} /\ member = {} /\ overtook = FALSE /\ status = "none"
          /\ session = NoSession /\ client = NoSession /\ using = NoSession
      BY DEF Init
    <3> QED BY <1>1, <3>1, <3>2 DEF SessionTypes
  <2>2. RowTypes
    BY <1>1 DEF Init, RowTypes
  <2>3. TickTypes
    BY DEF Init, TickTypes
  <2>4. BotTypes
    <3>1. /\ update = NoSource /\ bpc = "idle" /\ reply = "none" /\ stray = FALSE
          /\ adds = 0 /\ faults = 0
      BY DEF Init
    <3>2. 0 \in 0..MaxAdds /\ 0 \in 0..MaxFaults
      OBVIOUS
    <3> QED BY <3>1, <3>2 DEF BotTypes
  <2> QED BY <2>1, <2>2, <2>3, <2>4, TypeParts
<1>3. Ticking /\ ClientKnown /\ ReauthExplained /\ Adding /\ CopiesOwned /\ CursorsOwned
  BY <1>1 DEF Init, Ticking, ClientKnown, ReauthExplained, Adding, JoinedIsTracked,
              CopiesOwned, CursorsOwned
<1>4. Births
  BY DEF Init, Births, NoRow
<1> QED BY <1>2, <1>3, <1>4 DEF IInv

LEMMA Stuttering ==
  ASSUME IInv, UNCHANGED vars
  PROVE  IInv'
<1>1. UNCHANGED <<tgVars, sessionVars, sourceVars, workerVars, botVars, faults>>
  BY DEF vars
<1>2. UNCHANGED <<auth, revoked, row, switched, snapshot, conn, client, wpc, current, using>>
  BY <1>1 DEF tgVars, sourceVars, workerVars, botVars
<1> QED BY <1>1, <1>2, TypeParts, Undisturbed DEF IInv

LEMMA Invariance == Spec => []IInv
<1>1. Init => IInv
  BY Initially
<1>2. IInv /\ [Next]_vars => IInv'
  <2> SUFFICES ASSUME IInv, [Next]_vars PROVE IInv'
    OBVIOUS
  <2>1. CASE User
    BY <2>1, LoginStep, LogoutStep, ReceiveStep, RemoveStep DEF User
  <2>2. CASE Worker
    BY <2>2, ClaimStep, ConnectStep, ConnectDeniedStep, MarkReauthStep, StartSourceStep,
       FetchStep, StoreStep, HandleSourceErrorStep, EndTickStep DEF Worker
  <2>3. CASE Bot
    BY <2>3, OpenSessionStep, ResolveDeniedStep, ResolveUsernameStep, JoinByInviteStep,
       AlreadyParticipantStep, CreateSourceStep, ConfirmStep DEF Bot
  <2>4. CASE Environment
    BY <2>4, RevokeStep, BackoffEndsStep, LoseConnectionStep, WorkerFailsStep,
       WorkerCrashStep, BotFailsStep, BotCrashStep DEF Environment
  <2>5. CASE UNCHANGED vars
    BY <2>5, Stuttering
  <2> QED BY <2>1, <2>2, <2>3, <2>4, <2>5 DEF Next
<1> QED BY <1>1, <1>2, PTL DEF Spec

\* Every variable has a value of its kind, and a row is of an account that the
\* user has logged in with (TypeOK).
THEOREM TypeCorrect == Spec => []TypeOK
<1>1. IInv => TypeOK
  BY DEF IInv
<1> QED BY <1>1, Invariance, PTL

\* The user is asked to log in again because of the session in the row, unless
\* that came while the worker had a client of an earlier one (ingestor.ts:90).
THEOREM ReauthIsExplained == Spec => []ReauthExplained
<1>1. IInv => ReauthExplained
  BY DEF IInv
<1> QED BY <1>1, Invariance, PTL

\* The cursor of a source that no other account has added again counts the
\* messages of the account it is read by (createSource, updateCursor by id).
THEOREM CursorsAreOwned == Spec => []CursorsOwned
<1>1. IInv => CursorsOwned
  BY DEF IInv
<1> QED BY <1>1, Invariance, PTL

\* A channel that an /add has joined is tracked when the /add is handled, unless
\* a call failed after the joining or no session was left; the quota, which a
\* second delivery meets again, never turns it down (bot/ui/actions.ts).
THEOREM JoinedMeansTracked == Spec => []JoinedIsTracked
<1>1. IInv => JoinedIsTracked
  BY DEF IInv, Adding
<1> QED BY <1>1, Invariance, PTL
=============================================================================
