---------------------------- MODULE LeasesProofs ----------------------------
(***************************************************************************)
(* Theorems about the leases (Leases), for any number of users, workers,    *)
(* logins, stops and faults, and any length of a lease.                     *)
(***************************************************************************)
EXTENDS Leases, TLAPS

USE LeaseAssumption, MaxLateAssumption, NobodyAssumption
    DEF NoClient, NoUser

-----------------------------------------------------------------------------
(* Type correctness *)

LEMMA InitTypeOK == Init => TypeOK
  BY DEF Init, TypeOK, Countdown, NoLease, Location

\* Users, Telegram and the clock keep the types.
LEMMA EnvironmentKeepsTypes ==
  ASSUME TypeOK,
         \/ \E u \in User : Login(u) \/ Logout(u)
         \/ \E x \in 1..MaxLogins : Reject(x)
         \/ Tick
  PROVE  TypeOK'
<1> USE DEF TypeOK, rowVars, userVars, tickVars
<1>1. ASSUME NEW u \in User, Login(u) PROVE TypeOK'
  <2>1. /\ status' \in [User -> {"none", "active", "needs_reauth"}]
        /\ session' \in [User -> Nat]
        /\ born' \in [User -> Nat]
        /\ logins' \in Nat
    BY <1>1 DEF Login
  <2> QED BY <1>1, <2>1 DEF Login
<1>2. ASSUME NEW u \in User, Logout(u) PROVE TypeOK'
  <2>1. /\ status' \in [User -> {"none", "active", "needs_reauth"}]
        /\ session' \in [User -> Nat]
        /\ born' \in [User -> Nat]
        /\ owner' \in [User -> Worker \cup {Nobody}]
        /\ ttl' \in [User -> Countdown]
        /\ logouts' \in Nat
    BY <1>2 DEF Logout, Countdown, NoLease
  <2>2. loggedOut' \subseteq Nat
    <3>1. loggedOut' = loggedOut \cup {session[u]} /\ session[u] \in Nat
      BY <1>2 DEF Logout
    <3> QED BY <3>1
  <2> QED BY <1>2, <2>1, <2>2 DEF Logout
<1>3. ASSUME NEW x \in 1..MaxLogins, Reject(x) PROVE TypeOK'
  BY <1>3 DEF Reject
<1>4. CASE Tick
  <2>1. ttl' \in [User -> Countdown]
    BY <1>4 DEF Tick, Countdown, NoLease
  <2>2. age' \in [Worker -> 0 .. Lease + 1]
    BY <1>4 DEF Tick
  <2>3. pc' \in [Worker -> Location]
    BY <1>4 DEF Tick, Location
  <2> QED BY <1>4, <2>1, <2>2, <2>3 DEF Tick
<1> QED BY <1>1, <1>2, <1>3, <1>4

\* The steps of a tick keep the types.
LEMMA StepKeepsTypes ==
  ASSUME TypeOK, NEW w \in Worker, Step(w) \/ CallFails(w)
  PROVE  TypeOK'
<1> USE DEF TypeOK, rowVars, userVars, tickVars, Goto, Location
<1>1. CASE Claim(w)
  <2>1. PICK users \in SUBSET User :
          /\ owner' = [u \in User |-> IF u \in users THEN w ELSE owner[u]]
          /\ ttl' = [u \in User |-> IF u \in users THEN Lease ELSE ttl[u]]
          /\ owned' = [owned EXCEPT ![w] = users]
          /\ claimed' = [claimed EXCEPT ![w] = {<<u, born[u]>> : u \in users}]
          /\ todo' = [todo EXCEPT ![w] = users]
    BY <1>1 DEF Claim
  <2>2. {<<u, born[u]>> : u \in users} \subseteq User \X Nat
    OBVIOUS
  <2>3. /\ owner' \in [User -> Worker \cup {Nobody}]
        /\ ttl' \in [User -> Countdown]
        /\ owned' \in [Worker -> SUBSET User]
        /\ claimed' \in [Worker -> SUBSET (User \X Nat)]
        /\ todo' \in [Worker -> SUBSET User]
    BY <2>1, <2>2 DEF Countdown, NoLease
  <2>4. age' \in [Worker -> 0 .. Lease + 1] /\ pc' \in [Worker -> Location]
    BY <1>1 DEF Claim
  <2> QED BY <1>1, <2>3, <2>4 DEF Claim
<1>2. CASE Renew(w)
  BY <1>2 DEF Renew, Renewed, Countdown, NoLease
<1>3. CASE Drop(w)
  BY <1>3 DEF Drop
<1>4. CASE StartUser(w)
  <2>1. PICK u \in todo[w] :
          /\ todo' = [todo EXCEPT ![w] = @ \ {u}]
          /\ client' = [client EXCEPT ![w] = [@ EXCEPT ![u] = ClientFor(w, u)]]
          /\ IF ClientFor(w, u) = NoClient
               THEN UNCHANGED <<pc, current, using>>
               ELSE /\ current' = [current EXCEPT ![w] = u]
                    /\ using' = [using EXCEPT ![w] = ClientFor(w, u)]
                    /\ Goto(w, "connect")
    BY <1>4 DEF StartUser
  <2>2. u \in User /\ ClientFor(w, u) \in Nat
    BY DEF ClientFor
  <2>3. client' \in [Worker -> [User -> Nat]]
    BY <2>1, <2>2
  <2>4. /\ todo' \in [Worker -> SUBSET User]
        /\ current' \in [Worker -> User \cup {NoUser}]
        /\ using' \in [Worker -> Nat]
        /\ pc' \in [Worker -> Location]
    <3>1. CASE ClientFor(w, u) = NoClient
      BY <2>1, <2>2, <3>1
    <3>2. CASE ClientFor(w, u) # NoClient
      <4>1. /\ current' = [current EXCEPT ![w] = u]
            /\ using' = [using EXCEPT ![w] = ClientFor(w, u)]
            /\ pc' = [pc EXCEPT ![w] = "connect"]
            /\ todo' = [todo EXCEPT ![w] = @ \ {u}]
        BY <2>1, <3>2
      <4> QED BY <4>1, <2>2
    <3> QED BY <3>1, <3>2
  <2> QED BY <1>4, <2>3, <2>4 DEF StartUser
<1>5. CASE Connected(w)
  BY <1>5 DEF Connected
<1>6. CASE ConnectDenied(w)
  BY <1>6 DEF ConnectDenied
<1>7. CASE MarkReauth(w)
  <2>1. status' \in [User -> {"none", "active", "needs_reauth"}]
    BY <1>7 DEF MarkReauth
  <2>2. client' \in [Worker -> [User -> Nat]]
    <3>1. client' = [client EXCEPT ![w] = [@ EXCEPT ![current[w]] = NoClient]]
      BY <1>7 DEF MarkReauth
    <3> QED BY <3>1
  <2>3. pc' \in [Worker -> Location] /\ current' \in [Worker -> User \cup {NoUser}]
        /\ using' \in [Worker -> Nat]
    BY <1>7 DEF MarkReauth, NextUser
  <2> QED BY <1>7, <2>1, <2>2, <2>3 DEF MarkReauth
<1>8. CASE SyncEnds(w)
  BY <1>8 DEF SyncEnds, NextUser
<1>9. CASE EndTick(w)
  BY <1>9 DEF EndTick
<1>10. CASE CallFails(w)
  <2>1. /\ faults' \in Nat
        /\ UNCHANGED <<rowVars, userVars, proc, owned, claimed, age, client, stops>>
    BY <1>10 DEF CallFails
  <2>2. CASE pc[w] \in {"claim", "renew"}
    BY <1>10, <2>1, <2>2 DEF CallFails
  <2>3. CASE pc[w] = "next"
    <3>1. PICK u \in todo[w] : todo' = [todo EXCEPT ![w] = @ \ {u}]
      BY <1>10, <2>3 DEF CallFails
    <3>2. UNCHANGED <<pc, current, using>>
      BY <1>10, <2>3 DEF CallFails
    <3> QED BY <2>1, <3>1, <3>2
  <2>4. CASE pc[w] \in {"connect", "reauth", "sync"}
    <3>1. NextUser(w) /\ UNCHANGED todo
      BY <1>10, <2>4 DEF CallFails
    <3> QED BY <2>1, <3>1 DEF NextUser
  <2> QED BY <1>10, <2>2, <2>3, <2>4 DEF CallFails
<1> QED
  BY <1>1, <1>2, <1>3, <1>4, <1>5, <1>6, <1>7, <1>8, <1>9, <1>10 DEF Step

\* Start and stop of a process keep the types.
LEMMA StopKeepsTypes ==
  ASSUME TypeOK, NEW w \in Worker, Stop(w) \/ Start(w)
  PROVE  TypeOK'
<1> USE DEF TypeOK, rowVars, userVars, tickVars
<1>1. ASSUME Lost(w)
      PROVE  /\ proc' \in [Worker -> {"up", "stopping", "closed", "released", "down"}]
             /\ pc' \in [Worker -> Location]
             /\ owned' \in [Worker -> SUBSET User]
             /\ claimed' \in [Worker -> SUBSET (User \X Nat)]
             /\ age' \in [Worker -> 0 .. Lease + 1]
             /\ todo' \in [Worker -> SUBSET User]
             /\ current' \in [Worker -> User \cup {NoUser}]
             /\ using' \in [Worker -> Nat]
             /\ client' \in [Worker -> [User -> Nat]]
  BY <1>1 DEF Lost, Location
<1>2. CASE BeginStop(w)
  BY <1>2 DEF BeginStop
<1>3. CASE CloseClients(w)
  BY <1>3 DEF CloseClients
<1>4. CASE ReleaseLeases(w)
  <2>1. owner' \in [User -> Worker \cup {Nobody}] /\ ttl' \in [User -> Countdown]
    BY <1>4 DEF ReleaseLeases, Countdown, NoLease
  <2> QED BY <1>4, <2>1 DEF ReleaseLeases
<1>5. CASE Exit(w)
  BY <1>1, <1>5 DEF Exit
<1>6. CASE Crash(w)
  BY <1>1, <1>6 DEF Crash
<1>7. CASE Start(w)
  BY <1>7 DEF Start
<1> QED BY <1>2, <1>3, <1>4, <1>5, <1>6, <1>7 DEF Stop

LEMMA Typing == TypeOK /\ [Next]_vars => TypeOK'
<1> SUFFICES ASSUME TypeOK, [Next]_vars PROVE TypeOK'
  OBVIOUS
<1>1. CASE UNCHANGED vars
  BY <1>1 DEF vars, rowVars, userVars, tickVars, TypeOK
<1>2. CASE Next
  BY <1>2, EnvironmentKeepsTypes, StepKeepsTypes, StopKeepsTypes DEF Next
<1> QED BY <1>1, <1>2

\* Every variable keeps a value of its kind (TypeOK).
THEOREM TypeCorrect == Spec => []TypeOK
<1> QED BY InitTypeOK, Typing, PTL DEF Spec

-----------------------------------------------------------------------------
(* At most one worker holds a lease.  LeaseExclusive is not inductive: a    *)
(* claim respects the lease in the row, so the row must still carry it for  *)
(* as long as the worker may believe in it (LeaseBacked), also when the     *)
(* user logs out and in again (BirthsInPast).                               *)

LEMMA InitLeaseInv == Init => LeaseInv
<1> SUFFICES ASSUME Init PROVE LeaseInv
  OBVIOUS
<1>1. TypeOK
  BY InitTypeOK
<1>2. BirthsInPast
  BY DEF Init, BirthsInPast
<1>3. LeaseBacked
  BY DEF Init, LeaseBacked, HoldsLease
<1> QED BY <1>1, <1>2, <1>3 DEF LeaseInv

\* No login is seen before it happens.
LEMMA BirthsStayInPast ==
  ASSUME TypeOK, BirthsInPast, [Next]_vars
  PROVE  BirthsInPast'
<1> USE DEF TypeOK, BirthsInPast, rowVars, userVars, tickVars
<1>1. ASSUME NEW u \in User, Login(u) PROVE BirthsInPast'
  BY <1>1 DEF Login
<1>2. ASSUME NEW u \in User, Logout(u) PROVE BirthsInPast'
  BY <1>2 DEF Logout
<1>3. ASSUME NEW x \in 1..MaxLogins, Reject(x) PROVE BirthsInPast'
  BY <1>3 DEF Reject
<1>4. CASE Tick
  BY <1>4 DEF Tick
<1>5. ASSUME NEW w \in Worker, Claim(w) PROVE BirthsInPast'
  <2>1. PICK users \in SUBSET User :
          claimed' = [claimed EXCEPT ![w] = {<<u, born[u]>> : u \in users}]
    BY <1>5 DEF Claim
  <2>2. born' = born /\ logins' = logins
    BY <1>5 DEF Claim
  <2>3. \A v \in Worker : \A row \in claimed'[v] : row[2] <= logins
    BY <2>1
  <2> QED BY <2>2, <2>3
<1>6. ASSUME NEW w \in Worker, Step(w) \/ CallFails(w), ~ Claim(w) PROVE BirthsInPast'
  <2>1. UNCHANGED <<born, logins, claimed>>
    BY <1>6 DEF Step, Renew, Drop, StartUser, Connected, ConnectDenied, MarkReauth,
                SyncEnds, EndTick, CallFails
  <2> QED BY <2>1
<1>7. ASSUME NEW w \in Worker, Stop(w) \/ Start(w) PROVE BirthsInPast'
  <2>1. /\ UNCHANGED <<born, logins>>
        /\ claimed' = claimed \/ claimed' = [claimed EXCEPT ![w] = {}]
    BY <1>7 DEF Stop, Start, BeginStop, CloseClients, ReleaseLeases, Exit, Crash, Lost
  <2> QED BY <2>1
<1>8. CASE UNCHANGED vars
  BY <1>8 DEF vars
<1> QED BY <1>1, <1>2, <1>3, <1>4, <1>5, <1>6, <1>7, <1>8 DEF Next

\* Time takes as much from the lease as it adds to the age of the claim; a
\* claim takes no row whose lease is running.
LEMMA LeasesStayBacked ==
  ASSUME LeaseInv, TypeOK', [Next]_vars
  PROVE  LeaseBacked'
<1> SUFFICES ASSUME NEW w \in Worker, NEW u \in User, HoldsLease(w, u)'
             PROVE  owner'[u] = w /\ ttl'[u] >= Lease - age'[w]
  BY DEF LeaseBacked
<1> USE DEF LeaseInv, TypeOK, rowVars, userVars, tickVars
<1>1. ASSUME HoldsLease(w, u), owner'[u] = owner[u], age'[w] = age[w], ttl'[u] >= ttl[u]
      PROVE  owner'[u] = w /\ ttl'[u] >= Lease - age'[w]
  BY <1>1 DEF LeaseBacked, Countdown, NoLease
<1>2. ASSUME NEW v \in User, Login(v)
      PROVE  owner'[u] = w /\ ttl'[u] >= Lease - age'[w]
  <2>1. <<u, born'[u]>> \in claimed[w] /\ age[w] <= Lease
    BY <1>2 DEF Login, HoldsLease
  <2>2. born'[u] <= logins
    BY <2>1 DEF BirthsInPast
  <2>3. ~ (v = u /\ status[u] = "none")
    BY <1>2, <2>2 DEF Login
  <2>4. HoldsLease(w, u)
    BY <1>2, <2>1, <2>3 DEF Login, HoldsLease
  <2> QED BY <1>1, <1>2, <2>4 DEF Login, Countdown, NoLease
<1>3. ASSUME NEW v \in User, Logout(v)
      PROVE  owner'[u] = w /\ ttl'[u] >= Lease - age'[w]
  <2>1. v # u
    BY <1>3 DEF Logout, HoldsLease
  <2>2. HoldsLease(w, u)
    BY <1>3, <2>1 DEF Logout, HoldsLease
  <2> QED BY <1>1, <1>3, <2>1, <2>2 DEF Logout, Countdown, NoLease
<1>4. ASSUME NEW x \in 1..MaxLogins, Reject(x)
      PROVE  owner'[u] = w /\ ttl'[u] >= Lease - age'[w]
  BY <1>1, <1>4 DEF Reject, HoldsLease, Countdown, NoLease
<1>5. CASE Tick
  <2>1. UNCHANGED <<status, born, owner, claimed>> /\ age'[w] <= Lease
    BY <1>5 DEF Tick, HoldsLease
  <2>2. age'[w] = age[w] + 1 /\ age[w] <= Lease
    BY <1>5, <2>1 DEF Tick
  <2>3. ttl'[u] >= ttl[u] - 1
    BY <1>5 DEF Tick, Countdown, NoLease
  <2>4. HoldsLease(w, u)
    BY <2>1, <2>2 DEF HoldsLease
  <2> QED BY <2>1, <2>2, <2>3, <2>4 DEF LeaseBacked, Countdown, NoLease
<1>6. ASSUME NEW v \in Worker, Claim(v)
      PROVE  owner'[u] = w /\ ttl'[u] >= Lease - age'[w]
  <2>1. PICK users \in SUBSET User :
          /\ FirstOf(users, Claimable(v))
          /\ owner' = [x \in User |-> IF x \in users THEN v ELSE owner[x]]
          /\ ttl' = [x \in User |-> IF x \in users THEN Lease ELSE ttl[x]]
          /\ claimed' = [claimed EXCEPT ![v] = {<<x, born[x]>> : x \in users}]
    BY <1>6 DEF Claim
  <2>2. UNCHANGED <<status, born>> /\ age' = [age EXCEPT ![v] = 0]
    BY <1>6 DEF Claim
  <2>3. CASE v = w
    <3>1. u \in users
      BY <2>1, <2>2, <2>3 DEF HoldsLease
    <3> QED BY <2>1, <2>2, <2>3, <3>1
  <2>4. CASE v # w
    <3>1. HoldsLease(w, u)
      BY <2>1, <2>2, <2>4 DEF HoldsLease
    <3>2. owner[u] = w /\ ttl[u] >= 0
      BY <3>1 DEF LeaseBacked, HoldsLease, Countdown, NoLease
    <3>3. u \notin users
      <4>1. users \subseteq Claimable(v)
        BY <2>1 DEF FirstOf
      <4>2. ~ (ttl[u] < 0) /\ owner[u] \notin {Nobody, v}
        BY <2>4, <3>2 DEF Countdown, NoLease
      <4> QED BY <4>1, <4>2 DEF Claimable
    <3> QED BY <1>1, <2>1, <2>2, <2>4, <3>1, <3>3 DEF Countdown, NoLease
  <2> QED BY <2>3, <2>4
<1>7. ASSUME NEW v \in Worker, Renew(v)
      PROVE  owner'[u] = w /\ ttl'[u] >= Lease - age'[w]
  <2>1. HoldsLease(w, u) /\ owner'[u] = owner[u] /\ age'[w] = age[w]
    BY <1>7 DEF Renew, HoldsLease
  <2>2. ttl'[u] >= ttl[u]
    BY <1>7 DEF Renew, Renewed, Countdown, NoLease
  <2> QED BY <1>1, <2>1, <2>2
<1>8. ASSUME NEW v \in Worker, MarkReauth(v)
      PROVE  owner'[u] = w /\ ttl'[u] >= Lease - age'[w]
  <2>1. UNCHANGED <<born, owner, ttl, claimed, age>>
    BY <1>8 DEF MarkReauth
  <2>2. status'[u] # "none" => status[u] # "none"
    BY <1>8 DEF MarkReauth
  <2> QED BY <1>1, <2>1, <2>2 DEF HoldsLease, Countdown, NoLease
<1>9. ASSUME NEW v \in Worker, Step(v) \/ CallFails(v), ~ Claim(v), ~ Renew(v), ~ MarkReauth(v)
      PROVE  owner'[u] = w /\ ttl'[u] >= Lease - age'[w]
  <2>1. UNCHANGED <<status, born, owner, ttl, claimed, age>>
    BY <1>9 DEF Step, Drop, StartUser, Connected, ConnectDenied, SyncEnds, EndTick, CallFails
  <2> QED BY <1>1, <2>1 DEF HoldsLease, Countdown, NoLease
<1>10. ASSUME NEW v \in Worker, ReleaseLeases(v)
       PROVE  owner'[u] = w /\ ttl'[u] >= Lease - age'[w]
  <2>1. v # w /\ HoldsLease(w, u)
    BY <1>10 DEF ReleaseLeases, HoldsLease
  <2>2. owner[u] = w
    BY <2>1 DEF LeaseBacked
  <2> QED BY <1>1, <1>10, <2>1, <2>2 DEF ReleaseLeases, RowsOf, Countdown, NoLease
<1>11. ASSUME NEW v \in Worker, Exit(v) \/ Crash(v)
       PROVE  owner'[u] = w /\ ttl'[u] >= Lease - age'[w]
  <2>1. /\ UNCHANGED <<status, born, owner, ttl>>
        /\ claimed' = [claimed EXCEPT ![v] = {}]
        /\ age' = [age EXCEPT ![v] = 0]
    BY <1>11 DEF Exit, Crash, Lost
  <2>2. v # w
    BY <2>1 DEF HoldsLease
  <2> QED BY <1>1, <2>1, <2>2 DEF HoldsLease, Countdown, NoLease
<1>12. ASSUME NEW v \in Worker, BeginStop(v) \/ CloseClients(v) \/ Start(v)
       PROVE  owner'[u] = w /\ ttl'[u] >= Lease - age'[w]
  <2>1. UNCHANGED <<status, born, owner, ttl, claimed, age>>
    BY <1>12 DEF BeginStop, CloseClients, Start
  <2> QED BY <1>1, <2>1 DEF HoldsLease, Countdown, NoLease
<1>13. CASE UNCHANGED vars
  BY <1>1, <1>13 DEF vars, HoldsLease, Countdown, NoLease
<1> QED
  BY <1>2, <1>3, <1>4, <1>5, <1>6, <1>7, <1>8, <1>9, <1>10, <1>11, <1>12, <1>13
  DEF Next, Stop

LEMMA LeaseInvStep == LeaseInv /\ [Next]_vars => LeaseInv'
  BY Typing, BirthsStayInPast, LeasesStayBacked DEF LeaseInv

LEMMA LeaseInvSuffices == LeaseInv => LeaseExclusive
  BY DEF LeaseInv, LeaseBacked, LeaseExclusive

\* The lease columns back what the workers believe (LeaseInv).
THEOREM LeasesBacked == Spec => []LeaseInv
  BY InitLeaseInv, LeaseInvStep, PTL DEF Spec

\* Between a claim and the end of LEASE_SECONDS the session is returned to
\* no other worker (LeaseExclusive).
THEOREM Exclusive == Spec => []LeaseExclusive
  BY LeasesBacked, LeaseInvSuffices, PTL

-----------------------------------------------------------------------------
(* The leases implement SessionLock.  Only a claim gives a session to a     *)
(* worker (NothingGained); that it takes none which another holds is        *)
(* LeaseExclusive of the state it leads to.                                 *)

\* A claim leaves the other workers what they hold.
LEMMA OthersKeep ==
  ASSUME LeaseInv, NEW w \in Worker, Claim(w), NEW v \in Worker, v # w, NEW u \in User
  PROVE  HoldsLease(v, u)' <=> HoldsLease(v, u)
<1> USE DEF LeaseInv, TypeOK
<1>1. PICK users \in SUBSET User :
        claimed' = [claimed EXCEPT ![w] = {<<x, born[x]>> : x \in users}]
  BY DEF Claim
<1>2. UNCHANGED <<status, born>> /\ age' = [age EXCEPT ![w] = 0]
  BY DEF Claim
<1>3. claimed'[v] = claimed[v] /\ age'[v] = age[v]
  BY <1>1, <1>2
<1> QED BY <1>2, <1>3 DEF HoldsLease

LEMMA NothingGained ==
  ASSUME LeaseInv, [Next]_vars, NEW w \in Worker, ~ Claim(w), NEW u \in User,
         HoldsLease(w, u)'
  PROVE  HoldsLease(w, u)
<1> USE DEF LeaseInv, TypeOK, rowVars, userVars, tickVars
<1>1. ASSUME NEW v \in User, Login(v) PROVE HoldsLease(w, u)
  <2>1. <<u, born'[u]>> \in claimed[w] /\ age[w] <= Lease
    BY <1>1 DEF Login, HoldsLease
  <2>2. born'[u] <= logins
    BY <2>1 DEF BirthsInPast
  <2>3. ~ (v = u /\ status[u] = "none")
    BY <1>1, <2>2 DEF Login
  <2> QED BY <1>1, <2>1, <2>3 DEF Login, HoldsLease
<1>2. ASSUME NEW v \in User, Logout(v) PROVE HoldsLease(w, u)
  <2>1. v # u
    BY <1>2 DEF Logout, HoldsLease
  <2> QED BY <1>2, <2>1 DEF Logout, HoldsLease
<1>3. ASSUME NEW x \in 1..MaxLogins, Reject(x) PROVE HoldsLease(w, u)
  BY <1>3 DEF Reject, HoldsLease
<1>4. CASE Tick
  BY <1>4 DEF Tick, HoldsLease
<1>5. ASSUME NEW v \in Worker, Claim(v) PROVE HoldsLease(w, u)
  <2>1. v # w
    BY <1>5
  <2> QED BY <1>5, <2>1, OthersKeep
<1>6. ASSUME NEW v \in Worker, MarkReauth(v) PROVE HoldsLease(w, u)
  BY <1>6 DEF MarkReauth, HoldsLease
<1>7. ASSUME NEW v \in Worker, Step(v) \/ CallFails(v), ~ Claim(v), ~ MarkReauth(v)
      PROVE  HoldsLease(w, u)
  <2>1. UNCHANGED <<status, born, claimed, age>>
    BY <1>7 DEF Step, Renew, Drop, StartUser, Connected, ConnectDenied, SyncEnds, EndTick,
                CallFails
  <2> QED BY <2>1 DEF HoldsLease
<1>8. ASSUME NEW v \in Worker, ReleaseLeases(v) PROVE HoldsLease(w, u)
  BY <1>8 DEF ReleaseLeases, HoldsLease
<1>9. ASSUME NEW v \in Worker, Exit(v) \/ Crash(v) PROVE HoldsLease(w, u)
  <2>1. /\ UNCHANGED <<status, born>>
        /\ claimed' = [claimed EXCEPT ![v] = {}]
        /\ age' = [age EXCEPT ![v] = 0]
    BY <1>9 DEF Exit, Crash, Lost
  <2> QED BY <2>1 DEF HoldsLease
<1>10. ASSUME NEW v \in Worker, BeginStop(v) \/ CloseClients(v) \/ Start(v)
       PROVE  HoldsLease(w, u)
  <2>1. UNCHANGED <<status, born, claimed, age>>
    BY <1>10 DEF BeginStop, CloseClients, Start
  <2> QED BY <2>1 DEF HoldsLease
<1>11. CASE UNCHANGED vars
  BY <1>11 DEF vars, HoldsLease
<1> QED
  BY <1>1, <1>2, <1>3, <1>4, <1>5, <1>6, <1>7, <1>8, <1>9, <1>10, <1>11 DEF Next, Stop

\* What one holds after a step was free, or was held by the same worker.
LEMMA StepImplementsLock ==
  ASSUME LeaseInv, LeaseInv', [Next]_vars
  PROVE  [Lock!Next]_([u \in User |-> {w \in Worker : HoldsLease(w, u)}])
<1> DEFINE holders == [u \in User |-> {w \in Worker : HoldsLease(w, u)}]
<1>1. holders' = [u \in User |-> {w \in Worker : HoldsLease(w, u)'}]
  OBVIOUS
<1>2. holders' \in [User -> SUBSET Worker]
  BY <1>1
<1>3. ASSUME NEW w \in Worker, Claim(w) PROVE Lock!Grant(w)
  <2> SUFFICES ASSUME NEW u \in User
               PROVE  /\ holders'[u] \ {w} = holders[u] \ {w}
                      /\ w \in holders'[u] => holders[u] \subseteq {w}
    BY DEF Lock!Grant
  <2>1. holders'[u] \ {w} = holders[u] \ {w}
    BY <1>1, <1>3, OthersKeep
  <2>2. ASSUME w \in holders'[u], NEW v \in holders[u] PROVE v = w
    <3>1. HoldsLease(w, u)' /\ HoldsLease(v, u)
      BY <1>1, <2>2
    <3>2. ASSUME v # w PROVE HoldsLease(v, u)'
      BY <1>3, <3>1, <3>2, OthersKeep
    <3>3. LeaseExclusive'
      BY LeaseInvSuffices, PTL
    <3> QED BY <3>1, <3>2, <3>3 DEF LeaseExclusive
  <2> QED BY <2>1, <2>2
<1>4. ASSUME \A w \in Worker : ~ Claim(w) PROVE Lock!Lapse
  <2> SUFFICES ASSUME NEW u \in User PROVE holders'[u] \subseteq holders[u]
    BY DEF Lock!Lapse
  <2> QED BY <1>1, <1>4, NothingGained
<1> QED BY <1>2, <1>3, <1>4 DEF Lock!Next

\* The leases are locks (ImplementsLock): no step passes a session on from
\* one worker to another, whatever crashes, stops, logins and logouts happen.
THEOREM LockRefinement == Spec => ImplementsLock
<1>1. Init => Lock!Init
  BY DEF Init, Lock!Init, HoldsLease
<1>2. ASSUME LeaseInv, LeaseInv', [Next]_vars
      PROVE  [Lock!Next]_([u \in User |-> {w \in Worker : HoldsLease(w, u)}])
  BY <1>2, StepImplementsLock
<1> QED BY <1>1, <1>2, LeasesBacked, PTL DEF Spec, ImplementsLock, Lock!Spec

-----------------------------------------------------------------------------
(* At most one worker that has not released its leases works on a user, as  *)
(* long as nobody logs out and a tick is not longer than a lease: TickWithinClaim leads from what   *)
(* a worker works on to what it has claimed, and LeaseExclusive does the    *)
(* rest.                                                                    *)

LEMMA InitSplitInv == Init => SplitInv
<1> SUFFICES ASSUME Init PROVE SplitInv
  OBVIOUS
<1>1. LeaseInv
  BY InitLeaseInv
<1>2. ClaimsLast
  BY DEF Init, ClaimsLast
<1>3. ASSUME NEW w \in Worker PROVE TickWithinClaim(w)
  BY DEF Init, TickWithinClaim, InLoop
<1> QED BY <1>1, <1>2, <1>3 DEF SplitInv

\* A logout is never undone.
LEMMA LogoutsGrow ==
  ASSUME TypeOK, [Next]_vars, logouts' = 0
  PROVE  logouts = 0
<1> USE DEF rowVars, userVars, tickVars
<1>1. ASSUME NEW u \in User, Logout(u) PROVE FALSE
  BY <1>1 DEF Logout, TypeOK
<1>2. ASSUME NEW u \in User, Login(u) PROVE logouts' = logouts
  BY <1>2 DEF Login
<1>3. ASSUME Tick \/ (\E x \in 1..MaxLogins : Reject(x)) \/ UNCHANGED vars
      PROVE  logouts' = logouts
  BY <1>3 DEF Tick, Reject, vars
<1>4. ASSUME NEW w \in Worker, Step(w) \/ CallFails(w) PROVE logouts' = logouts
  BY <1>4 DEF Step, Claim, Renew, Drop, StartUser, Connected, ConnectDenied, MarkReauth,
              SyncEnds, EndTick, CallFails
<1>5. ASSUME NEW w \in Worker, Stop(w) \/ Start(w) PROVE logouts' = logouts
  BY <1>5 DEF Stop, Start, BeginStop, CloseClients, ReleaseLeases, Exit, Crash
<1> QED BY <1>1, <1>2, <1>3, <1>4, <1>5 DEF Next

LEMMA ClaimsLastStep ==
  ASSUME LeaseInv, ClaimsLast, logouts' = 0, [Next]_vars
  PROVE  ClaimsLast'
<1> USE DEF LeaseInv, TypeOK, ClaimsLast, rowVars, userVars, tickVars
<1>1. ASSUME NEW u \in User, Login(u) PROVE ClaimsLast'
  BY <1>1 DEF Login
<1>2. ASSUME NEW u \in User, Logout(u) PROVE ClaimsLast'
  BY <1>2 DEF Logout
<1>3. ASSUME NEW w \in Worker, Claim(w) PROVE ClaimsLast'
  <2>1. PICK users \in SUBSET User :
          /\ FirstOf(users, Claimable(w))
          /\ claimed' = [claimed EXCEPT ![w] = {<<x, born[x]>> : x \in users}]
    BY <1>3 DEF Claim
  <2>2. UNCHANGED <<status, born>>
    BY <1>3 DEF Claim
  <2>3. \A u \in users : status[u] = "active"
    BY <2>1 DEF FirstOf, Claimable
  <2> QED BY <2>1, <2>2, <2>3
<1>4. ASSUME NEW w \in Worker, MarkReauth(w) PROVE ClaimsLast'
  <2>1. \A u \in User : status[u] # "none" => status'[u] # "none"
    BY <1>4 DEF MarkReauth
  <2>2. UNCHANGED <<born, claimed>>
    BY <1>4 DEF MarkReauth
  <2> QED BY <2>1, <2>2
<1>5. ASSUME NEW w \in Worker, Step(w) \/ CallFails(w), ~ Claim(w), ~ MarkReauth(w)
      PROVE  ClaimsLast'
  <2>1. UNCHANGED <<status, born, claimed>>
    BY <1>5 DEF Step, Renew, Drop, StartUser, Connected, ConnectDenied, SyncEnds, EndTick,
                CallFails
  <2> QED BY <2>1
<1>6. ASSUME NEW w \in Worker, Stop(w) \/ Start(w) PROVE ClaimsLast'
  <2>1. /\ UNCHANGED <<status, born>>
        /\ claimed' = claimed \/ claimed' = [claimed EXCEPT ![w] = {}]
    BY <1>6 DEF Stop, Start, BeginStop, CloseClients, ReleaseLeases, Exit, Crash, Lost
  <2> QED BY <2>1
<1>7. ASSUME Tick \/ (\E x \in 1..MaxLogins : Reject(x)) \/ UNCHANGED vars
      PROVE  ClaimsLast'
  <2>1. UNCHANGED <<status, born, claimed>>
    BY <1>7 DEF Tick, Reject, vars
  <2> QED BY <2>1
<1> QED BY <1>1, <1>2, <1>3, <1>4, <1>5, <1>6, <1>7 DEF Next

\* Whatever another worker does leaves the tick of w alone.
LEMMA TickWithinClaimStep ==
  ASSUME SplitInv, logouts = 0, logouts' = 0, MaxTickLength \in Nat, TypeOK', [Next]_vars,
         NEW w \in Worker
  PROVE  TickWithinClaim(w)'
<1> USE DEF SplitInv, LeaseInv, TypeOK, TickWithinClaim, Unreleased, InLoop, Goto,
            rowVars, userVars, tickVars
<1>1. ASSUME NEW u \in User, Login(u) PROVE TickWithinClaim(w)'
  <2>1. \A x \in User : <<x, born[x]>> \in claimed[w] => born'[x] = born[x]
    BY <1>1 DEF Login, ClaimsLast
  <2>2. UNCHANGED <<proc, pc, age, todo, claimed, current>>
    BY <1>1 DEF Login
  <2>3. pc[w] \in InLoop => current[w] \in User \cup {NoUser}
    OBVIOUS
  <2>4. Unreleased(w) /\ pc[w] \in InLoop => current[w] \in User
    <3> SUFFICES ASSUME Unreleased(w), pc[w] \in InLoop PROVE current[w] \in User
      OBVIOUS
    <3>1. <<current[w], born[current[w]]>> \in User \X Nat
      OBVIOUS
    <3> QED BY <3>1
  <2> QED BY <2>1, <2>2, <2>4
<1>2. ASSUME NEW u \in User, Logout(u) PROVE TickWithinClaim(w)'
  BY <1>2 DEF Logout
<1>3. ASSUME NEW x \in 1..MaxLogins, Reject(x) PROVE TickWithinClaim(w)'
  BY <1>3 DEF Reject
<1>4. CASE Tick
  <2>1. UNCHANGED <<proc, born, claimed, todo, current>>
    BY <1>4 DEF Tick
  <2>2. /\ proc[w] = "down" => pc'[w] = pc[w]
        /\ pc'[w] \notin {"sleep", "claim"} => pc'[w] = pc[w]
    BY <1>4 DEF Tick
  <2>3. Unreleased(w) /\ pc[w] # "sleep" => age'[w] <= MaxTickLength
    <3>1. proc[w] = "down" \/ pc[w] = "sleep" \/ age[w] < MaxTickLength
      BY <1>4 DEF Tick
    <3>2. age'[w] = IF age[w] <= Lease THEN age[w] + 1 ELSE age[w]
      BY <1>4 DEF Tick
    <3>3. age[w] \in Nat
      OBVIOUS
    <3> QED BY <3>1, <3>2, <3>3
  <2> QED BY <2>1, <2>2, <2>3
<1>5. ASSUME NEW v \in Worker, Step(v) \/ CallFails(v) \/ Stop(v) \/ Start(v), v # w
      PROVE  TickWithinClaim(w)'
  <2>1. /\ proc'[w] = proc[w] /\ pc'[w] = pc[w] /\ age'[w] = age[w] /\ todo'[w] = todo[w]
        /\ claimed'[w] = claimed[w] /\ current'[w] = current[w] /\ born' = born
    BY <1>5 DEF Step, Claim, Renew, Drop, StartUser, Connected, ConnectDenied, MarkReauth,
                SyncEnds, EndTick, NextUser, CallFails, Stop, Start, BeginStop, CloseClients,
                ReleaseLeases, Exit, Crash, Lost
  <2> QED BY <2>1
<1>6. CASE Claim(w)
  <2>1. PICK users \in SUBSET User :
          /\ claimed' = [claimed EXCEPT ![w] = {<<x, born[x]>> : x \in users}]
          /\ todo' = [todo EXCEPT ![w] = users]
    BY <1>6 DEF Claim
  <2>2. /\ age'[w] = 0 /\ pc'[w] = "renew" /\ proc'[w] # "down" /\ born' = born
    BY <1>6 DEF Claim, Alive
  <2> QED BY <2>1, <2>2
<1>7. CASE StartUser(w)
  <2>1. PICK u \in todo[w] :
          /\ todo' = [todo EXCEPT ![w] = @ \ {u}]
          /\ IF ClientFor(w, u) = NoClient
               THEN UNCHANGED <<pc, current, using>>
               ELSE /\ current' = [current EXCEPT ![w] = u]
                    /\ Goto(w, "connect")
    BY <1>7 DEF StartUser
  <2>2. /\ UNCHANGED <<proc, age, claimed, born>>
        /\ proc[w] # "down" /\ pc[w] = "next"
    BY <1>7 DEF StartUser, Alive
  <2>3. CASE ClientFor(w, u) = NoClient
    BY <2>1, <2>2, <2>3
  <2>4. CASE ClientFor(w, u) # NoClient
    <3>1. current'[w] = u /\ pc'[w] = "connect" /\ todo'[w] \subseteq todo[w]
      BY <2>1, <2>4
    <3> QED BY <2>2, <3>1
  <2> QED BY <2>3, <2>4
<1>8. CASE Renew(w) \/ Drop(w) \/ Connected(w) \/ ConnectDenied(w)
  <2>1. /\ UNCHANGED <<proc, age, claimed, born, todo, current>>
        /\ proc[w] # "down" /\ pc[w] \notin {"sleep", "claim"}
        /\ pc'[w] \in InLoop => pc[w] \in InLoop
        /\ pc'[w] \notin {"sleep", "claim"}
    BY <1>8 DEF Renew, Drop, Connected, ConnectDenied, Alive
  <2> QED BY <2>1
<1>9. CASE MarkReauth(w) \/ SyncEnds(w) \/ EndTick(w)
  <2>1. /\ UNCHANGED <<proc, age, claimed, born, todo>>
        /\ proc[w] # "down" /\ pc[w] \notin {"sleep", "claim"}
        /\ pc'[w] \in {"next", "sleep"}
    BY <1>9 DEF MarkReauth, SyncEnds, EndTick, NextUser, Alive
  <2> QED BY <2>1
<1>10. CASE CallFails(w)
  <2>1. /\ UNCHANGED <<proc, age, claimed, born>>
        /\ proc[w] # "down"
        /\ pc'[w] \in {"next", "sleep"}
        /\ pc'[w] = "next" => pc[w] \notin {"sleep", "claim"}
    BY <1>10 DEF CallFails, NextUser, Alive
  <2>2. todo'[w] \subseteq todo[w]
    BY <1>10 DEF CallFails
  <2> QED BY <2>1, <2>2
<1>11. CASE Stop(w)
  <2>1. CASE BeginStop(w) \/ CloseClients(w) \/ ReleaseLeases(w)
    BY <2>1 DEF BeginStop, CloseClients, ReleaseLeases
  <2>2. CASE Exit(w) \/ Crash(w)
    BY <2>2 DEF Exit, Crash, Lost
  <2> QED BY <1>11, <2>1, <2>2 DEF Stop
<1>12. CASE Start(w)
  BY <1>12 DEF Start
<1>13. CASE UNCHANGED vars
  BY <1>13 DEF vars
<1> QED
  BY <1>1, <1>2, <1>3, <1>4, <1>5, <1>6, <1>7, <1>8, <1>9, <1>10, <1>11, <1>12, <1>13
  DEF Next, Step

LEMMA SplitInvSuffices ==
  ASSUME SplitInv, MaxTickLength \in Nat, MaxTickLength <= Lease
  PROVE  OneSyncer
<1> SUFFICES ASSUME logouts = 0, NEW u \in User, NEW v \in Worker, NEW w \in Worker,
                    Syncs(v, u), Syncs(w, u)
             PROVE  v = w
  BY DEF OneSyncer
<1>1. ASSUME NEW x \in Worker, Syncs(x, u) PROVE HoldsLease(x, u)
  <2>1. /\ age[x] <= MaxTickLength
        /\ <<u, born[u]>> \in claimed[x]
    BY <1>1 DEF SplitInv, TickWithinClaim, Syncs, Works, InLoop
  <2>2. age[x] <= Lease
    BY <2>1 DEF SplitInv, LeaseInv, TypeOK
  <2>3. status[u] # "none"
    BY <2>1 DEF SplitInv, ClaimsLast
  <2> QED BY <2>1, <2>2, <2>3 DEF HoldsLease
<1> QED BY <1>1, LeaseInvSuffices DEF SplitInv, LeaseExclusive

LEMMA SplitInvStep ==
  ASSUME SplitInv, [Next]_vars, MaxTickLength \in Nat
  PROVE  SplitInv'
<1>1. LeaseInv'
  BY LeaseInvStep DEF SplitInv
<1>2. ASSUME logouts' = 0 PROVE logouts = 0
  BY <1>2, LogoutsGrow DEF SplitInv, LeaseInv
<1>3. ASSUME logouts' = 0 PROVE ClaimsLast'
  BY <1>2, <1>3, ClaimsLastStep DEF SplitInv
<1>4. ASSUME logouts' = 0, NEW w \in Worker PROVE TickWithinClaim(w)'
  BY <1>1, <1>2, <1>4, TickWithinClaimStep DEF LeaseInv
<1> QED BY <1>1, <1>3, <1>4 DEF SplitInv

\* What a worker that has not released its leases works on, or is about to, it
\* has claimed, however long a tick and a lease are, until a user logs out
\* (SplitInv).
THEOREM WorkIsClaimed ==
  ASSUME MaxTickLength \in Nat
  PROVE  Spec => []SplitInv
<1>1. SplitInv /\ [Next]_vars => SplitInv'
  BY SplitInvStep
<1> QED BY <1>1, InitSplitInv, PTL DEF Spec

\* The workers, running or about to stop, split the users among them
\* (OneSyncer), if no tick lasts longer than a lease and until a user logs out.
THEOREM Split ==
  ASSUME MaxTickLength \in Nat, MaxTickLength <= Lease
  PROVE  Spec => []OneSyncer
<1>1. Spec => []SplitInv
  BY WorkIsClaimed
<1>2. SplitInv => OneSyncer
  BY SplitInvSuffices
<1> QED BY <1>1, <1>2, PTL

-----------------------------------------------------------------------------
(* The clients of a running worker belong to its last claim.  To keep that  *)
(* in the loop, what the tick has still to do must come from the claim, and *)
(* a process that starts must have nothing left over.                       *)

FreshTick(w) ==
  /\ proc[w] = "up" => todo[w] \subseteq owned[w]
  /\ proc[w] = "down" => pc[w] = "claim" /\ todo[w] = {}

ClientInv ==
  /\ TypeOK
  /\ \A w \in Worker : FreshTick(w)
  /\ ClientsClaimed

\* Users, Telegram and the clock touch neither clients nor claims, and wake a
\* worker only for its next claim.
LEMMA EnvironmentKeepsClients ==
  ASSUME ClientInv,
         \/ \E u \in User : Login(u) \/ Logout(u)
         \/ \E x \in 1..MaxLogins : Reject(x)
         \/ Tick
         \/ UNCHANGED vars,
         NEW w \in Worker
  PROVE  FreshTick(w)' /\ ClientsClaimed'
<1> USE DEF ClientInv, TypeOK, tickVars
<1>1. UNCHANGED <<proc, owned, todo, client>>
  BY DEF Login, Logout, Reject, Tick, vars
<1>2. \A v \in Worker : \/ pc'[v] = pc[v]
                        \/ pc'[v] = "claim" /\ proc[v] = "up"
  BY DEF Login, Logout, Reject, Tick, vars
<1> QED BY <1>1, <1>2 DEF FreshTick, ClientsClaimed, InLoop

\* What one worker does leaves the others' ticks and clients alone.
LEMMA OneWorkerMoves ==
  ASSUME TypeOK, NEW v \in Worker, Step(v) \/ CallFails(v) \/ Stop(v) \/ Start(v),
         NEW w \in Worker, w # v
  PROVE  /\ proc'[w] = proc[w] /\ pc'[w] = pc[w] /\ owned'[w] = owned[w]
         /\ todo'[w] = todo[w] /\ client'[w] = client[w]
<1> USE DEF TypeOK, tickVars, Goto, NextUser, Lost
<1>1. CASE Step(v)
  BY <1>1 DEF Step, Claim, Renew, Drop, StartUser, Connected, ConnectDenied, MarkReauth,
              SyncEnds, EndTick
<1>2. CASE CallFails(v)
  BY <1>2 DEF CallFails
<1>3. CASE Stop(v) \/ Start(v)
  BY <1>3 DEF Stop, Start, BeginStop, CloseClients, ReleaseLeases, Exit, Crash
<1> QED BY <1>1, <1>2, <1>3

OwnClients(w) ==
  proc[w] = "up" /\ pc[w] \in InLoop \cup {"next"} =>
    \A u \in User : client[w][u] # NoClient => u \in owned[w]

\* A worker fills its loop from the claim, drops what it did not claim before
\* the loop, and opens clients for what is in the loop only.
LEMMA WorkerKeepsClients ==
  ASSUME TypeOK, NEW w \in Worker, FreshTick(w), OwnClients(w),
         Step(w) \/ CallFails(w) \/ Stop(w) \/ Start(w)
  PROVE  FreshTick(w)' /\ OwnClients(w)'
<1> USE DEF TypeOK, tickVars, Goto, NextUser, FreshTick, OwnClients, InLoop, Alive
<1>1. CASE Claim(w)
  <2>1. PICK users \in SUBSET User :
          /\ owned' = [owned EXCEPT ![w] = users]
          /\ todo' = [todo EXCEPT ![w] = users]
    BY <1>1 DEF Claim
  <2>2. pc'[w] = "renew" /\ proc'[w] # "down"
    BY <1>1 DEF Claim
  <2> QED BY <2>1, <2>2
<1>2. CASE Renew(w) \/ Connected(w) \/ ConnectDenied(w) \/ SyncEnds(w) \/ EndTick(w)
  <2>1. /\ UNCHANGED <<proc, owned, todo, client>> /\ proc[w] # "down"
        /\ pc'[w] \in InLoop \cup {"next"} => pc[w] \in InLoop \cup {"next"}
    BY <1>2 DEF Renew, Connected, ConnectDenied, SyncEnds, EndTick
  <2> QED BY <2>1
<1>3. CASE Drop(w)
  <2>1. /\ UNCHANGED <<proc, owned, todo>> /\ proc[w] # "down"
        /\ \A u \in User : client'[w][u] # NoClient => u \in owned[w]
    BY <1>3 DEF Drop, Keeps
  <2> QED BY <2>1
<1>4. CASE StartUser(w)
  <2>1. PICK u \in todo[w] :
          /\ todo' = [todo EXCEPT ![w] = @ \ {u}]
          /\ client' = [client EXCEPT ![w] = [@ EXCEPT ![u] = ClientFor(w, u)]]
    BY <1>4 DEF StartUser
  <2>2. UNCHANGED <<proc, owned>> /\ pc[w] = "next" /\ proc[w] # "down"
    BY <1>4 DEF StartUser
  <2>3. \A x \in User : x # u => client'[w][x] = client[w][x]
    BY <2>1
  <2> QED BY <2>1, <2>2, <2>3
<1>5. CASE MarkReauth(w)
  <2>1. client' = [client EXCEPT ![w] = [@ EXCEPT ![current[w]] = NoClient]]
    BY <1>5 DEF MarkReauth
  <2>2. /\ UNCHANGED <<proc, owned, todo>> /\ proc[w] # "down"
        /\ pc[w] \in InLoop
    BY <1>5 DEF MarkReauth
  <2>3. \A x \in User : client'[w][x] \in {client[w][x], NoClient}
    BY <2>1
  <2> QED BY <2>2, <2>3
<1>6. CASE CallFails(w)
  <2>1. /\ UNCHANGED <<proc, owned, client>> /\ proc[w] # "down"
        /\ pc'[w] \in InLoop \cup {"next"} => pc[w] \in InLoop \cup {"next"}
    BY <1>6 DEF CallFails
  <2>2. todo'[w] \subseteq todo[w]
    BY <1>6 DEF CallFails
  <2> QED BY <2>1, <2>2
<1>7. CASE BeginStop(w) \/ CloseClients(w) \/ ReleaseLeases(w)
  BY <1>7 DEF BeginStop, CloseClients, ReleaseLeases
<1>8. CASE Exit(w) \/ Crash(w)
  <2>1. proc'[w] = "down" /\ pc'[w] = "claim" /\ todo'[w] = {}
    BY <1>8 DEF Exit, Crash, Lost
  <2> QED BY <2>1
<1>9. CASE Start(w)
  <2>1. pc'[w] = "claim" /\ todo'[w] = {} /\ proc'[w] = "up"
    BY <1>9 DEF Start
  <2> QED BY <2>1
<1> QED BY <1>1, <1>2, <1>3, <1>4, <1>5, <1>6, <1>7, <1>8, <1>9 DEF Step, Stop

LEMMA ClientInvStep == ClientInv /\ [Next]_vars => ClientInv'
<1> SUFFICES ASSUME ClientInv, [Next]_vars PROVE ClientInv'
  OBVIOUS
<1>1. TypeOK'
  BY Typing DEF ClientInv
<1>2. ASSUME NEW v \in Worker, Step(v) \/ CallFails(v) \/ Stop(v) \/ Start(v),
             NEW w \in Worker
      PROVE  FreshTick(w)' /\ OwnClients(w)'
  <2>1. TypeOK /\ FreshTick(w) /\ OwnClients(w)
    BY DEF ClientInv, ClientsClaimed, OwnClients
  <2>2. CASE w = v
    BY <1>2, <2>1, <2>2, WorkerKeepsClients
  <2>3. CASE w # v
    <3>1. /\ proc'[w] = proc[w] /\ pc'[w] = pc[w] /\ owned'[w] = owned[w]
          /\ todo'[w] = todo[w] /\ client'[w] = client[w]
      BY <1>2, <2>1, <2>3, OneWorkerMoves
    <3> QED BY <2>1, <3>1 DEF FreshTick, OwnClients
  <2> QED BY <2>2, <2>3
<1>3. CASE \E v \in Worker : Step(v) \/ CallFails(v) \/ Stop(v) \/ Start(v)
  BY <1>1, <1>2, <1>3 DEF ClientInv, ClientsClaimed, OwnClients
<1>4. ASSUME \/ \E u \in User : Login(u) \/ Logout(u)
             \/ \E x \in 1..MaxLogins : Reject(x)
             \/ Tick
             \/ UNCHANGED vars
      PROVE  ClientInv'
  <2>1. ASSUME NEW w \in Worker PROVE FreshTick(w)' /\ ClientsClaimed'
    BY <1>4, EnvironmentKeepsClients
  <2>2. CASE Worker = {}
    BY <1>1, <2>2 DEF ClientInv, ClientsClaimed
  <2> QED BY <1>1, <2>1, <2>2 DEF ClientInv
<1> QED BY <1>3, <1>4 DEF Next

\* In the loop of its tick a worker has clients for users of its last claim
\* only (ClientsClaimed), whoever logs in and out and whatever fails or stops.
THEOREM ClientsBelong == Spec => []ClientsClaimed
<1>1. Init => ClientInv
  BY InitTypeOK DEF Init, ClientInv, FreshTick, ClientsClaimed, InLoop
<1>2. ClientInv => ClientsClaimed
  BY DEF ClientInv
<1> QED BY <1>1, <1>2, ClientInvStep, PTL DEF Spec
=============================================================================
