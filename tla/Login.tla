-------------------------------- MODULE Login --------------------------------
(***************************************************************************)
(* How a user connects a Telegram account: the login page (Login.tsx), the  *)
(* routes behind it (loginRoutes.ts) and LoginManager (login.ts), which     *)
(* keeps the logins in memory, each with a client that is connected to      *)
(* Telegram, until its session is saved, it is cancelled or it is too old.  *)
(*                                                                          *)
(* One user with any number of pages.  A request is a process of the        *)
(* server: between two of its awaits it may be overtaken by another on the  *)
(* same login, which a page sends when it has lost the response to the      *)
(* first, by the sweeper, or by a restart.  Clients are numbered as the     *)
(* logins they are opened for.                                              *)
(***************************************************************************)
EXTENDS Integers

CONSTANTS
  Page,        \* login pages that are open
  NoPage,      \* the sender of a request that no page waits for
  Request,     \* requests in flight
  NoRequest,
  MaxLogins,   \* bound: clients opened
  MaxFaults,   \* bound: lost responses, failed queries and calls to Telegram
  MaxCrashes   \* bound: restarts of the server

ASSUME PageAssumption == NoPage \notin Page /\ NoRequest \notin Request
ASSUME MaxLoginsAssumption == MaxLogins \in Nat

VARIABLES
  stage,       \* page: the fieldset that is enabled
  loginOf,     \* page: loginId, or NoLogin
  waiting,     \* page: the request it is busy with, or NoRequest
  handler,     \* the request, the login it is about and where its handler is
  sessions,    \* the logins in memory
  bindings,    \* loginBindings
  old,         \* the logins that are older than LOGIN_TTL_MS
  opened,      \* the number of clients opened
  connected,   \* the clients that are connected
  twoFactor,   \* Telegram: whether the account has a password
  authorized,  \* Telegram: the clients that are logged in
  saved,       \* history: the logins whose session has been saved
  leaked,      \* history: clients whose sendCode failed
  lost,        \* history: clients that were logged in and could not be saved
  faults, crashes

pageVars == <<stage, loginOf, waiting>>
loginVars == <<sessions, bindings, old, opened, connected>>
telegramVars == <<twoFactor, authorized>>
history == <<saved, leaked, lost>>
vars == <<pageVars, handler, loginVars, telegramVars, history, faults, crashes>>

Logins == 1..MaxLogins
NoLogin == 0

(***************************************************************************)
(* Where a handler is:                                                      *)
(* "begin"       it has not been run                                        *)
(* "sendCode"    connected, waiting for sendCode                            *)
(* "sent"        SignIn or CheckPassword is on its way to Telegram          *)
(* "accepted"    Telegram has accepted it, the answer is on its way         *)
(* "save"        finalize: waiting for getMe, then for saveSession          *)
(* "disconnect"  finalize: the session is saved                             *)
(* "delete"      the client is disconnected, the login still in memory      *)
(***************************************************************************)
Location == {"begin", "sendCode", "sent", "accepted", "save", "disconnect", "delete"}

Idle == [kind |-> "none", page |-> NoPage, login |-> NoLogin, at |-> "begin"]

Init ==
  /\ stage = [p \in Page |-> "phone"]
  /\ loginOf = [p \in Page |-> NoLogin]
  /\ waiting = [p \in Page |-> NoRequest]
  /\ handler = [r \in Request |-> Idle]
  /\ sessions = {}
  /\ bindings = {}
  /\ old = {}
  /\ opened = 0
  /\ connected = {}
  /\ twoFactor \in BOOLEAN
  /\ authorized = {}
  /\ saved = {}
  /\ leaked = {}
  /\ lost = {}
  /\ faults = 0
  /\ crashes = 0

-----------------------------------------------------------------------------
(* The page *)

\* The kind of request each fieldset sends.
Submits == [phone |-> "start", code |-> "code", password |-> "password"]

\* The button of the fieldset that is enabled; "busy" disables it.
Submit(p) ==
  /\ stage[p] \in DOMAIN Submits
  /\ waiting[p] = NoRequest
  /\ stage[p] = "phone" => opened < MaxLogins
  /\ \E r \in Request :
       /\ handler[r] = Idle
       /\ handler' = [handler EXCEPT ![r] =
            [kind |-> Submits[stage[p]], page |-> p, login |-> loginOf[p], at |-> "begin"]]
       /\ waiting' = [waiting EXCEPT ![p] = r]
  /\ UNCHANGED <<stage, loginOf, loginVars, telegramVars, history, faults, crashes>>

\* The response is lost: the page shows an error and can be used again, while
\* the handler goes on.
LoseResponse(p) ==
  /\ waiting[p] # NoRequest
  /\ faults < MaxFaults
  /\ faults' = faults + 1
  /\ waiting' = [waiting EXCEPT ![p] = NoRequest]
  /\ UNCHANGED <<stage, loginOf, handler, loginVars, telegramVars, history, crashes>>

\* The page is loaded anew from the same link.
ReloadPage(p) ==
  /\ opened > 0
  /\ stage[p] # "phone" \/ waiting[p] # NoRequest
  /\ stage' = [stage EXCEPT ![p] = "phone"]
  /\ loginOf' = [loginOf EXCEPT ![p] = NoLogin]
  /\ waiting' = [waiting EXCEPT ![p] = NoRequest]
  /\ UNCHANGED <<handler, loginVars, telegramVars, history, faults, crashes>>

\* Wrong: the page takes any response, also one it no longer waits for.
Hearsay(p, r) == p \in Page

Hears(p, r) == p \in Page /\ waiting[p] = r

\* The handler of r ends, with the next stage of the page or "error".
Reply(r, result) ==
  LET p == handler[r].page
      heard == Hears(p, r)
  IN /\ handler' = [handler EXCEPT ![r] = Idle]
     /\ waiting' = IF heard THEN [waiting EXCEPT ![p] = NoRequest] ELSE waiting
     /\ stage' = IF heard /\ result # "error" THEN [stage EXCEPT ![p] = result] ELSE stage
     /\ loginOf' = IF heard /\ result = "code" THEN [loginOf EXCEPT ![p] = handler[r].login]
                                               ELSE loginOf

Goto(r, location) ==
  /\ handler' = [handler EXCEPT ![r].at = location]
  /\ UNCHANGED pageVars

-----------------------------------------------------------------------------
(* /login/api/start *)

\* The link may have expired, or Telegram not be reached.
StartRefused(r) ==
  /\ handler[r].kind = "start"
  /\ handler[r].at = "begin"
  /\ Reply(r, "error")
  /\ UNCHANGED <<loginVars, telegramVars, history, faults, crashes>>

Connect(r) ==
  /\ handler[r].kind = "start"
  /\ handler[r].at = "begin"
  /\ opened < MaxLogins
  /\ opened' = opened + 1
  /\ connected' = connected \cup {opened'}
  /\ handler' = [handler EXCEPT ![r].at = "sendCode", ![r].login = opened']
  /\ UNCHANGED <<pageVars, sessions, bindings, old, telegramVars, history, faults, crashes>>

CodeSent(r) ==
  /\ handler[r].at = "sendCode"
  /\ sessions' = sessions \cup {handler[r].login}
  /\ bindings' = bindings \cup {handler[r].login}
  /\ Reply(r, "code")
  /\ UNCHANGED <<old, opened, connected, telegramVars, history, faults, crashes>>

\* Nothing disconnects the client.
SendCodeFails(r) ==
  /\ handler[r].at = "sendCode"
  /\ faults < MaxFaults
  /\ faults' = faults + 1
  /\ leaked' = leaked \cup {handler[r].login}
  /\ Reply(r, "error")
  /\ UNCHANGED <<loginVars, telegramVars, saved, lost, crashes>>

-----------------------------------------------------------------------------
(* /login/api/code and /login/api/password *)

Submission(r) == handler[r].kind \in {"code", "password"}

\* No authorization (the link may have expired at any time), or mustGet throws.
Refused(r) ==
  /\ Submission(r)
  /\ handler[r].at = "begin"
  /\ Reply(r, "error")
  /\ UNCHANGED <<loginVars, telegramVars, history, faults, crashes>>

Invoke(r) ==
  /\ Submission(r)
  /\ handler[r].at = "begin"
  /\ handler[r].login \in bindings \cap sessions
  /\ Goto(r, "sent")
  /\ UNCHANGED <<loginVars, telegramVars, history, faults, crashes>>

\* A wrong code or password, one that was used up, or no connection any more.
Rejected(r) ==
  /\ handler[r].at = "sent"
  /\ Reply(r, "error")
  /\ UNCHANGED <<loginVars, telegramVars, history, faults, crashes>>

PasswordNeeded(r) ==
  /\ handler[r].at = "sent"
  /\ handler[r].kind = "code"
  /\ twoFactor
  /\ handler[r].login \in connected
  /\ Reply(r, "password")
  /\ UNCHANGED <<loginVars, telegramVars, history, faults, crashes>>

\* Telegram logs the client in.  It takes a code once and a password again.
Accept(r) ==
  /\ handler[r].at = "sent"
  /\ handler[r].login \in connected
  /\ IF handler[r].kind = "code" THEN ~ twoFactor /\ handler[r].login \notin authorized
                                 ELSE twoFactor
  /\ authorized' = authorized \cup {handler[r].login}
  /\ Goto(r, "accepted")
  /\ UNCHANGED <<loginVars, twoFactor, history, faults, crashes>>

\* The answer, or, without a connection, an error.
Accepted(r) ==
  LET id == handler[r].login
  IN /\ handler[r].at = "accepted"
     /\ IF id \in connected
        THEN Goto(r, "save") /\ UNCHANGED lost
        ELSE Reply(r, "error") /\ lost' = lost \cup {id}
     /\ UNCHANGED <<loginVars, telegramVars, saved, leaked, faults, crashes>>

\* Wrong: the session is not saved when getMe fails.
SaveIfKnown(r) ==
  /\ handler[r].at = "save"
  /\ IF handler[r].login \in connected
     THEN saved' = saved \cup {handler[r].login} /\ Goto(r, "disconnect")
     ELSE Reply(r, "error") /\ UNCHANGED saved
  /\ UNCHANGED <<loginVars, telegramVars, leaked, lost, faults, crashes>>

\* saveSession, with the string taken from the client before; getMe may fail.
Save(r) ==
  /\ handler[r].at = "save"
  /\ saved' = saved \cup {handler[r].login}
  /\ Goto(r, "disconnect")
  /\ UNCHANGED <<loginVars, telegramVars, leaked, lost, faults, crashes>>

\* Wrong: saveSession is not awaited.
SaveFailsUnseen(r) ==
  /\ handler[r].at = "save"
  /\ faults < MaxFaults
  /\ faults' = faults + 1
  /\ lost' = lost \cup {handler[r].login}
  /\ Goto(r, "disconnect")
  /\ UNCHANGED <<loginVars, telegramVars, saved, leaked, crashes>>

SaveFails(r) ==
  /\ handler[r].at = "save"
  /\ faults < MaxFaults
  /\ faults' = faults + 1
  /\ lost' = lost \cup {handler[r].login}
  /\ Reply(r, "error")
  /\ UNCHANGED <<loginVars, telegramVars, saved, leaked, crashes>>

Disconnect(r) ==
  /\ handler[r].at = "disconnect"
  /\ connected' = connected \ {handler[r].login}
  /\ Goto(r, "delete")
  /\ UNCHANGED <<sessions, bindings, old, opened, telegramVars, history, faults, crashes>>

Delete(r) ==
  /\ handler[r].at = "delete"
  /\ sessions' = sessions \ {handler[r].login}
  /\ bindings' = bindings \ {handler[r].login}
  /\ Reply(r, IF Submission(r) THEN "done" ELSE "error")
  /\ UNCHANGED <<old, opened, connected, telegramVars, history, faults, crashes>>

-----------------------------------------------------------------------------
(* /login/api/cancel, which no page of the repository sends *)

AskToCancel(id) ==
  /\ id \in bindings
  /\ \E r \in Request :
       /\ handler[r] = Idle
       /\ handler' = [handler EXCEPT ![r] =
            [kind |-> "cancel", page |-> NoPage, login |-> id, at |-> "begin"]]
  /\ UNCHANGED <<pageVars, loginVars, telegramVars, history, faults, crashes>>

\* The login may be gone; its binding is deleted all the same ("delete").
Cancel(r) ==
  /\ handler[r].kind = "cancel"
  /\ handler[r].at = "begin"
  /\ connected' = connected \ ({handler[r].login} \cap sessions)
  /\ Goto(r, "delete")
  /\ UNCHANGED <<sessions, bindings, old, opened, telegramVars, history, faults, crashes>>

-----------------------------------------------------------------------------
(* The sweeper and the process *)

GrowOld(id) ==
  /\ id \in sessions \ old
  /\ old' = old \cup {id}
  /\ UNCHANGED <<pageVars, handler, sessions, bindings, opened, connected>>
  /\ UNCHANGED <<telegramVars, history, faults, crashes>>

\* Wrong: a login that Telegram has accepted is left to finalize.
ExpiredUnfinished(id) == id \in (sessions \cap old) \ authorized

Expired(id) == id \in sessions \cap old

\* Wrong: the login is forgotten and its client is not.
StillConnected(id) == connected

Disconnected(id) == connected \ {id}

\* The binding stays.
Sweep(id) ==
  /\ Expired(id)
  /\ connected' = Disconnected(id)
  /\ sessions' = sessions \ {id}
  /\ UNCHANGED <<pageVars, handler, bindings, old, opened>>
  /\ UNCHANGED <<telegramVars, history, faults, crashes>>

\* Everything that is in memory goes, and every connection.
Crash ==
  /\ crashes < MaxCrashes
  /\ crashes' = crashes + 1
  /\ handler' = [r \in Request |-> Idle]
  /\ waiting' = [p \in Page |-> NoRequest]
  /\ sessions' = {}
  /\ bindings' = {}
  /\ connected' = {}
  /\ lost' = lost \cup (authorized \ saved)
  /\ UNCHANGED <<stage, loginOf, old, opened, telegramVars, saved, leaked, faults>>

-----------------------------------------------------------------------------

Handle(r) ==
  \/ StartRefused(r) \/ Connect(r) \/ CodeSent(r) \/ SendCodeFails(r)
  \/ Refused(r) \/ Invoke(r) \/ Rejected(r) \/ PasswordNeeded(r)
  \/ Accept(r) \/ Accepted(r)
  \/ Save(r) \/ SaveFails(r) \/ Disconnect(r) \/ Delete(r)
  \/ Cancel(r)

Next ==
  \/ \E p \in Page : Submit(p) \/ LoseResponse(p) \/ ReloadPage(p)
  \/ \E r \in Request : Handle(r)
  \/ \E id \in Logins : AskToCancel(id) \/ GrowOld(id) \/ Sweep(id)
  \/ Crash

Spec == Init /\ [][Next]_vars

\* Time passes and the sweeper's timer goes off; nothing is assumed of pages,
\* of handlers or of Telegram.
FairSpec == Spec /\ \A id \in Logins : WF_vars(GrowOld(id)) /\ WF_vars(Sweep(id))

-----------------------------------------------------------------------------
(* Properties *)

\* Every variable has a value of its kind.
TypeOK ==
  /\ stage \in [Page -> {"phone", "code", "password", "done"}]
  /\ loginOf \in [Page -> Logins \cup {NoLogin}]
  /\ \A p \in Page : stage[p] = "phone" <=> loginOf[p] = NoLogin
  /\ waiting \in [Page -> Request \cup {NoRequest}]
  /\ handler \in [Request -> [kind : {"none", "start", "code", "password", "cancel"},
                              page : Page \cup {NoPage},
                              login : Logins \cup {NoLogin},
                              at : Location]]
  /\ opened \in 0..MaxLogins
  /\ sessions \cup old \cup connected \cup authorized \cup saved \cup leaked \cup lost
       \subseteq 1..opened
  /\ sessions \subseteq bindings
  /\ bindings \subseteq 1..opened
  /\ twoFactor \in BOOLEAN

(***************************************************************************)
(* No connection to Telegram is left open by accident: a client that is     *)
(* connected is in the hands of startLogin, or of a login that the sweeper  *)
(* will find, whatever handlers fail or overtake each other on it.  The one *)
(* exception is startLogin when sendCode fails.                             *)
(***************************************************************************)
ClientsOwned ==
  \A id \in connected :
    \/ id \in sessions \cup leaked
    \/ \E r \in Request : handler[r].login = id /\ handler[r].at = "sendCode"

(***************************************************************************)
(* "Connected! You can close this page" (Login.tsx) is true: the session of *)
(* the login the page was about has been saved, even if the login has been  *)
(* swept or cancelled while it was finalized.                               *)
(***************************************************************************)
DoneIsSaved == \A p \in Page : stage[p] = "done" => loginOf[p] \in saved

(***************************************************************************)
(* A client that Telegram has logged in is being finalized or its session   *)
(* has been saved, or it was lost: the query failed, the process died, or   *)
(* the sweeper or a cancel closed the connection before the answer came.    *)
(* (The device stays in the user's list of sessions then, and the code is   *)
(* used up, so that submitting it again does not help.)                     *)
(***************************************************************************)
LoggedInIsSaved ==
  \A id \in authorized \ (saved \cup lost) :
    \E r \in Request : handler[r].login = id /\ handler[r].at \in {"accepted", "save"}

(***************************************************************************)
(* No login stays in memory for ever, however its requests end.             *)
(***************************************************************************)
LoginsEnd == \A id \in Logins : id \in sessions ~> id \notin sessions
=============================================================================
