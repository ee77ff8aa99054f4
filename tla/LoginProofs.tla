----------------------------- MODULE LoginProofs -----------------------------
(***************************************************************************)
(* Theorems about logins (Login), for any number of pages, requests,        *)
(* logins, faults and restarts.                                             *)
(***************************************************************************)
EXTENDS Login, TLAPS

USE PageAssumption, MaxLoginsAssumption

-----------------------------------------------------------------------------
(* The inductive invariant *)

Finishing == {"code", "password", "cancel"}

\* Where a handler may be, by what it handles, and what it has done there
Handlers ==
  \A r \in Request :
    /\ handler[r].login \in 0..opened
    /\ handler[r].kind = "none" => handler[r] = Idle
    /\ handler[r].kind = "start" => handler[r].at \in {"begin", "sendCode"}
    /\ handler[r].at = "sendCode" => handler[r].kind = "start" /\ handler[r].login \in 1..opened
    /\ handler[r].kind \in Finishing => handler[r].login \in 1..opened
    /\ handler[r].kind = "cancel" => handler[r].at \in {"begin", "delete"}
    /\ handler[r].at \in {"disconnect", "delete"} /\ handler[r].kind # "cancel" =>
         handler[r].login \in saved
    /\ handler[r].at = "delete" => handler[r].login \notin connected

\* A page waits for the request it has sent.
Pages ==
  \A p \in Page :
    /\ loginOf[p] \in 0..opened
    /\ stage[p] = "done" => loginOf[p] \in saved
    /\ waiting[p] # NoRequest =>
         /\ stage[p] # "done"
         /\ handler[waiting[p]].page = p
         /\ handler[waiting[p]].kind = IF stage[p] = "phone" THEN "start" ELSE stage[p]
         /\ stage[p] # "phone" => handler[waiting[p]].login = loginOf[p]

\* A login that startLogin has not returned is known to nobody else, and one
\* whose sendCode failed to nobody at all.
Separate ==
  /\ leaked \cap bindings = {}
  /\ \A p \in Page : loginOf[p] \notin leaked
  /\ \A r \in Request : handler[r].kind \in Finishing => handler[r].login \notin leaked
  /\ \A q \in Request : handler[q].at = "sendCode" =>
       /\ handler[q].login \notin bindings \cup leaked
       /\ \A p \in Page : loginOf[p] # handler[q].login
       /\ \A r \in Request \ {q} : handler[r].login # handler[q].login

IInv == TypeOK /\ Handlers /\ Pages /\ Separate /\ ClientsOwned /\ LoggedInIsSaved

-----------------------------------------------------------------------------
(* The page *)

Fieldset == {"phone", "code", "password", "done"}

HandlerState == [kind : {"none", "start", "code", "password", "cancel"},
                 page : Page \cup {NoPage}, login : Logins \cup {NoLogin}, at : Location]

LEMMA SubmitsOf ==
  /\ DOMAIN Submits = {"phone", "code", "password"}
  /\ Submits["phone"] = "start" /\ Submits["code"] = "code" /\ Submits["password"] = "password"
BY DEF Submits

LEMMA SubmitStep ==
  ASSUME IInv, NEW p \in Page, Submit(p)
  PROVE  IInv'
<1>1. PICK r \in Request :
        /\ handler[r] = Idle
        /\ handler' = [handler EXCEPT ![r] =
             [kind |-> Submits[stage[p]], page |-> p, login |-> loginOf[p], at |-> "begin"]]
        /\ waiting' = [waiting EXCEPT ![p] = r]
  BY DEF Submit
<1>2. /\ UNCHANGED <<stage, loginOf, loginVars, telegramVars, history>>
      /\ stage[p] \in {"phone", "code", "password"}
      /\ Submits[stage[p]] = IF stage[p] = "phone" THEN "start" ELSE stage[p]
      /\ waiting[p] = NoRequest
  BY SubmitsOf DEF Submit
<1> DEFINE h == handler'[r]
<1>3. loginOf[p] \in Logins \cup {NoLogin} /\ handler \in [Request -> HandlerState]
  BY DEF IInv, TypeOK, HandlerState
<1>4. /\ handler' \in [Request -> HandlerState]
      /\ h.kind = Submits[stage[p]] /\ h.page = p /\ h.login = loginOf[p] /\ h.at = "begin"
      /\ \A q \in Request \ {r} : handler'[q] = handler[q]
  BY <1>1, <1>2, <1>3 DEF HandlerState, Location
<1>5. /\ waiting' \in [Page -> Request \cup {NoRequest}]
      /\ waiting'[p] = r
      /\ \A q \in Page \ {p} : waiting'[q] = waiting[q]
  BY <1>1 DEF IInv, TypeOK
<1>6. TypeOK'
  BY <1>2, <1>4, <1>5 DEF IInv, TypeOK, HandlerState, loginVars, telegramVars, history
<1>7. \A q \in Page \ {p} : waiting[q] # r
  BY <1>1 DEF IInv, Pages, Idle
<1>8. Handlers'
  <2>1. loginOf[p] \in 0..opened /\ (stage[p] # "phone" => loginOf[p] \in 1..opened)
    BY DEF IInv, TypeOK, Pages, NoLogin
  <2>2. UNCHANGED <<opened, saved, connected>>
    BY <1>2 DEF loginVars, history
  <2>3. h.kind \in {"start", "code", "password"} /\ (h.kind # "start" => stage[p] # "phone")
    BY <1>2, <1>4
  <2> QED BY <1>4, <2>1, <2>2, <2>3 DEF IInv, Handlers, Finishing
<1>9. Pages'
  BY <1>2, <1>4, <1>5, <1>7 DEF IInv, TypeOK, Pages, loginVars, history
<1>10. Separate'
  BY <1>1, <1>2, <1>4 DEF IInv, Separate, Pages, Finishing, loginVars, history
<1>11. ClientsOwned' /\ LoggedInIsSaved'
  BY <1>1, <1>2, <1>4
  DEF IInv, ClientsOwned, LoggedInIsSaved, Idle, loginVars, telegramVars, history
<1> QED BY <1>6, <1>8, <1>9, <1>10, <1>11 DEF IInv

LEMMA LoseResponseStep ==
  ASSUME IInv, NEW p \in Page, LoseResponse(p)
  PROVE  IInv'
<1>1. /\ waiting' = [waiting EXCEPT ![p] = NoRequest]
      /\ UNCHANGED <<stage, loginOf, handler, loginVars, telegramVars, history>>
  BY DEF LoseResponse
<1>2. TypeOK'
  BY <1>1 DEF IInv, TypeOK, loginVars, telegramVars, history
<1>3. Pages'
  BY <1>1 DEF IInv, TypeOK, Pages, loginVars, history
<1>4. Handlers' /\ Separate' /\ ClientsOwned' /\ LoggedInIsSaved'
  BY <1>1
  DEF IInv, Handlers, Separate, ClientsOwned, LoggedInIsSaved, loginVars, telegramVars, history
<1> QED BY <1>2, <1>3, <1>4 DEF IInv

LEMMA ReloadPageStep ==
  ASSUME IInv, NEW p \in Page, ReloadPage(p)
  PROVE  IInv'
<1>1. /\ stage' = [stage EXCEPT ![p] = "phone"]
      /\ loginOf' = [loginOf EXCEPT ![p] = NoLogin]
      /\ waiting' = [waiting EXCEPT ![p] = NoRequest]
      /\ UNCHANGED <<handler, loginVars, telegramVars, history>>
  BY DEF ReloadPage
<1>2. TypeOK'
  BY <1>1 DEF IInv, TypeOK, loginVars, telegramVars, history
<1>3. Pages'
  BY <1>1 DEF IInv, TypeOK, Pages, NoLogin, loginVars, history
<1>4. Separate'
  <2>1. \A q \in Request : handler[q].at = "sendCode" => handler[q].login # NoLogin
    BY DEF IInv, Handlers, NoLogin
  <2>2. NoLogin \notin leaked
    BY DEF IInv, TypeOK, NoLogin
  <2>3. \A q \in Page : loginOf'[q] \in {loginOf[q], NoLogin}
    BY <1>1 DEF IInv, TypeOK
  <2> QED BY <1>1, <2>1, <2>2, <2>3 DEF IInv, Separate, loginVars, history
<1>5. Handlers' /\ ClientsOwned' /\ LoggedInIsSaved'
  BY <1>1 DEF IInv, Handlers, ClientsOwned, LoggedInIsSaved, loginVars, telegramVars, history
<1> QED BY <1>2, <1>3, <1>4, <1>5 DEF IInv

-----------------------------------------------------------------------------
(* Handlers *)

\* A handler goes on, and with it a page that waits.
LEMMA GotoKeeps ==
  ASSUME IInv, NEW r \in Request, NEW location \in Location, Goto(r, location),
         opened' = opened, saved \subseteq saved'
  PROVE  /\ handler' \in [Request -> HandlerState]
         /\ \A q \in Request :
              /\ handler'[q].kind = handler[q].kind
              /\ handler'[q].page = handler[q].page
              /\ handler'[q].login = handler[q].login
              /\ handler'[q].at = IF q = r THEN location ELSE handler[q].at
              /\ q # r => handler'[q] = handler[q]
         /\ Pages'
         /\ /\ handler[r].at # "sendCode" /\ location # "sendCode"
            /\ bindings' \subseteq bindings /\ leaked' = leaked
            => Separate'
<1>1. handler \in [Request -> HandlerState]
  BY DEF IInv, TypeOK, HandlerState
<1>2. handler' = [handler EXCEPT ![r].at = location] /\ UNCHANGED pageVars
  BY DEF Goto
<1>3. handler' \in [Request -> HandlerState]
  BY <1>1, <1>2 DEF HandlerState
<1>4. \A q \in Request :
        /\ handler'[q].kind = handler[q].kind
        /\ handler'[q].page = handler[q].page
        /\ handler'[q].login = handler[q].login
        /\ handler'[q].at = IF q = r THEN location ELSE handler[q].at
        /\ q # r => handler'[q] = handler[q]
  BY <1>1, <1>2 DEF HandlerState
<1>5. Pages'
  BY <1>2, <1>4 DEF IInv, TypeOK, Pages, pageVars
<1>6. ASSUME handler[r].at # "sendCode", location # "sendCode",
             bindings' \subseteq bindings, leaked' = leaked
      PROVE  Separate'
  BY <1>2, <1>4, <1>6 DEF IInv, Separate, pageVars
<1> QED BY <1>3, <1>4, <1>5, <1>6

\* A handler ends, and a page that waits is shown the result.
LEMMA ReplyKeeps ==
  ASSUME IInv, NEW r \in Request, NEW result \in {"code", "password", "done", "error"},
         Reply(r, result), opened' = opened, saved \subseteq saved',
         result = "code" => handler[r].login \in 1..opened,
         result \in {"password", "done"} => Submission(r),
         result = "done" => handler[r].login \in saved'
  PROVE  /\ handler' \in [Request -> HandlerState]
         /\ handler'[r] = Idle
         /\ \A q \in Request \ {r} : handler'[q] = handler[q]
         /\ stage' \in [Page -> Fieldset]
         /\ loginOf' \in [Page -> Logins \cup {NoLogin}]
         /\ \A p \in Page : stage'[p] = "phone" <=> loginOf'[p] = NoLogin
         /\ waiting' \in [Page -> Request \cup {NoRequest}]
         /\ \A p \in Page : \/ loginOf'[p] = loginOf[p]
                            \/ result = "code" /\ loginOf'[p] = handler[r].login
         /\ Pages'
         /\ /\ result # "code" /\ handler[r].at # "sendCode"
            /\ bindings' \subseteq bindings /\ leaked' = leaked
            => Separate'
<1>1. /\ handler \in [Request -> HandlerState]
      /\ stage \in [Page -> Fieldset]
      /\ loginOf \in [Page -> Logins \cup {NoLogin}]
      /\ waiting \in [Page -> Request \cup {NoRequest}]
      /\ \A p \in Page : stage[p] = "phone" <=> loginOf[p] = NoLogin
  BY DEF IInv, TypeOK, HandlerState, Fieldset
<1>2. Idle \in HandlerState
  BY DEF Idle, HandlerState, Location
<1>3. handler' = [handler EXCEPT ![r] = Idle]
  BY DEF Reply
<1>4. \A p \in Page : waiting[p] = r => p = handler[r].page
  BY DEF IInv, Pages
<1>5. \A p \in Page :
        /\ waiting'[p] = IF waiting[p] = r THEN NoRequest ELSE waiting[p]
        /\ stage'[p] = IF waiting[p] = r /\ result # "error" THEN result ELSE stage[p]
        /\ loginOf'[p] = IF waiting[p] = r /\ result = "code" THEN handler[r].login ELSE loginOf[p]
  BY <1>1, <1>4 DEF Reply, Hears
<1>6. /\ waiting' \in [Page -> Request \cup {NoRequest}]
      /\ stage' \in [Page -> Fieldset]
      /\ loginOf' \in [Page -> Logins \cup {NoLogin}]
  BY <1>1 DEF Reply, HandlerState, Fieldset
<1>7. \A p \in Page : waiting[p] = r /\ result \in {"password", "done"} =>
        /\ loginOf[p] = handler[r].login
        /\ stage[p] # "phone"
  BY DEF IInv, Pages, Submission
<1>8. \A p \in Page : stage'[p] = "phone" <=> loginOf'[p] = NoLogin
  BY <1>1, <1>5, <1>7 DEF NoLogin
<1>9. Pages'
  <2> SUFFICES ASSUME NEW p \in Page
               PROVE  /\ loginOf'[p] \in 0..opened
                      /\ stage'[p] = "done" => loginOf'[p] \in saved'
                      /\ waiting'[p] # NoRequest =>
                           /\ stage'[p] # "done"
                           /\ handler'[waiting'[p]].page = p
                           /\ handler'[waiting'[p]].kind =
                                IF stage'[p] = "phone" THEN "start" ELSE stage'[p]
                           /\ stage'[p] # "phone" => handler'[waiting'[p]].login = loginOf'[p]
    BY DEF Pages
  <2>1. CASE waiting[p] = r
    BY <1>5, <1>7, <2>1 DEF IInv, TypeOK, Pages
  <2>2. CASE waiting[p] # r
    BY <1>1, <1>3, <1>5, <2>2 DEF IInv, Pages
  <2> QED BY <2>1, <2>2
<1>10. ASSUME result # "code", handler[r].at # "sendCode",
              bindings' \subseteq bindings, leaked' = leaked
       PROVE  Separate'
  <2>1. \A q \in Request : handler'[q] = IF q = r THEN Idle ELSE handler[q]
    BY <1>1, <1>3
  <2>2. \A q \in Request : handler[q].at = "sendCode" => handler[q].login # NoLogin
    BY DEF IInv, Handlers, NoLogin
  <2> QED BY <1>5, <1>10, <2>1, <2>2 DEF IInv, Separate, Idle, Finishing
<1> QED BY <1>1, <1>2, <1>3, <1>5, <1>6, <1>8, <1>9, <1>10

\* ... and nothing else changes.
LEMMA ReplyStep ==
  ASSUME IInv, NEW r \in Request, NEW result \in {"password", "error"}, Reply(r, result),
         UNCHANGED <<loginVars, telegramVars, history>>,
         handler[r].at \notin {"sendCode", "accepted", "save"},
         result = "password" => Submission(r)
  PROVE  IInv'
<1> USE DEF loginVars, telegramVars, history
<1>1. /\ handler' \in [Request -> HandlerState]
      /\ handler'[r] = Idle
      /\ \A q \in Request \ {r} : handler'[q] = handler[q]
  BY ReplyKeeps
<1>2. TypeOK'
  BY ReplyKeeps DEF IInv, TypeOK, HandlerState, Fieldset
<1>3. Handlers'
  BY <1>1 DEF IInv, TypeOK, Handlers, Idle, Finishing, NoLogin
<1>4. Pages' /\ Separate'
  BY ReplyKeeps
<1>5. ClientsOwned' /\ LoggedInIsSaved'
  BY <1>1 DEF IInv, ClientsOwned, LoggedInIsSaved
<1> QED BY <1>2, <1>3, <1>4, <1>5 DEF IInv

LEMMA ConnectStep ==
  ASSUME IInv, NEW r \in Request, Connect(r)
  PROVE  IInv'
<1> USE DEF loginVars, telegramVars, history, pageVars
<1>1. /\ handler[r].kind = "start"
      /\ handler[r].at = "begin"
      /\ opened' = opened + 1 /\ opened' \in 1..MaxLogins
      /\ connected' = connected \cup {opened'}
      /\ handler' = [handler EXCEPT ![r].at = "sendCode", ![r].login = opened']
      /\ UNCHANGED <<pageVars, sessions, bindings, old, telegramVars, history>>
  BY DEF Connect, IInv, TypeOK
<1>2. handler \in [Request -> HandlerState]
  BY DEF IInv, TypeOK, HandlerState
<1>3. /\ handler' \in [Request -> HandlerState]
      /\ handler'[r].kind = "start"
      /\ handler'[r].at = "sendCode"
      /\ handler'[r].login = opened'
      /\ handler'[r].page = handler[r].page
      /\ \A q \in Request \ {r} : handler'[q] = handler[q]
  BY <1>1, <1>2 DEF HandlerState, Location, Logins
<1>4. TypeOK'
  BY <1>1, <1>3 DEF IInv, TypeOK, HandlerState
<1>5. Handlers'
  <2>1. \A q \in Request \ {r} : handler[q].login # opened'
    BY <1>1 DEF IInv, TypeOK, Handlers
  <2> QED BY <1>1, <1>3, <2>1 DEF IInv, TypeOK, Handlers, Finishing
<1>6. Pages'
  BY <1>1, <1>3 DEF IInv, TypeOK, Pages
<1>7. Separate'
  <2>1. \A q \in Request \ {r} : handler[q].login # opened'
    BY <1>1 DEF IInv, TypeOK, Handlers
  <2>2. opened' \notin bindings \cup leaked /\ \A p \in Page : loginOf[p] # opened'
    BY <1>1 DEF IInv, TypeOK, Pages
  <2> QED BY <1>1, <1>3, <2>1, <2>2 DEF IInv, Separate, Finishing
<1>8. ClientsOwned'
  BY <1>1, <1>3 DEF IInv, ClientsOwned
<1>9. LoggedInIsSaved'
  BY <1>1, <1>3 DEF IInv, LoggedInIsSaved
<1> QED BY <1>4, <1>5, <1>6, <1>7, <1>8, <1>9 DEF IInv

LEMMA CodeSentStep ==
  ASSUME IInv, NEW r \in Request, CodeSent(r)
  PROVE  IInv'
<1> USE DEF loginVars, telegramVars, history
<1> DEFINE id == handler[r].login
<1>1. /\ handler[r].at = "sendCode" /\ id \in 1..opened
      /\ sessions' = sessions \cup {id}
      /\ bindings' = bindings \cup {id}
      /\ Reply(r, "code")
      /\ UNCHANGED <<old, opened, connected, telegramVars, history>>
  BY DEF CodeSent, IInv, Handlers
<1>2. /\ handler' \in [Request -> HandlerState]
      /\ handler'[r] = Idle
      /\ \A q \in Request \ {r} : handler'[q] = handler[q]
      /\ \A p \in Page : loginOf'[p] \in {loginOf[p], id}
      /\ Pages'
  BY <1>1, ReplyKeeps
<1>3. TypeOK'
  BY <1>1, ReplyKeeps DEF IInv, TypeOK, HandlerState, Fieldset
<1>4. Handlers'
  BY <1>1, <1>2 DEF IInv, TypeOK, Handlers, Idle, Finishing, NoLogin
<1>5. Separate'
  BY <1>1, <1>2 DEF IInv, Separate, Handlers, Idle, Finishing, NoLogin
<1>6. ClientsOwned' /\ LoggedInIsSaved'
  BY <1>1, <1>2 DEF IInv, ClientsOwned, LoggedInIsSaved
<1> QED BY <1>2, <1>3, <1>4, <1>5, <1>6 DEF IInv

LEMMA SendCodeFailsStep ==
  ASSUME IInv, NEW r \in Request, SendCodeFails(r)
  PROVE  IInv'
<1> USE DEF loginVars, telegramVars, history
<1> DEFINE id == handler[r].login
<1>1. /\ handler[r].at = "sendCode" /\ id \in 1..opened
      /\ leaked' = leaked \cup {id}
      /\ Reply(r, "error")
      /\ UNCHANGED <<loginVars, telegramVars, saved, lost>>
  BY DEF SendCodeFails, IInv, Handlers
<1>2. /\ handler' \in [Request -> HandlerState]
      /\ handler'[r] = Idle
      /\ \A q \in Request \ {r} : handler'[q] = handler[q]
      /\ \A p \in Page : loginOf'[p] = loginOf[p]
      /\ Pages'
  BY <1>1, ReplyKeeps
<1>3. TypeOK'
  BY <1>1, ReplyKeeps DEF IInv, TypeOK, HandlerState, Fieldset
<1>4. Handlers'
  BY <1>1, <1>2 DEF IInv, TypeOK, Handlers, Idle, Finishing, NoLogin
<1>5. Separate'
  BY <1>1, <1>2 DEF IInv, Separate, Handlers, Idle, Finishing, NoLogin
<1>6. ClientsOwned' /\ LoggedInIsSaved'
  BY <1>1, <1>2 DEF IInv, ClientsOwned, LoggedInIsSaved
<1> QED BY <1>2, <1>3, <1>4, <1>5, <1>6 DEF IInv

\* Only a submission comes this far.
LEMMA SubmissionAt ==
  ASSUME IInv, NEW r \in Request, handler[r].at \in {"sent", "accepted", "save", "disconnect"}
  PROVE  handler[r].kind \in {"code", "password"} /\ handler[r].login \in 1..opened
<1>1. handler[r].kind \in {"none", "start", "code", "password", "cancel"}
  BY DEF IInv, TypeOK
<1> QED BY <1>1 DEF IInv, Handlers, Idle, Finishing

LEMMA InvokeStep ==
  ASSUME IInv, NEW r \in Request, Invoke(r)
  PROVE  IInv'
<1> USE DEF loginVars, telegramVars, history
<1>1. /\ Submission(r) /\ handler[r].at = "begin"
      /\ Goto(r, "sent")
      /\ UNCHANGED <<loginVars, telegramVars, history>>
  BY DEF Invoke
<1>2. TypeOK'
  BY <1>1, GotoKeeps DEF IInv, TypeOK, HandlerState, Location, Goto, pageVars
<1>3. Handlers'
  BY <1>1, GotoKeeps DEF IInv, Handlers, Finishing, Location, Submission
<1>4. Pages' /\ Separate'
  BY <1>1, GotoKeeps DEF Location
<1>5. ClientsOwned' /\ LoggedInIsSaved'
  BY <1>1, GotoKeeps DEF IInv, ClientsOwned, LoggedInIsSaved, Location
<1> QED BY <1>2, <1>3, <1>4, <1>5 DEF IInv

LEMMA AcceptStep ==
  ASSUME IInv, NEW r \in Request, Accept(r)
  PROVE  IInv'
<1> USE DEF loginVars, telegramVars, history
<1>1. /\ handler[r].at = "sent"
      /\ handler[r].login \in connected
      /\ authorized' = authorized \cup {handler[r].login}
      /\ Goto(r, "accepted")
      /\ UNCHANGED <<loginVars, twoFactor, history>>
  BY DEF Accept
<1>2. TypeOK'
  <2>1. handler' \in [Request -> HandlerState] /\ UNCHANGED pageVars
    BY <1>1, GotoKeeps DEF Location, Goto
  <2>2. authorized' \subseteq 1..opened
    BY <1>1, SubmissionAt DEF IInv, TypeOK
  <2> QED BY <1>1, <2>1, <2>2 DEF IInv, TypeOK, HandlerState, pageVars
<1>3. Handlers'
  BY <1>1, GotoKeeps, SubmissionAt DEF IInv, Handlers, Finishing, Location
<1>4. Pages' /\ Separate'
  BY <1>1, GotoKeeps DEF Location
<1>5. ClientsOwned' /\ LoggedInIsSaved'
  BY <1>1, GotoKeeps DEF IInv, ClientsOwned, LoggedInIsSaved, Location
<1> QED BY <1>2, <1>3, <1>4, <1>5 DEF IInv

\* A client that is logged in is given up.
LEMMA LostStep ==
  ASSUME IInv, NEW r \in Request, Reply(r, "error"), handler[r].at \in {"accepted", "save"},
         lost' = lost \cup {handler[r].login},
         UNCHANGED <<loginVars, telegramVars, saved, leaked>>
  PROVE  IInv'
<1> USE DEF loginVars, telegramVars, history
<1>1. /\ handler' \in [Request -> HandlerState]
      /\ handler'[r] = Idle
      /\ \A q \in Request \ {r} : handler'[q] = handler[q]
  BY ReplyKeeps
<1>2. handler[r].login \in 1..opened
  BY DEF IInv, TypeOK, Handlers, Finishing, Idle
<1>3. TypeOK'
  BY <1>2, ReplyKeeps DEF IInv, TypeOK, HandlerState, Fieldset
<1>4. Handlers'
  BY <1>1 DEF IInv, TypeOK, Handlers, Idle, Finishing, NoLogin
<1>5. Pages' /\ Separate'
  BY ReplyKeeps
<1>6. ClientsOwned' /\ LoggedInIsSaved'
  BY <1>1 DEF IInv, ClientsOwned, LoggedInIsSaved
<1> QED BY <1>3, <1>4, <1>5, <1>6 DEF IInv

LEMMA AcceptedStep ==
  ASSUME IInv, NEW r \in Request, Accepted(r)
  PROVE  IInv'
<1> USE DEF loginVars, telegramVars, history
<1>1. CASE handler[r].login \in connected
  <2>1. /\ handler[r].at = "accepted"
        /\ Goto(r, "save")
        /\ UNCHANGED <<loginVars, telegramVars, history>>
    BY <1>1 DEF Accepted
  <2>2. TypeOK'
    BY <2>1, GotoKeeps DEF IInv, TypeOK, HandlerState, Location, Goto, pageVars
  <2>3. Handlers'
    BY <2>1, GotoKeeps, SubmissionAt DEF IInv, Handlers, Finishing, Location
  <2>4. Pages' /\ Separate'
    BY <2>1, GotoKeeps DEF Location
  <2>5. ClientsOwned' /\ LoggedInIsSaved'
    BY <2>1, GotoKeeps DEF IInv, ClientsOwned, LoggedInIsSaved, Location
  <2> QED BY <2>2, <2>3, <2>4, <2>5 DEF IInv
<1>2. CASE handler[r].login \notin connected
  <2>1. /\ handler[r].at = "accepted"
        /\ Reply(r, "error")
        /\ lost' = lost \cup {handler[r].login}
        /\ UNCHANGED <<loginVars, telegramVars, saved, leaked>>
    BY <1>2 DEF Accepted
  <2> QED BY <2>1, LostStep
<1> QED BY <1>1, <1>2

LEMMA SaveStep ==
  ASSUME IInv, NEW r \in Request, Save(r)
  PROVE  IInv'
<1> USE DEF loginVars, telegramVars, history
<1>1. /\ handler[r].at = "save"
      /\ saved' = saved \cup {handler[r].login}
      /\ Goto(r, "disconnect")
      /\ UNCHANGED <<loginVars, telegramVars, leaked, lost>>
  BY DEF Save
<1>2. TypeOK'
  <2>1. handler' \in [Request -> HandlerState] /\ UNCHANGED pageVars
    BY <1>1, GotoKeeps DEF Location, Goto
  <2>2. saved' \subseteq 1..opened
    BY <1>1, SubmissionAt DEF IInv, TypeOK
  <2> QED BY <1>1, <2>1, <2>2 DEF IInv, TypeOK, HandlerState, pageVars
<1>3. Handlers'
  BY <1>1, GotoKeeps, SubmissionAt DEF IInv, Handlers, Finishing, Location
<1>4. Pages' /\ Separate'
  BY <1>1, GotoKeeps DEF Location
<1>5. ClientsOwned' /\ LoggedInIsSaved'
  BY <1>1, GotoKeeps DEF IInv, ClientsOwned, LoggedInIsSaved, Location
<1> QED BY <1>2, <1>3, <1>4, <1>5 DEF IInv

LEMMA DisconnectStep ==
  ASSUME IInv, NEW r \in Request, Disconnect(r)
  PROVE  IInv'
<1> USE DEF loginVars, telegramVars, history
<1>1. /\ handler[r].at = "disconnect"
      /\ connected' = connected \ {handler[r].login}
      /\ Goto(r, "delete")
      /\ UNCHANGED <<sessions, bindings, old, opened, telegramVars, history>>
  BY DEF Disconnect
<1>2. TypeOK'
  <2>1. handler' \in [Request -> HandlerState] /\ UNCHANGED pageVars
    BY <1>1, GotoKeeps DEF Location, Goto
  <2> QED BY <1>1, <2>1 DEF IInv, TypeOK, HandlerState, pageVars
<1>3. Handlers'
  BY <1>1, GotoKeeps, SubmissionAt DEF IInv, Handlers, Finishing, Location
<1>4. Pages' /\ Separate'
  BY <1>1, GotoKeeps DEF Location
<1>5. ClientsOwned' /\ LoggedInIsSaved'
  BY <1>1, GotoKeeps DEF IInv, ClientsOwned, LoggedInIsSaved, Location
<1> QED BY <1>2, <1>3, <1>4, <1>5 DEF IInv

LEMMA DeleteStep ==
  ASSUME IInv, NEW r \in Request, Delete(r)
  PROVE  IInv'
<1> USE DEF loginVars, telegramVars, history
<1> DEFINE id == handler[r].login
           result == IF Submission(r) THEN "done" ELSE "error"
<1>1. /\ handler[r].at = "delete"
      /\ sessions' = sessions \ {id}
      /\ bindings' = bindings \ {id}
      /\ Reply(r, result)
      /\ UNCHANGED <<old, opened, connected, telegramVars, history>>
  BY DEF Delete
<1>2. id \notin connected /\ (Submission(r) => id \in saved)
  BY <1>1 DEF IInv, Handlers, Submission
<1>3. /\ handler' \in [Request -> HandlerState]
      /\ handler'[r] = Idle
      /\ \A q \in Request \ {r} : handler'[q] = handler[q]
      /\ Pages' /\ Separate'
  BY <1>1, <1>2, ReplyKeeps
<1>4. TypeOK'
  BY <1>1, <1>2, ReplyKeeps DEF IInv, TypeOK, HandlerState, Fieldset
<1>5. Handlers'
  BY <1>1, <1>3 DEF IInv, TypeOK, Handlers, Idle, Finishing, NoLogin
<1>6. ClientsOwned' /\ LoggedInIsSaved'
  BY <1>1, <1>2, <1>3 DEF IInv, ClientsOwned, LoggedInIsSaved
<1> QED BY <1>3, <1>4, <1>5, <1>6 DEF IInv

LEMMA AskToCancelStep ==
  ASSUME IInv, NEW id \in Logins, AskToCancel(id)
  PROVE  IInv'
<1> USE DEF loginVars, telegramVars, history, pageVars
<1>1. PICK r \in Request :
        /\ handler[r] = Idle
        /\ handler' = [handler EXCEPT ![r] =
             [kind |-> "cancel", page |-> NoPage, login |-> id, at |-> "begin"]]
  BY DEF AskToCancel
<1>2. id \in bindings /\ UNCHANGED <<pageVars, loginVars, telegramVars, history>>
  BY DEF AskToCancel
<1>3. handler \in [Request -> HandlerState]
  BY DEF IInv, TypeOK, HandlerState
<1>4. /\ handler' \in [Request -> HandlerState]
      /\ handler'[r] = [kind |-> "cancel", page |-> NoPage, login |-> id, at |-> "begin"]
      /\ \A q \in Request \ {r} : handler'[q] = handler[q]
  BY <1>1, <1>3 DEF HandlerState, Location
<1>5. TypeOK'
  BY <1>2, <1>4 DEF IInv, TypeOK, HandlerState
<1>6. Handlers'
  BY <1>2, <1>4 DEF IInv, TypeOK, Handlers, Finishing
<1>7. Pages'
  <2>1. \A p \in Page : waiting[p] # r
    BY <1>1 DEF IInv, Pages, Idle
  <2> QED BY <1>2, <1>4, <2>1 DEF IInv, TypeOK, Pages
<1>8. Separate'
  BY <1>2, <1>4 DEF IInv, Separate, Finishing
<1>9. ClientsOwned' /\ LoggedInIsSaved'
  BY <1>1, <1>2, <1>4 DEF IInv, ClientsOwned, LoggedInIsSaved, Idle
<1> QED BY <1>5, <1>6, <1>7, <1>8, <1>9 DEF IInv

LEMMA CancelStep ==
  ASSUME IInv, NEW r \in Request, Cancel(r)
  PROVE  IInv'
<1> USE DEF loginVars, telegramVars, history
<1> DEFINE id == handler[r].login
<1>1. /\ handler[r].kind = "cancel"
      /\ handler[r].at = "begin"
      /\ connected' = connected \ ({id} \cap sessions)
      /\ Goto(r, "delete")
      /\ UNCHANGED <<sessions, bindings, old, opened, telegramVars, history>>
  BY DEF Cancel
\* A login that is gone from memory has no connection.
<1>2. id \notin connected'
  <2>1. id \notin leaked /\ \A q \in Request : handler[q].at = "sendCode" => handler[q].login # id
    BY <1>1 DEF IInv, Separate, Finishing
  <2> QED BY <1>1, <2>1 DEF IInv, ClientsOwned
<1>3. TypeOK'
  <2>1. handler' \in [Request -> HandlerState] /\ UNCHANGED pageVars
    BY <1>1, GotoKeeps DEF Location, Goto
  <2> QED BY <1>1, <2>1 DEF IInv, TypeOK, HandlerState, pageVars
<1>4. Handlers'
  BY <1>1, <1>2, GotoKeeps DEF IInv, Handlers, Finishing, Location
<1>5. Pages' /\ Separate'
  BY <1>1, GotoKeeps DEF Location
<1>6. ClientsOwned' /\ LoggedInIsSaved'
  BY <1>1, GotoKeeps DEF IInv, ClientsOwned, LoggedInIsSaved, Location
<1> QED BY <1>3, <1>4, <1>5, <1>6 DEF IInv

-----------------------------------------------------------------------------
(* The sweeper and the process *)

LEMMA GrowOldStep ==
  ASSUME IInv, NEW id \in Logins, GrowOld(id)
  PROVE  IInv'
BY DEF GrowOld, IInv, TypeOK, Handlers, Pages, Separate, ClientsOwned, LoggedInIsSaved,
       pageVars, telegramVars, history

LEMMA SweepStep ==
  ASSUME IInv, NEW id \in Logins, Sweep(id)
  PROVE  IInv'
BY DEF Sweep, Disconnected, IInv, TypeOK, Handlers, Pages, Separate, ClientsOwned, LoggedInIsSaved,
       pageVars, telegramVars, history

LEMMA CrashStep ==
  ASSUME IInv, Crash
  PROVE  IInv'
<1>1. /\ handler' = [r \in Request |-> Idle]
      /\ waiting' = [p \in Page |-> NoRequest]
      /\ sessions' = {} /\ bindings' = {} /\ connected' = {}
      /\ lost' = lost \cup (authorized \ saved)
      /\ UNCHANGED <<stage, loginOf, old, opened, authorized, twoFactor, saved, leaked>>
  BY DEF Crash, telegramVars
<1>2. Idle \in HandlerState
  BY DEF Idle, HandlerState, Location
<1>3. TypeOK'
  BY <1>1, <1>2 DEF IInv, TypeOK, HandlerState
<1>4. Handlers' /\ Pages' /\ Separate'
  BY <1>1 DEF IInv, TypeOK, Handlers, Pages, Separate, Idle, Finishing, NoLogin
<1>5. ClientsOwned' /\ LoggedInIsSaved'
  BY <1>1 DEF ClientsOwned, LoggedInIsSaved
<1> QED BY <1>3, <1>4, <1>5 DEF IInv

-----------------------------------------------------------------------------
(* Theorems *)

LEMMA HandleStep ==
  ASSUME IInv, NEW r \in Request, Handle(r)
  PROVE  IInv'
<1>1. CASE StartRefused(r) \/ Refused(r) \/ Rejected(r) \/ PasswordNeeded(r)
  BY <1>1, ReplyStep DEF StartRefused, Refused, Rejected, PasswordNeeded, Submission
<1>2. CASE SaveFails(r)
  BY <1>2, LostStep DEF SaveFails
<1> QED BY <1>1, <1>2, ConnectStep, CodeSentStep, SendCodeFailsStep, InvokeStep, AcceptStep,
           AcceptedStep, SaveStep, DisconnectStep, DeleteStep, CancelStep
        DEF Handle

LEMMA Invariance == Spec => []IInv
<1>1. Init => IInv
  BY DEF Init, IInv, TypeOK, Handlers, Pages, Separate, ClientsOwned, LoggedInIsSaved, Idle,
         Location, NoLogin, Finishing
<1>2. IInv /\ [Next]_vars => IInv'
  <2> SUFFICES ASSUME IInv, [Next]_vars PROVE IInv'
    OBVIOUS
  <2>1. CASE UNCHANGED vars
    BY <2>1
    DEF vars, pageVars, loginVars, telegramVars, history, IInv, TypeOK, Handlers, Pages, Separate,
        ClientsOwned, LoggedInIsSaved
  <2>2. CASE Next
    BY <2>2, SubmitStep, LoseResponseStep, ReloadPageStep, HandleStep, AskToCancelStep,
       GrowOldStep, SweepStep, CrashStep
    DEF Next
  <2> QED BY <2>1, <2>2
<1> QED BY <1>1, <1>2, PTL DEF Spec

\* Every variable has a value of its kind.
THEOREM TypeCorrect == Spec => []TypeOK
<1>1. IInv => TypeOK
  BY DEF IInv
<1> QED BY <1>1, Invariance, PTL

(***************************************************************************)
(* A client that is connected is in the hands of startLogin or of a login   *)
(* in memory, unless its sendCode has failed: for a handler forgets a login *)
(* only after somebody has disconnected it, and no number is used twice.    *)
(***************************************************************************)
THEOREM ClientsAreOwned == Spec => []ClientsOwned
<1>1. IInv => ClientsOwned
  BY DEF IInv
<1> QED BY <1>1, Invariance, PTL

(***************************************************************************)
(* A page that says "Connected!" is about a login whose session was saved:  *)
(* it hears only the answer to what it asked last, and a handler answers so *)
(* only after saveSession.                                                  *)
(***************************************************************************)
THEOREM DoneMeansSaved == Spec => []DoneIsSaved
<1>1. IInv => DoneIsSaved
  BY DEF IInv, Pages, DoneIsSaved
<1> QED BY <1>1, Invariance, PTL

(***************************************************************************)
(* A client that Telegram has logged in is being finalized, or is saved, or *)
(* was lost in one of the ways that "lost" records.                         *)
(***************************************************************************)
THEOREM LoggedInMeansSaved == Spec => []LoggedInIsSaved
<1>1. IInv => LoggedInIsSaved
  BY DEF IInv
<1> QED BY <1>1, Invariance, PTL
=============================================================================
