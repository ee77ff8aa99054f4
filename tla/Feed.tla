-------------------------------- MODULE Feed --------------------------------
(***************************************************************************)
(* The feed of the portal (client/src/pages/Feed.tsx).  The page exchanges  *)
(* the link of the bot for a session (api/portalRoutes.ts,                  *)
(* bot/portalSession.ts), gets the categories and channels, and then lists  *)
(* messages under a filter, a page at a time.  A change of the filter starts*)
(* the list again; the request it replaces is cancelled, in the sense that  *)
(* its response is not looked at.  "Load more" appends the next page.       *)
(* Responses come back in any order.                                        *)
(*                                                                          *)
(* The user's actions are discrete events: React renders and runs the       *)
(* effects of one before it handles the next, so that each is one step.     *)
(*                                                                          *)
(* The messages do not change here (module Reading is about those that do); *)
(* they are numbered in the order in which they are listed, newest last.    *)
(***************************************************************************)
EXTENDS Integers, SequencesExt

CONSTANTS
  Message,      \* the user's messages
  Filter,       \* combinations of category, channel and dates
  Matches,      \* the messages each filter selects
  PageSize,     \* limit of GET /portal/api/messages
  MaxChanges,   \* bound: changes of the filter
  MaxErrors,    \* bound: requests that fail
  MaxOpen,      \* bound: requests in flight
  MaxVisits     \* bound: how often the page is opened

ASSUME MatchesAssumption ==
  Message \subseteq Nat /\ IsFiniteSet(Message) /\ Matches \in [Filter -> SUBSET Message]
ASSUME PageAssumption == PageSize \in Nat \ {0}
ASSUME BoundAssumption ==
  MaxChanges \in Nat /\ MaxErrors \in Nat /\ MaxOpen \in Nat /\ MaxVisits \in Nat \ {0}

VARIABLES
  phase,       \* how far the page is, or why it shows no feed
  link,        \* the token of the bot's link: good for 10 minutes
  inUrl,       \* "t" is in the address
  cookie,      \* portal_session: good for 24 hours
  awaited,     \* the metadata that has not arrived
  filter,      \* what is selected
  messages,    \* what is listed
  cursor,      \* the last message listed, if others follow, or NoCursor
  loading,
  listError,
  reloads,     \* requests of the effect
  mores,       \* requests of loadMore
  mixed,       \* history: a page of another list has been appended to this one
  changes,
  errors,
  visits

accessVars == <<phase, link, inUrl, cookie, awaited, visits>>
listVars == <<filter, messages, cursor, loading, listError, reloads, mores, mixed, changes>>
vars == <<accessVars, listVars, errors>>

NoCursor == -1

\* The effect's request belongs to one filter and may have been cancelled;
\* loadMore's has a cursor as well.
Reload == [filter : Filter, cancelled : BOOLEAN]
More == [filter : Filter, cursor : Message]

Metadata == {"topics", "sources"}

\* "exchange", "metadata", "ready", or with authError: "expired", "failed"
AtStart(t) == IF t THEN "exchange" ELSE "metadata"

\* The page is opened by a link of the bot, or without one.
Init ==
  /\ inUrl \in BOOLEAN
  /\ phase = AtStart(inUrl)
  /\ link \in {x \in {"good", "old"} : inUrl \/ x = "old"}
  /\ cookie \in {"none", "good", "old"}
  /\ awaited = Metadata
  /\ filter \in Filter
  /\ messages = <<>>
  /\ cursor = NoCursor
  /\ loading = FALSE
  /\ listError = FALSE
  /\ reloads = <<>>
  /\ mores = <<>>
  /\ mixed = FALSE
  /\ changes = 0
  /\ errors = 0
  /\ visits = 1

\* The network or the server fails.
Fails == errors < MaxErrors /\ errors' = errors + 1

-----------------------------------------------------------------------------
(* Access: the link, the session, the metadata *)

\* verifySignedPayload and the TTLs of portalSession.ts.  The session of a link
\* outlives it.
LinkExpires ==
  /\ link = "good"
  /\ link' = "old"
  /\ UNCHANGED <<phase, inUrl, cookie, awaited, visits, listVars, errors>>

CookieExpires ==
  /\ cookie = "good"
  /\ inUrl \/ link = "old"
  /\ cookie' = "old"
  /\ UNCHANGED <<phase, link, inUrl, awaited, visits, listVars, errors>>

\* POST /portal/api/session; the token goes out of the address.
Exchanged ==
  /\ phase = "exchange"
  /\ IF link = "good"
     THEN /\ cookie' = "good"
          /\ inUrl' = FALSE
          /\ phase' = "metadata"
     ELSE phase' = "expired" /\ UNCHANGED <<cookie, inUrl>>
  /\ UNCHANGED <<link, awaited, visits, listVars, errors>>

\* The server may have done it.
ExchangeFails ==
  /\ phase = "exchange"
  /\ Fails
  /\ phase' = "failed"
  /\ cookie' \in {cookie} \cup {x \in {"good"} : link = "good"}
  /\ UNCHANGED <<link, inUrl, awaited, visits, listVars>>

\* The effect of [ready, filterParams]
Start(f, requests) ==
  /\ messages' = <<>>
  /\ cursor' = NoCursor
  /\ loading' = TRUE
  /\ listError' = FALSE
  /\ reloads' = Append(requests, [filter |-> f, cancelled |-> FALSE])
  /\ mixed' = FALSE

\* Promise.all: the page is ready when both have come, and given up when one is
\* refused (requirePortalSession).
MetadataArrives(x) ==
  /\ phase = "metadata"
  /\ x \in awaited
  /\ cookie = "good"
  /\ awaited' = awaited \ {x}
  /\ IF awaited = {x}
     THEN phase' = "ready" /\ Start(filter, reloads) /\ UNCHANGED <<filter, mores, changes>>
     ELSE UNCHANGED <<phase, listVars>>
  /\ UNCHANGED <<link, inUrl, cookie, visits, errors>>

\* Wrong: whatever keeps the page from its metadata is the session's end.
AnyStatus == "expired"

OtherStatus == "failed"

MetadataFails ==
  /\ phase = "metadata"
  /\ \/ cookie # "good" /\ phase' = "expired" /\ UNCHANGED errors
     \/ Fails /\ phase' = OtherStatus
  /\ UNCHANGED <<link, inUrl, cookie, awaited, visits, listVars>>

\* The page is loaded again, or opened by a new link.
Visit(fresh) ==
  /\ visits < MaxVisits
  /\ visits' = visits + 1
  /\ inUrl' = (inUrl \/ fresh)
  /\ link' = IF fresh THEN "good" ELSE link
  /\ phase' = AtStart(inUrl')
  /\ awaited' = Metadata
  /\ filter' \in Filter
  /\ messages' = <<>>
  /\ cursor' = NoCursor
  /\ loading' = FALSE
  /\ listError' = FALSE
  /\ reloads' = <<>>
  /\ mores' = <<>>
  /\ mixed' = FALSE
  /\ UNCHANGED <<cookie, changes, errors>>

-----------------------------------------------------------------------------
(* The server: the newest PageSize messages of a filter before a cursor *)

Listed(f, after) == {m \in Matches[f] : after = NoCursor \/ m < after}

\* ORDER BY published_at DESC, id DESC: the row with i - 1 before it
Row(rows, i) == CHOOSE m \in rows : Cardinality({n \in rows : n > m}) = i - 1

\* LIMIT
Page(f, after) ==
  LET rows == Listed(f, after)
  IN [i \in 1..Min({PageSize, Cardinality(rows)}) |-> Row(rows, i)]

\* Wrong: there is a next page whenever this one is full.
FullPage(f, after) ==
  IF Len(Page(f, after)) = PageSize THEN Last(Page(f, after)) ELSE NoCursor

\* next_cursor
NextCursor(f, after) ==
  IF Cardinality(Listed(f, after)) > PageSize THEN Last(Page(f, after)) ELSE NoCursor

-----------------------------------------------------------------------------
(* The page *)

\* Wrong: the effect has no cleanup.
NotCancelled(requests) == requests

\* The cleanup of the effect: cancelled = true
Cancelled(requests) ==
  [i \in DOMAIN requests |-> [requests[i] EXCEPT !.cancelled = TRUE]]

\* A choice of category, channel or dates: the effect's cleanup, then the effect.
ChangeFilter(f) ==
  /\ phase = "ready"
  /\ f # filter
  /\ changes < MaxChanges
  /\ Len(reloads) < MaxOpen
  /\ changes' = changes + 1
  /\ filter' = f
  /\ Start(f, Cancelled(reloads))
  /\ UNCHANGED <<accessVars, mores, errors>>

\* What is asked for is refused when the session is over, or fails; either way
\* the page says so and stays.
Denied == cookie # "good" /\ UNCHANGED errors

\* The response of a reload that was cancelled changes nothing.
Reloaded(i) ==
  /\ cookie = "good"
  /\ reloads' = RemoveAt(reloads, i)
  /\ IF reloads[i].cancelled
     THEN UNCHANGED <<messages, cursor, loading, mixed>>
     ELSE /\ messages' = Page(reloads[i].filter, NoCursor)
          /\ cursor' = NextCursor(reloads[i].filter, NoCursor)
          /\ loading' = FALSE
          /\ mixed' = FALSE
  /\ UNCHANGED <<accessVars, filter, listError, mores, changes, errors>>

ReloadFails(i) ==
  /\ Denied \/ Fails
  /\ reloads' = RemoveAt(reloads, i)
  /\ listError' = (listError \/ ~ reloads[i].cancelled)
  /\ loading' = (loading /\ reloads[i].cancelled)
  /\ UNCHANGED <<accessVars, filter, messages, cursor, mores, mixed, changes>>

\* The button is shown, and loadMore goes on, under the same condition.
CanLoadMore == cursor # NoCursor /\ ~ loading

LoadMore ==
  /\ CanLoadMore
  /\ Len(mores) < MaxOpen
  /\ loading' = TRUE
  /\ mores' = Append(mores, [filter |-> filter, cursor |-> cursor])
  /\ UNCHANGED <<accessVars, filter, messages, cursor, listError, reloads, mixed, changes, errors>>

\* The list is still the one that this request would continue.
Continues(i) == mores[i] = [filter |-> filter, cursor |-> cursor]

\* Its response is appended to whatever is listed by then.
LoadedMore(i) ==
  /\ cookie = "good"
  /\ mores' = RemoveAt(mores, i)
  /\ messages' = messages \o Page(mores[i].filter, mores[i].cursor)
  /\ cursor' = NextCursor(mores[i].filter, mores[i].cursor)
  /\ loading' = FALSE
  /\ mixed' = (mixed \/ ~ Continues(i))
  /\ UNCHANGED <<accessVars, filter, listError, reloads, changes, errors>>

\* Wrong: setLoading(false) after the call instead of in "finally".
StillLoading(i) == loading

LoadingAfterError(i) == FALSE

LoadMoreFails(i) ==
  /\ Denied \/ Fails
  /\ mores' = RemoveAt(mores, i)
  /\ listError' = TRUE
  /\ loading' = LoadingAfterError(i)
  /\ UNCHANGED <<accessVars, filter, messages, cursor, reloads, mixed, changes>>

-----------------------------------------------------------------------------

Responds ==
  \/ Exchanged
  \/ ExchangeFails
  \/ \E x \in Metadata : MetadataArrives(x)
  \/ MetadataFails
  \/ \E i \in DOMAIN reloads : Reloaded(i) \/ ReloadFails(i)
  \/ \E i \in DOMAIN mores : LoadedMore(i) \/ LoadMoreFails(i)

Next ==
  \/ \E f \in Filter : ChangeFilter(f)
  \/ LoadMore
  \/ LinkExpires
  \/ CookieExpires
  \/ \E fresh \in BOOLEAN : Visit(fresh)
  \/ Responds

Spec == Init /\ [][Next]_vars

\* Every request is answered, or fails, some time.
FairSpec == Spec /\ WF_vars(Responds)

-----------------------------------------------------------------------------
(* Properties *)

\* Every variable has a value of its kind; the reload that is not cancelled
\* is the last, and for the filter that is selected.
TypeOK ==
  /\ phase \in {"exchange", "metadata", "ready", "expired", "failed"}
  /\ link \in {"good", "old"}
  /\ inUrl \in BOOLEAN
  /\ cookie \in {"none", "good", "old"}
  /\ awaited \subseteq Metadata
  /\ phase = "ready" => awaited = {}
  /\ filter \in Filter
  /\ messages \in Seq(Message)
  /\ cursor \in Message \cup {NoCursor}
  /\ loading \in BOOLEAN
  /\ listError \in BOOLEAN
  /\ reloads \in Seq(Reload)
  /\ \A i \in DOMAIN reloads :
       reloads[i].cancelled \/ (i = Len(reloads) /\ reloads[i].filter = filter)
  /\ mores \in Seq(More)
  /\ mixed \in BOOLEAN
  /\ changes \in 0..MaxChanges
  /\ errors \in 0..MaxErrors
  /\ visits \in 1..MaxVisits

ListIsRight ==
  LET listed == ToSet(messages)
  IN /\ listed \subseteq Matches[filter]
     /\ \A i, j \in DOMAIN messages : i < j => messages[i] > messages[j]
     /\ \A m \in Matches[filter] \ listed : \A n \in listed : m < n
     /\ cursor # NoCursor => Listed(filter, cursor) # {}
     /\ cursor = NoCursor /\ ~ loading /\ ~ listError => listed = Matches[filter]

(***************************************************************************)
(* "Reload messages whenever any filter changes" (Feed.tsx): the messages   *)
(* that are listed are those of the filter that is selected, newest first,  *)
(* with none left out and none twice; and there is more to load just when   *)
(* there are others.  A response that is late, or comes after that of a     *)
(* later request, must not show.  This fails in one way only: a page that   *)
(* loadMore asked for is appended after the list has been replaced.         *)
(***************************************************************************)
ListsTheFilter == phase = "ready" => mixed \/ ListIsRight

(***************************************************************************)
(* "Your session has expired. Open the feed link from the bot again." is    *)
(* said to a user whose session is over, or who comes with a link that is,  *)
(* and then also when there is a session; not because a request failed, nor *)
(* to one who loads the page again after it failed halfway.                 *)
(***************************************************************************)
ExpiryExplained == phase = "expired" => cookie # "good" \/ (inUrl /\ link = "old")

(***************************************************************************)
(* "Loading..." goes away, of the page and of the list, also when a request *)
(* fails or its filter is changed, so that the button to load more comes    *)
(* back.                                                                    *)
(***************************************************************************)
Loading == phase \in {"exchange", "metadata"} \/ (phase = "ready" /\ loading)

LoadingEnds == Loading ~> ~ Loading
=============================================================================
