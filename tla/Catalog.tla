------------------------------ MODULE Catalog -------------------------------
(***************************************************************************)
(* The channels and categories of one user, and the bot that edits them     *)
(* (bot/index.ts, bot/ui/actions.ts over storage/sources.ts and             *)
(* storage/topics.ts; a category is a row of "topics"), with the screens it *)
(* draws (bot/ui/views.ts).                                                 *)
(*                                                                          *)
(* The bot polls for updates and handles them one at a time.  A handler is  *)
(* several queries with no transaction around them.  An update is confirmed *)
(* by the poll that follows its handler: when the process dies before, the  *)
(* update is delivered again to a process that has forgotten "pending".     *)
(* When a query fails the handler ends there and the update is not          *)
(* delivered again (bot.catch).                                             *)
(*                                                                          *)
(* Handlers are split in two where they change two tables: createSource,    *)
(* then addSourceToTopic; removeSourceFromTopic, then deleteSource.  What   *)
(* they read before changes in no other way, for there is one bot.          *)
(***************************************************************************)
EXTENDS Naturals, FiniteSets

CONSTANTS
  Channel,       \* what a reference resolves to, one source row each
  Topic,         \* ids of categories, each used once
  Name,          \* names of categories
  NoName,        \* the name of a category that does not exist
  MaxChannels,   \* quotas.max_channels
  MaxTopics,     \* quotas.max_topics
  MaxCrashes,    \* bound: crashes of the process
  MaxErrors      \* bound: failed queries, calls and references

ASSUME NameAssumption == NoName \notin Name
ASSUME QuotaAssumption == MaxChannels \in Nat /\ MaxTopics \in Nat
ASSUME BoundAssumption == MaxCrashes \in Nat /\ MaxErrors \in Nat

VARIABLES
  topics,    \* the name of each category
  used,      \* ids of categories that exist or have existed
  tracked,   \* the channels that have a source row
  links,     \* topic_sources
  pending,   \* what the next text message is for: lost with the process
  update,    \* the update that is handled and not yet confirmed
  pc,        \* how far its handler is
  target,    \* the category trackChannel was given, or none
  screen,    \* the view it ends with, or NoView
  excused,   \* history: the channels whose lack of a category is explained
  crashes,
  errors

rows == <<topics, used, tracked, links>>
vars == <<rows, pending, update, pc, target, screen, excused, crashes, errors>>

\* What a button of a screen asks for, by the ids it carries
Buttons ==
  [kind : {"tp:list", "tp:new", "acct:home", "acct:status", "acct:logout", "acct:api",
           "more:home", "nav:menu"}]
    \cup [kind : {"tp:view", "tp:addch", "tp:manage", "tp:rename", "tp:del", "tp:delyes"},
          t : Topic]
    \cup [kind : {"ch:view", "ch:rm", "ch:rmyes", "tp:tog"}, c : Channel, t : Topic]

\* A command names a category; a text message is read as a reference or as a
\* name, by what is pending.
Messages ==
  [kind : {"add", "addtotopic", "removefromtopic"}, c : Channel, n : Name]
    \cup [kind : {"remove"}, c : Channel]
    \cup [kind : {"newtopic", "deltopic"}, n : Name]
    \cup [kind : {"renametopic"}, n : Name, m : Name]
    \cup [kind : {"cancel", "Categories", "Account"}]
    \cup [kind : {"text"}, c : Channel, n : Name]

Updates == Buttons \cup Messages

NoUpdate == [kind |-> "none"]

\* A view is named by the button that leads to it.
NoView == NoUpdate
TopicsView == [kind |-> "tp:list"]
TopicView(t) == [kind |-> "tp:view", t |-> t]
ManageView(t) == [kind |-> "tp:manage", t |-> t]
AccountView == [kind |-> "acct:home"]

NoPending == [kind |-> "none"]
Pending ==
  {NoPending, [kind |-> "new_topic"]}
    \cup [kind : {"add_channel", "rename_topic"}, t : Topic]

Init ==
  /\ topics = [t \in Topic |-> NoName]
  /\ used = {}
  /\ tracked = {}
  /\ links = {}
  /\ pending = NoPending
  /\ update = NoUpdate
  /\ pc = "idle"
  /\ target = {}
  /\ screen = NoView
  /\ excused = {}
  /\ crashes = 0
  /\ errors = 0

-----------------------------------------------------------------------------
(* The tables *)

Exists(t) == topics[t] # NoName

\* getTopicByName
Named(n) == {t \in Topic : topics[t] = n}

\* createSource: ON CONFLICT DO UPDATE
CreateSource(c) ==
  /\ tracked' = tracked \cup {c}
  /\ UNCHANGED <<topics, used, links>>

\* Wrong: topic_sources without ON DELETE CASCADE.
AllLinks(c) == links

LinksWithout(c) == {l \in links : l[2] # c}

DeleteSource(c) ==
  /\ tracked' = tracked \ {c}
  /\ links' = LinksWithout(c)
  /\ UNCHANGED <<topics, used>>

\* addSourceToTopic: nothing is inserted unless both rows exist.
AddSourceToTopic(t, c) ==
  /\ links' = links \cup {l \in {<<t, c>>} : Exists(t) /\ c \in tracked}
  /\ UNCHANGED <<topics, used, tracked>>

RemoveSourceFromTopic(t, c) ==
  /\ links' = links \ {<<t, c>>}
  /\ UNCHANGED <<topics, used, tracked>>

DeleteTopic(t) ==
  /\ topics' = [topics EXCEPT ![t] = NoName]
  /\ links' = {l \in links : l[1] # t}
  /\ UNCHANGED <<used, tracked>>

\* countSources >= maxChannels, countTopics >= maxTopics
QuotaReached(set, quota) == Cardinality(set) >= quota

-----------------------------------------------------------------------------
(* Handling *)

\* A button of any screen that was ever drawn.  Bound: no new category is asked
\* for when the ids are used up.
Receive ==
  /\ pc = "idle"
  /\ update' \in Messages \cup {b \in Buttons : "t" \in DOMAIN b => b.t \in used}
  /\ used = Topic => update'.kind \notin {"newtopic", "text"}
  /\ pc' = "ready"
  /\ UNCHANGED <<rows, pending, target, screen, crashes, errors>>

\* The next poll confirms the update.
Confirm ==
  /\ pc = "done"
  /\ pc' = "idle"
  /\ update' = NoUpdate
  /\ target' = {}
  /\ screen' = NoView
  /\ UNCHANGED <<rows, pending, crashes, errors>>

\* A handler of "kind" starts; what it changes of "rows", "pending", "pc",
\* "target" and "screen" is its own.
Handle(kind) ==
  /\ pc = "ready"
  /\ update.kind = kind
  /\ UNCHANGED <<update, crashes, errors>>

\* ... and ends, with a view or with words only.
Draws(view) == pc' = "done" /\ screen' = view /\ UNCHANGED target

Done == Draws(NoView)

\* A button whose rows are still there
Lives(b) ==
  /\ "t" \in DOMAIN b => Exists(b.t)
  /\ "c" \in DOMAIN b => b.c \in tracked

\* The change, or the reply that there is no such row, no such name, or one
\* already.
Checked(condition, change) == IF condition THEN change ELSE UNCHANGED rows

-----------------------------------------------------------------------------
(* Channels *)

\* Wrong: the channels are counted once the row is there.
CountAfter(categories) ==
  /\ CreateSource(update.c)
  /\ IF Cardinality(tracked') > MaxChannels
     THEN Done
     ELSE target' = categories /\ pc' = "link" /\ UNCHANGED screen

\* trackChannel as far as createSource.  The quota is checked first, whether
\* or not the channel is tracked already.
TrackChannel(categories) ==
  IF QuotaReached(tracked, MaxChannels)
  THEN Done /\ UNCHANGED rows
  ELSE /\ CreateSource(update.c)
       /\ target' = categories
       /\ pc' = "link"
       /\ UNCHANGED screen

\* /add <channel> | <category>
Add ==
  /\ Handle("add")
  /\ IF Named(update.n) # {} THEN TrackChannel(Named(update.n))
                             ELSE Done /\ UNCHANGED rows
  /\ UNCHANGED pending

\* The channel reference that tp:addch asked for.
TextAdd ==
  /\ Handle("text")
  /\ pending.kind = "add_channel"
  /\ pending' = NoPending
  /\ TrackChannel({pending.t})

\* trackChannel after createSource; after a text message the category is drawn.
Link ==
  /\ pc = "link"
  /\ \E t \in target :
       /\ AddSourceToTopic(t, update.c)
       /\ Draws(IF update.kind = "add" THEN NoView
                ELSE IF Exists(t) THEN TopicView(t) ELSE TopicsView)
  /\ UNCHANGED <<pending, update, crashes, errors>>

\* The category still exists.
Linkable == \A t \in target : Exists(t)

\* /remove <channel>
Remove ==
  /\ Handle("remove")
  /\ Done
  /\ Checked(update.c \in tracked, DeleteSource(update.c))
  /\ UNCHANGED pending

\* Wrong: the channel stays when it is in no category any more.
NeverOrphan(t, c) == FALSE

\* Wrong: the channel goes whether or not another category has it.
AlwaysOrphan(t, c) == TRUE

\* getTopicIdsForSource: none remains.
Orphan(t, c) == \A s \in Topic \ {t} : <<s, c>> \notin links

\* removeChannelFromCategory: the row of a channel that is left in no
\* category is deleted after the link.
RemoveChannelFromCategory(t, c) ==
  /\ RemoveSourceFromTopic(t, c)
  /\ pc' = IF Orphan(t, c) THEN "untrack" ELSE "done"
  /\ UNCHANGED target

\* Wrong: back to the channel that was removed.
ChannelAgain(t) == [kind |-> "ch:view", c |-> update.c, t |-> t]

AfterRemoval(t) == IF Exists(t) THEN TopicView(t) ELSE TopicsView

\* ch:rmyes
RemoveConfirmed ==
  /\ Handle("ch:rmyes")
  /\ IF Lives(update)
     THEN RemoveChannelFromCategory(update.t, update.c)
     ELSE pc' = "done" /\ UNCHANGED <<rows, target>>
  /\ screen' = AfterRemoval(update.t)
  /\ UNCHANGED pending

\* tp:tog: what it does depends on the rows, not on the button that is shown.
ToggleChannelInTopic ==
  /\ Handle("tp:tog")
  /\ IF <<update.t, update.c>> \in links
     THEN RemoveChannelFromCategory(update.t, update.c)
     ELSE AddSourceToTopic(update.t, update.c) /\ pc' = "done" /\ UNCHANGED target
  /\ screen' = IF Lives(update) THEN ManageView(update.t) ELSE NoView
  /\ UNCHANGED pending

Untrack ==
  /\ pc = "untrack"
  /\ DeleteSource(update.c)
  /\ Draws(screen)
  /\ UNCHANGED <<pending, update, crashes, errors>>

\* /addtotopic <channel> | <category>
AddToTopic ==
  /\ Handle("addtotopic")
  /\ Done
  /\ Checked(Named(update.n) # {}, \E t \in Named(update.n) : AddSourceToTopic(t, update.c))
  /\ UNCHANGED pending

\* /removefromtopic <channel> | <category>: the link, and no more
RemoveFromTopic ==
  /\ Handle("removefromtopic")
  /\ Done
  /\ Checked(Named(update.n) # {}, \E t \in Named(update.n) : RemoveSourceFromTopic(t, update.c))
  /\ UNCHANGED pending

-----------------------------------------------------------------------------
(* Categories *)

\* makeTopic, for /newtopic or for a text message
MayMake(n) == ~ QuotaReached({t \in Topic : Exists(t)}, MaxTopics) /\ Named(n) = {}

MakeTopic(n) ==
  Checked(MayMake(n),
          \E t \in Topic \ used :
            /\ topics' = [topics EXCEPT ![t] = n]
            /\ used' = used \cup {t}
            /\ UNCHANGED <<tracked, links>>)

\* renameTopicTo: the UPDATE changes no row when the category is gone.
RenameTopicTo(t, n) ==
  Checked(Exists(t) /\ Named(n) \subseteq {t},
          /\ topics' = [topics EXCEPT ![t] = n]
          /\ UNCHANGED <<used, tracked, links>>)

NewTopic ==
  /\ Handle("newtopic")
  /\ Done
  /\ MakeTopic(update.n)
  /\ UNCHANGED pending

\* The name that tp:new asked for.
TextNewTopic ==
  /\ Handle("text")
  /\ Draws(IF MayMake(update.n) THEN TopicsView ELSE NoView)
  /\ pending.kind = "new_topic"
  /\ pending' = NoPending
  /\ MakeTopic(update.n)

\* /renametopic <name> | <new name>
RenameTopic ==
  /\ Handle("renametopic")
  /\ Done
  /\ Checked(Named(update.n) # {}, \E t \in Named(update.n) : RenameTopicTo(t, update.m))
  /\ UNCHANGED pending

\* The name that tp:rename asked for; the category is drawn, also if it is gone.
TextRenameTopic ==
  /\ Handle("text")
  /\ pending.kind = "rename_topic"
  /\ Draws(IF Named(update.n) \subseteq {pending.t} THEN TopicView(pending.t) ELSE NoView)
  /\ pending' = NoPending
  /\ RenameTopicTo(pending.t, update.n)

\* A text message that nothing asked for is turned down.
TextUnasked ==
  /\ Handle("text")
  /\ Done
  /\ pending = NoPending
  /\ UNCHANGED <<rows, pending>>

\* /deltopic <name>
DelTopic ==
  /\ Handle("deltopic")
  /\ Done
  /\ Checked(Named(update.n) # {}, \E t \in Named(update.n) : DeleteTopic(t))
  /\ UNCHANGED pending

\* tp:delyes
DeleteConfirmed ==
  /\ Handle("tp:delyes")
  /\ Draws(TopicsView)
  /\ Checked(Exists(update.t), DeleteTopic(update.t))
  /\ UNCHANGED pending

\* tp:new, tp:addch and tp:rename ask for a text message, or show the list if
\* the category is gone.
Ask(asked) ==
  /\ Handle(update.kind)
  /\ IF Lives(update) THEN Done /\ pending' = asked
                      ELSE Draws(TopicsView) /\ UNCHANGED pending
  /\ UNCHANGED rows

AskForText ==
  \/ update.kind = "tp:new" /\ Ask([kind |-> "new_topic"])
  \/ update.kind = "tp:addch" /\ Ask([kind |-> "add_channel", t |-> update.t])
  \/ update.kind = "tp:rename" /\ Ask([kind |-> "rename_topic", t |-> update.t])

-----------------------------------------------------------------------------
(* Screens *)

\* What only draws: the view that a button names, or the list of categories if
\* what it is about is gone.  acct:logout is in Accounts.
Browsing == {"tp:list", "tp:view", "tp:manage", "tp:del", "ch:view", "ch:rm", "acct:home",
             "acct:status", "acct:logout", "acct:api", "more:home", "nav:menu"}

Browse ==
  /\ update.kind \in Browsing
  /\ Handle(update.kind)
  /\ Draws(IF ~ Lives(update) THEN TopicsView
           ELSE IF update.kind = "acct:logout" THEN AccountView ELSE update)
  /\ UNCHANGED <<rows, pending>>

\* /cancel and the menu buttons below the chat, which drop what was asked for
Leave(kind, view) ==
  /\ Handle(kind)
  /\ Draws(view)
  /\ pending' = NoPending
  /\ UNCHANGED rows

Cancel ==
  \/ Leave("cancel", NoView)
  \/ Leave("Categories", TopicsView)
  \/ Leave("Account", AccountView)

\* The buttons of a view, from the rows of the moment
ButtonsOf(v) ==
  CASE v.kind = "tp:list" ->
         {[kind |-> "tp:new"]} \cup {TopicView(t) : t \in {t \in Topic : Exists(t)}}
    [] v.kind = "tp:view" ->
         {TopicsView} \cup [kind : {"tp:addch", "tp:manage", "tp:rename", "tp:del"}, t : {v.t}]
           \cup {[kind |-> "ch:view", c |-> l[2], t |-> v.t] : l \in {l \in links : l[1] = v.t}}
    [] v.kind = "tp:manage" -> {TopicView(v.t)} \cup [kind : {"tp:tog"}, c : tracked, t : {v.t}]
    [] v.kind = "tp:del" -> {TopicView(v.t), [v EXCEPT !.kind = "tp:delyes"]}
    [] v.kind = "ch:view" -> {TopicView(v.t), [v EXCEPT !.kind = "ch:rm"]}
    [] v.kind = "ch:rm" -> {[v EXCEPT !.kind = "ch:view"], [v EXCEPT !.kind = "ch:rmyes"]}
    [] v.kind = "acct:home" -> [kind : {"acct:status", "acct:logout", "acct:api"}]
    [] v.kind \in {"acct:status", "acct:api"} -> {AccountView}
    [] v.kind = "more:home" -> [kind : {"nav:menu"}]
    [] v.kind = "nav:menu" -> {TopicsView, AccountView, [kind |-> "more:home"]}
    [] OTHER -> {}

-----------------------------------------------------------------------------
(* Failures *)

\* A query fails, or a reference does not resolve, or the reply cannot be sent:
\* before any change, between the two or after.  A text message has used
\* "pending" up, unless it is the query for the user that failed.
QueryFails ==
  /\ pc # "idle"
  /\ errors < MaxErrors
  /\ errors' = errors + 1
  /\ pc' = "done"
  /\ screen' = NoView
  /\ pending' \in {pending} \cup {p \in {NoPending} : update.kind = "text"}
  /\ UNCHANGED <<rows, update, target, crashes>>

\* The update will do its work when it is delivered again: a text message does
\* not, nor does an /add that has used up the quota.
Repeatable ==
  /\ update.kind # "text"
  /\ update.kind = "add" => ~ QuotaReached(tracked, MaxChannels)

\* The process dies and a new one gets the update again.
Crash ==
  /\ pc # "idle"
  /\ crashes < MaxCrashes
  /\ crashes' = crashes + 1
  /\ pc' = "ready"
  /\ pending' = NoPending
  /\ target' = {}
  /\ screen' = NoView
  /\ UNCHANGED <<rows, update, errors>>

-----------------------------------------------------------------------------

\* What keeps every channel in a category, if nothing goes wrong.
Keeps ==
  \/ Receive
  \/ Confirm
  \/ Add
  \/ TextAdd
  \/ Link /\ Linkable
  \/ Remove
  \/ RemoveConfirmed
  \/ ToggleChannelInTopic
  \/ Untrack
  \/ AddToTopic
  \/ NewTopic
  \/ TextNewTopic
  \/ TextUnasked
  \/ RenameTopic
  \/ TextRenameTopic
  \/ AskForText
  \/ Browse
  \/ Cancel
  \/ Crash /\ Repeatable

\* What may leave a channel in none: it looks at no channel, its category is
\* gone, or it ends halfway.
Loses ==
  \/ Link /\ ~ Linkable
  \/ RemoveFromTopic
  \/ DelTopic
  \/ DeleteConfirmed
  \/ QueryFails
  \/ Crash /\ ~ Repeatable

Uncategorized == {c \in tracked : \A t \in Topic : <<t, c>> \notin links}

Next ==
  \/ Keeps /\ excused' = excused \cap Uncategorized'
  \/ Loses /\ excused' = Uncategorized'

Spec == Init /\ [][Next]_vars

-----------------------------------------------------------------------------
(* Properties *)

(***************************************************************************)
(* Every variable has a value of its kind; the links are between rows that  *)
(* exist, and no two categories have the same name.                         *)
(***************************************************************************)
TypeOK ==
  /\ topics \in [Topic -> Name \cup {NoName}]
  /\ \A t, s \in Topic : Exists(t) /\ topics[t] = topics[s] => t = s
  /\ {t \in Topic : Exists(t)} \subseteq used
  /\ used \subseteq Topic
  /\ tracked \subseteq Channel
  /\ links \subseteq {t \in Topic : Exists(t)} \X tracked
  /\ pending \in Pending
  /\ update \in Updates \cup {NoUpdate}
  /\ pc \in {"idle", "ready", "link", "untrack", "done"}
  /\ target \subseteq Topic
  /\ screen \in Buttons \cup {NoView}
  /\ excused \subseteq tracked
  /\ crashes \in 0..MaxCrashes
  /\ errors \in 0..MaxErrors

(***************************************************************************)
(* "Channels must live in at least one category, so a channel left in none  *)
(* stops being tracked entirely" (actions.ts).  What "Loses" lists is all   *)
(* that breaks that rule.  The other buttons and /add, /remove, /addtotopic *)
(* do not, nor does a crash in the middle of one that is delivered again:   *)
(* the second time a link that was missing is made, a row that was left is  *)
(* deleted, or the channel is linked again.                                 *)
(***************************************************************************)
OrphansExplained == pc \in {"idle", "done"} => Uncategorized \subseteq excused

(***************************************************************************)
(* A channel that is in another category stays tracked when it is removed   *)
(* from one, also when the update is delivered twice.                       *)
(***************************************************************************)
OnlyOrphansUntracked ==
  [][\A c \in tracked \ tracked' :
       update.kind = "remove" \/ \A t \in Topic : <<t, c>> \notin links]_vars

(***************************************************************************)
(* A screen that has just been drawn has no dead button: each has a handler *)
(* and is about rows that are there, after whatever the handler deleted and *)
(* whichever screen the pressed button was on.  A category that was deleted *)
(* after its new name had been asked for is drawn all the same.             *)
(***************************************************************************)
RenamedNone == update.kind = "text" /\ screen.kind = "tp:view" /\ ~ Exists(screen.t)

ScreensLive ==
  pc = "done" => \A b \in ButtonsOf(screen) : RenamedNone \/ (b \in Buttons /\ Lives(b))

(***************************************************************************)
(* The quotas hold, also when an update is delivered twice: the count is    *)
(* taken before the channel is resolved and the row inserted after.         *)
(***************************************************************************)
QuotasRespected ==
  /\ Cardinality(tracked) <= MaxChannels
  /\ Cardinality({t \in Topic : Exists(t)}) <= MaxTopics
=============================================================================
