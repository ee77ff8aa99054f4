---------------------------- MODULE CatalogProofs ----------------------------
(***************************************************************************)
(* Theorems about the bot's edits of channels and categories (Catalog), for *)
(* any number of channels, categories, names, crashes and failures, and any *)
(* quotas.                                                                  *)
(***************************************************************************)
EXTENDS Catalog, FiniteSetTheorems, TLAPS

USE NameAssumption, QuotaAssumption, BoundAssumption
    DEF rows

-----------------------------------------------------------------------------
(* Type correctness, first of the tables, then of the handler *)

RowsOK ==
  /\ topics \in [Topic -> Name \cup {NoName}]
  /\ \A t, s \in Topic : Exists(t) /\ topics[t] = topics[s] => t = s
  /\ {t \in Topic : Exists(t)} \subseteq used
  /\ used \subseteq Topic
  /\ tracked \subseteq Channel
  /\ links \subseteq {t \in Topic : Exists(t)} \X tracked

LEMMA CreateKeepsRows ==
  ASSUME RowsOK, NEW c \in Channel, CreateSource(c)
  PROVE  RowsOK'
BY DEF RowsOK, CreateSource, Exists

LEMMA DeleteKeepsRows ==
  ASSUME RowsOK, NEW c, DeleteSource(c)
  PROVE  RowsOK'
<1>1. UNCHANGED <<topics, used>>
  BY DEF DeleteSource
<1>2. \A l \in links' : l \in links /\ l[2] # c
  BY DEF DeleteSource, LinksWithout
<1>3. tracked' = tracked \ {c}
  BY DEF DeleteSource
<1>4. ASSUME NEW l \in links' PROVE l \in {t \in Topic : Exists(t)} \X tracked'
  BY <1>2, <1>3 DEF RowsOK
<1> QED BY <1>1, <1>3, <1>4 DEF RowsOK, Exists

LEMMA LinkKeepsRows ==
  ASSUME RowsOK, NEW t \in Topic, NEW c, AddSourceToTopic(t, c)
  PROVE  RowsOK'
BY DEF RowsOK, AddSourceToTopic, Exists

LEMMA UnlinkKeepsRows ==
  ASSUME RowsOK, NEW t, NEW c, RemoveSourceFromTopic(t, c)
  PROVE  RowsOK'
BY DEF RowsOK, RemoveSourceFromTopic, Exists

LEMMA DeleteTopicKeepsRows ==
  ASSUME RowsOK, NEW t \in Topic, DeleteTopic(t)
  PROVE  RowsOK'
<1>1. topics' = [topics EXCEPT ![t] = NoName] /\ UNCHANGED <<used, tracked>>
  BY DEF DeleteTopic
<1>2. \A l \in links' : l \in links /\ l[1] # t
  BY DEF DeleteTopic
<1>3. ASSUME NEW l \in links' PROVE l \in {x \in Topic : Exists(x)'} \X tracked
  BY <1>1, <1>2 DEF RowsOK, Exists
<1>4. \A x \in Topic : Exists(x)' => Exists(x) /\ topics'[x] = topics[x]
  BY <1>1 DEF Exists, RowsOK
<1>5. topics' \in [Topic -> Name \cup {NoName}]
  BY <1>1 DEF RowsOK
<1>6. \A x, y \in Topic : Exists(x)' /\ topics'[x] = topics'[y] => x = y
  BY <1>1, <1>4 DEF RowsOK, Exists
<1> QED BY <1>1, <1>3, <1>4, <1>5, <1>6 DEF RowsOK

LEMMA MakeKeepsRows ==
  ASSUME RowsOK, NEW n \in Name, MakeTopic(n)
  PROVE  RowsOK'
<1>1. CASE UNCHANGED rows
  BY <1>1 DEF RowsOK, Exists
<1>2. CASE ~ UNCHANGED rows
  <2>1. PICK t \in Topic \ used :
          /\ topics' = [topics EXCEPT ![t] = n]
          /\ used' = used \cup {t}
          /\ UNCHANGED <<tracked, links>>
    BY <1>2 DEF MakeTopic, Checked
  <2>2. Named(n) = {}
    BY <1>2 DEF MakeTopic, Checked, MayMake
  <2> QED BY <2>1, <2>2 DEF RowsOK, Exists, Named
<1> QED BY <1>1, <1>2

LEMMA RenameKeepsRows ==
  ASSUME RowsOK, NEW t \in Topic, NEW n \in Name, RenameTopicTo(t, n)
  PROVE  RowsOK'
<1>1. CASE UNCHANGED rows
  BY <1>1 DEF RowsOK, Exists
<1>2. CASE ~ UNCHANGED rows
  <2>1. /\ topics' = [topics EXCEPT ![t] = n]
        /\ UNCHANGED <<used, tracked, links>>
        /\ Exists(t) /\ Named(n) \subseteq {t}
    BY <1>2 DEF RenameTopicTo, Checked
  <2>2. topics' \in [Topic -> Name \cup {NoName}]
    BY <2>1 DEF RowsOK
  <2>3. \A x \in Topic : Exists(x)' <=> Exists(x)
    BY <2>1 DEF RowsOK, Exists
  <2>4. \A x, y \in Topic : Exists(x)' /\ topics'[x] = topics'[y] => x = y
    BY <2>1, <2>3 DEF RowsOK, Exists, Named
  <2> QED BY <2>1, <2>2, <2>3, <2>4 DEF RowsOK
<1> QED BY <1>1, <1>2

\* What an update names, by its kind
LEMMA UpdateFields ==
  ASSUME update \in Updates \cup {NoUpdate}
  PROVE  /\ update.kind \in {"add", "addtotopic", "removefromtopic", "text"} =>
              update.c \in Channel /\ update.n \in Name
         /\ update.kind = "remove" => update.c \in Channel
         /\ update.kind \in {"newtopic", "deltopic"} => update.n \in Name
         /\ update.kind = "renametopic" => update.n \in Name /\ update.m \in Name
         /\ update.kind \in {"tp:addch", "tp:rename", "tp:delyes"} =>
              update.t \in Topic
         /\ update.kind \in {"ch:rmyes", "tp:tog"} => update.c \in Channel /\ update.t \in Topic
         /\ update.kind \in Browsing => update \in Buttons
BY DEF Updates, Buttons, Messages, NoUpdate, Browsing

HandlerOK ==
  /\ pending \in Pending
  /\ update \in Updates \cup {NoUpdate}
  /\ pc \in {"idle", "ready", "link", "untrack", "done"}
  /\ target \subseteq Topic
  /\ screen \in Buttons \cup {NoView}
  /\ crashes \in 0..MaxCrashes
  /\ errors \in 0..MaxErrors

LEMMA ViewTypes ==
  /\ TopicsView \in Buttons
  /\ AccountView \in Buttons
  /\ \A t \in Topic : TopicView(t) \in Buttons /\ ManageView(t) \in Buttons
BY DEF TopicsView, AccountView, TopicView, ManageView, Buttons

\* What was asked for, by its kind
LEMMA PendingFields ==
  ASSUME pending \in Pending
  PROVE  /\ pending.kind \in {"add_channel", "rename_topic"} => pending.t \in Topic
         /\ NoPending \in Pending
BY DEF Pending, NoPending

LEMMA TypeStep ==
  ASSUME RowsOK, HandlerOK, Keeps \/ Loses
  PROVE  RowsOK' /\ HandlerOK'
<1> USE UpdateFields, ViewTypes, PendingFields
<1>0. ASSUME UNCHANGED rows PROVE RowsOK'
  BY <1>0 DEF RowsOK, Exists
<1>1. CASE Receive
  BY <1>0, <1>1 DEF Receive, HandlerOK, Updates
<1>2. CASE Confirm
  BY <1>0, <1>2 DEF Confirm, HandlerOK, NoView
<1>3. CASE Add
  <2>1. RowsOK'
    BY <1>0, <1>3, CreateKeepsRows DEF Add, Handle, TrackChannel, HandlerOK
  <2>2. Named(update.n) \subseteq Topic
    BY DEF Named
  <2> QED BY <1>3, <2>1, <2>2 DEF Add, Handle, TrackChannel, Done, Draws, HandlerOK
<1>4. CASE TextAdd
  <2>1. RowsOK'
    BY <1>0, <1>4, CreateKeepsRows DEF TextAdd, Handle, TrackChannel, HandlerOK
  <2> QED BY <1>4, <2>1 DEF TextAdd, Handle, TrackChannel, Done, Draws, HandlerOK
<1>5. CASE Link
  <2>1. PICK t \in target :
          /\ AddSourceToTopic(t, update.c)
          /\ Draws(IF update.kind = "add" THEN NoView
                   ELSE IF Exists(t) THEN TopicView(t) ELSE TopicsView)
    BY <1>5 DEF Link
  <2>2. t \in Topic
    BY <2>1 DEF HandlerOK
  <2>3. RowsOK'
    BY <2>1, <2>2, LinkKeepsRows
  <2> QED BY <1>5, <2>1, <2>2, <2>3 DEF Link, Draws, HandlerOK
<1>6. CASE Remove
  BY <1>0, <1>6, DeleteKeepsRows DEF Remove, Handle, Done, Draws, Checked, HandlerOK
<1>7. CASE RemoveConfirmed
  <2>1. RowsOK'
    BY <1>0, <1>7, UnlinkKeepsRows
    DEF RemoveConfirmed, RemoveChannelFromCategory, Handle, HandlerOK
  <2> QED BY <1>7, <2>1
          DEF RemoveConfirmed, RemoveChannelFromCategory, AfterRemoval, Handle, HandlerOK
<1>8. CASE ToggleChannelInTopic
  <2>1. RowsOK'
    BY <1>8, UnlinkKeepsRows, LinkKeepsRows
    DEF ToggleChannelInTopic, RemoveChannelFromCategory, Handle, HandlerOK
  <2> QED BY <1>8, <2>1
          DEF ToggleChannelInTopic, RemoveChannelFromCategory, Handle, HandlerOK
<1>9. CASE Untrack
  BY <1>9, DeleteKeepsRows DEF Untrack, Draws, HandlerOK
<1>10. CASE AddToTopic
  <2>1. CASE UNCHANGED rows
    BY <1>0, <1>10, <2>1 DEF AddToTopic, Handle, Done, Draws, HandlerOK
  <2>2. CASE ~ UNCHANGED rows
    <3>1. PICK t \in Named(update.n) : AddSourceToTopic(t, update.c)
      BY <1>10, <2>2 DEF AddToTopic, Checked
    <3>2. RowsOK'
      BY <3>1, LinkKeepsRows DEF Named
    <3> QED BY <1>10, <3>2 DEF AddToTopic, Handle, Done, Draws, HandlerOK
  <2> QED BY <2>1, <2>2
<1>11. CASE RemoveFromTopic
  <2>1. RowsOK'
    BY <1>0, <1>11, UnlinkKeepsRows DEF RemoveFromTopic, Checked
  <2> QED BY <1>11, <2>1 DEF RemoveFromTopic, Handle, Done, Draws, HandlerOK
<1>12. CASE NewTopic
  <2>1. RowsOK'
    BY <1>12, MakeKeepsRows DEF NewTopic, Handle, HandlerOK
  <2> QED BY <1>12, <2>1 DEF NewTopic, Handle, Done, Draws, HandlerOK
<1>13. CASE TextNewTopic
  <2>1. RowsOK'
    BY <1>13, MakeKeepsRows DEF TextNewTopic, Handle, HandlerOK
  <2> QED BY <1>13, <2>1 DEF TextNewTopic, Handle, Draws, HandlerOK
<1>14. CASE TextUnasked
  BY <1>0, <1>14 DEF TextUnasked, Handle, Done, Draws, HandlerOK
<1>15. CASE RenameTopic
  <2>1. CASE UNCHANGED rows
    BY <1>0, <1>15, <2>1 DEF RenameTopic, Handle, Done, Draws, HandlerOK
  <2>2. CASE ~ UNCHANGED rows
    <3>1. PICK t \in Named(update.n) : RenameTopicTo(t, update.m)
      BY <1>15, <2>2 DEF RenameTopic, Checked
    <3>2. update.m \in Name
      BY <1>15 DEF RenameTopic, Handle, HandlerOK
    <3>3. RowsOK'
      BY <3>1, <3>2, RenameKeepsRows DEF Named
    <3> QED BY <1>15, <3>3 DEF RenameTopic, Handle, Done, Draws, HandlerOK
  <2> QED BY <2>1, <2>2
<1>16. CASE TextRenameTopic
  <2>1. pending.t \in Topic /\ update.n \in Name
    BY <1>16 DEF TextRenameTopic, Handle, HandlerOK
  <2>2. RowsOK'
    BY <1>16, <2>1, RenameKeepsRows DEF TextRenameTopic
  <2> QED BY <1>16, <2>1, <2>2 DEF TextRenameTopic, Handle, Draws, HandlerOK
<1>17. CASE DelTopic
  <2>1. RowsOK'
    BY <1>0, <1>17, DeleteTopicKeepsRows DEF DelTopic, Checked, Named
  <2> QED BY <1>17, <2>1 DEF DelTopic, Handle, Done, Draws, HandlerOK
<1>18. CASE DeleteConfirmed
  <2>1. RowsOK'
    BY <1>0, <1>18, DeleteTopicKeepsRows DEF DeleteConfirmed, Checked, Handle, HandlerOK
  <2> QED BY <1>18, <2>1 DEF DeleteConfirmed, Handle, Draws, HandlerOK
<1>19. CASE AskForText
  <2>1. PICK asked \in Pending : Ask(asked)
    BY <1>19 DEF AskForText, Pending, HandlerOK
  <2> QED BY <1>0, <2>1 DEF Ask, Handle, Done, Draws, HandlerOK
<1>20. CASE Browse
  BY <1>0, <1>20 DEF Browse, Handle, Draws, HandlerOK
<1>21. CASE Cancel
  <2>1. \E view \in Buttons \cup {NoView} :
          /\ Draws(view)
          /\ pending' = NoPending
          /\ UNCHANGED <<rows, update, crashes, errors>>
    BY <1>21 DEF Cancel, Leave, Handle
  <2> QED BY <1>0, <2>1 DEF Draws, HandlerOK
<1>22. CASE QueryFails
  BY <1>0, <1>22 DEF QueryFails, HandlerOK
<1>23. CASE Crash
  BY <1>0, <1>23 DEF Crash, HandlerOK
<1> QED BY <1>1, <1>2, <1>3, <1>4, <1>5, <1>6, <1>7, <1>8, <1>9, <1>10, <1>11, <1>12, <1>13,
           <1>14, <1>15, <1>16, <1>17, <1>18, <1>19, <1>20, <1>21, <1>22, <1>23
        DEF Keeps, Loses

(***************************************************************************)
(* Every variable has a value of its kind, the links are between rows that  *)
(* exist and no two categories have the same name, whatever the bot does    *)
(* and wherever it fails.                                                   *)
(***************************************************************************)
THEOREM TypeCorrect == Spec => []TypeOK
<1>1. Init => TypeOK
  BY DEF Init, TypeOK, Exists, Pending, NoView
<1>2. TypeOK /\ [Next]_vars => TypeOK'
  <2> SUFFICES ASSUME TypeOK, [Next]_vars PROVE TypeOK'
    OBVIOUS
  <2>1. RowsOK /\ HandlerOK
    BY DEF TypeOK, RowsOK, HandlerOK
  <2>2. CASE Next
    <3>1. RowsOK' /\ HandlerOK'
      BY <2>1, <2>2, TypeStep DEF Next
    <3>2. excused' \subseteq tracked'
      BY <2>2 DEF Next, Uncategorized
    <3> QED BY <3>1, <3>2 DEF TypeOK, RowsOK, HandlerOK
  <2>3. CASE UNCHANGED vars
    BY <2>3 DEF vars, TypeOK, Exists
  <2> QED BY <2>2, <2>3
<1> QED BY <1>1, <1>2, PTL DEF Spec

-----------------------------------------------------------------------------
(* Channels in no category *)

\* What each query does to them
LEMMA CreateUncategorized ==
  ASSUME NEW c, CreateSource(c)
  PROVE  Uncategorized' \subseteq Uncategorized \cup {c}
BY DEF CreateSource, Uncategorized

LEMMA DeleteUncategorized ==
  ASSUME RowsOK, NEW c, DeleteSource(c)
  PROVE  Uncategorized' \subseteq Uncategorized \ {c}
<1>1. \A t \in Topic, d \in tracked' : <<t, d>> \in links => <<t, d>> \in links'
  BY DEF DeleteSource, LinksWithout
<1> QED BY <1>1 DEF DeleteSource, Uncategorized

LEMMA AddUncategorized ==
  ASSUME NEW t \in Topic, NEW c, AddSourceToTopic(t, c)
  PROVE  /\ Uncategorized' \subseteq Uncategorized
         /\ Exists(t) => Uncategorized' \subseteq Uncategorized \ {c}
BY DEF AddSourceToTopic, Uncategorized

LEMMA RemoveUncategorized ==
  ASSUME NEW t \in Topic, NEW c, RemoveSourceFromTopic(t, c)
  PROVE  /\ Uncategorized' \subseteq Uncategorized \cup {c}
         /\ ~ Orphan(t, c) => Uncategorized' \subseteq Uncategorized
         /\ Orphan(t, c) => \A s \in Topic : <<s, c>> \notin links'
BY DEF RemoveSourceFromTopic, Uncategorized, Orphan

LEMMA SameUncategorized ==
  ASSUME UNCHANGED <<tracked, links>>
  PROVE  Uncategorized' = Uncategorized
BY DEF Uncategorized

\* The update adds the category that its first delivery has not, or removes
\* the row that it has left.
Resumes ==
  \/ /\ update.kind = "add"
     /\ Named(update.n) # {}
     /\ ~ QuotaReached(tracked, MaxChannels)
  \/ /\ update.kind \in {"ch:rmyes", "tp:tog"}
     /\ Exists(update.t)
     /\ update.c \in tracked

OrphansInv ==
  /\ pc \in {"idle", "done"} => Uncategorized \subseteq excused
  /\ pc = "ready" => \/ Uncategorized \subseteq excused
                     \/ Resumes /\ Uncategorized \subseteq excused \cup {update.c}
  /\ pc = "link" => /\ Uncategorized \subseteq excused \cup {update.c}
                    /\ update.kind \in {"add", "text"}
                    /\ update.kind = "add" => Named(update.n) # {}
  /\ pc = "untrack" => /\ Uncategorized \subseteq excused \cup {update.c}
                       /\ update.kind \in {"ch:rmyes", "tp:tog"}
                       /\ Exists(update.t)
                       /\ update.c \in tracked
                       /\ \A t \in Topic : <<t, update.c>> \notin links

LEMMA OrphansLost ==
  ASSUME TypeOK, OrphansInv, Loses, excused' = Uncategorized'
  PROVE  OrphansInv'
<1>1. pc' \in {"ready", "done"}
  BY DEF Loses, Link, RemoveFromTopic, DelTopic, DeleteConfirmed, QueryFails, Crash, Done, Draws
<1> QED BY <1>1 DEF OrphansInv

\* A handler that ends, and leaves no other channel without a category
LEMMA OrphansEnd ==
  ASSUME pc' \in {"idle", "ready", "done"},
         excused' = excused \cap Uncategorized',
         Uncategorized' \subseteq excused
  PROVE  OrphansInv'
BY DEF OrphansInv

LEMMA OrphansKept ==
  ASSUME TypeOK, OrphansInv, Keeps, excused' = excused \cap Uncategorized'
  PROVE  OrphansInv'
<1> USE OrphansEnd, SameUncategorized
<1>0. RowsOK
  BY DEF TypeOK, RowsOK
<1>u. ASSUME Handle(update.kind), update.kind \notin {"add", "ch:rmyes", "tp:tog"}
      PROVE  Uncategorized \subseteq excused
  BY <1>u DEF Handle, OrphansInv, Resumes
<1>1. CASE Receive
  BY <1>1 DEF Receive, OrphansInv
<1>2. CASE Confirm
  BY <1>2 DEF Confirm, OrphansInv
<1>3. CASE Add
  <2>1. pc = "ready" /\ update.kind = "add" /\ UNCHANGED update
    BY <1>3 DEF Add, Handle
  <2>2. CASE Named(update.n) # {} /\ ~ QuotaReached(tracked, MaxChannels)
    <3>1. CreateSource(update.c) /\ pc' = "link"
      BY <1>3, <2>2 DEF Add, TrackChannel
    <3>2. Named(update.n)' # {}
      BY <2>1, <2>2, <3>1 DEF CreateSource, Named
    <3> QED BY <2>1, <3>1, <3>2, CreateUncategorized DEF OrphansInv
  <2>3. CASE ~ (Named(update.n) # {} /\ ~ QuotaReached(tracked, MaxChannels))
    BY <1>3, <2>1, <2>3 DEF Add, TrackChannel, Done, Draws, OrphansInv, Resumes
  <2> QED BY <2>2, <2>3
<1>4. CASE TextAdd
  <2>1. Uncategorized \subseteq excused /\ update.kind = "text" /\ UNCHANGED update
    BY <1>4, <1>u DEF TextAdd, Handle
  <2>2. CASE QuotaReached(tracked, MaxChannels)
    BY <1>4, <2>1, <2>2 DEF TextAdd, TrackChannel, Done, Draws
  <2>3. CASE ~ QuotaReached(tracked, MaxChannels)
    <3>1. CreateSource(update.c) /\ pc' = "link"
      BY <1>4, <2>3 DEF TextAdd, TrackChannel
    <3> QED BY <2>1, <3>1, CreateUncategorized DEF OrphansInv
  <2> QED BY <2>2, <2>3
<1>5. CASE Link /\ Linkable
  <2>1. PICK t \in target : AddSourceToTopic(t, update.c) /\ pc' = "done"
    BY <1>5 DEF Link, Draws
  <2>2. t \in Topic /\ Exists(t)
    BY <1>5, <2>1 DEF TypeOK, Linkable
  <2>3. Uncategorized' \subseteq Uncategorized \ {update.c}
    BY <2>1, <2>2, AddUncategorized
  <2> QED BY <1>5, <2>1, <2>3 DEF Link, OrphansInv
<1>6. CASE Remove
  <2>1. Uncategorized \subseteq excused
    BY <1>6, <1>u DEF Remove, Handle
  <2>2. Uncategorized' \subseteq Uncategorized
    BY <1>0, <1>6, DeleteUncategorized DEF Remove, Checked
  <2> QED BY <1>6, <2>1, <2>2 DEF Remove, Done, Draws
<1>7. CASE RemoveConfirmed
  <2>1. pc = "ready" /\ update.kind = "ch:rmyes" /\ UNCHANGED update
    BY <1>7 DEF RemoveConfirmed, Handle
  <2>2. /\ update.t \in Topic
        /\ Lives(update) <=> Exists(update.t) /\ update.c \in tracked
    BY <2>1 DEF TypeOK, Updates, Buttons, Messages, NoUpdate, Lives
  <2>3. CASE Lives(update)
    <3>1. RemoveChannelFromCategory(update.t, update.c)
      BY <1>7, <2>3 DEF RemoveConfirmed
    <3>2. Exists(update.t)' /\ update'.c \in tracked'
      BY <2>1, <2>2, <2>3, <3>1
      DEF RemoveChannelFromCategory, RemoveSourceFromTopic, Exists
    <3> QED BY <2>1, <2>2, <3>1, <3>2, RemoveUncategorized
            DEF RemoveChannelFromCategory, OrphansInv
  <2>4. CASE ~ Lives(update)
    BY <1>7, <2>1, <2>2, <2>4 DEF RemoveConfirmed, OrphansInv, Resumes
  <2> QED BY <2>3, <2>4
<1>8. CASE ToggleChannelInTopic
  <2>1. pc = "ready" /\ update.kind = "tp:tog" /\ UNCHANGED update
    BY <1>8 DEF ToggleChannelInTopic, Handle
  <2>2. update.t \in Topic
    BY <2>1, UpdateFields DEF TypeOK
  <2>3. CASE <<update.t, update.c>> \in links
    <3>1. RemoveChannelFromCategory(update.t, update.c)
      BY <1>8, <2>3 DEF ToggleChannelInTopic
    <3>2. Exists(update.t) /\ update.c \in tracked /\ Uncategorized \subseteq excused
      BY <2>1, <2>2, <2>3 DEF TypeOK, OrphansInv, Uncategorized
    <3>3. Exists(update.t)' /\ update'.c \in tracked'
      BY <2>1, <3>1, <3>2 DEF RemoveChannelFromCategory, RemoveSourceFromTopic, Exists
    <3> QED BY <2>1, <2>2, <3>1, <3>2, <3>3, RemoveUncategorized
            DEF RemoveChannelFromCategory, OrphansInv
  <2>4. CASE <<update.t, update.c>> \notin links
    <3>1. AddSourceToTopic(update.t, update.c) /\ pc' = "done"
      BY <1>8, <2>4 DEF ToggleChannelInTopic
    <3> QED BY <2>1, <2>2, <3>1, AddUncategorized DEF OrphansInv, Resumes
  <2> QED BY <2>3, <2>4
<1>9. CASE Untrack
  <2>1. Uncategorized' \subseteq Uncategorized \ {update.c}
    BY <1>0, <1>9, DeleteUncategorized DEF Untrack
  <2> QED BY <1>9, <2>1 DEF Untrack, Draws, OrphansInv
<1>10. CASE AddToTopic
  <2>1. Uncategorized \subseteq excused
    BY <1>10, <1>u DEF AddToTopic, Handle
  <2>2. Uncategorized' \subseteq Uncategorized
    BY <1>10, AddUncategorized DEF AddToTopic, Checked, Named
  <2> QED BY <1>10, <2>1, <2>2 DEF AddToTopic, Done, Draws
<1>11. CASE NewTopic \/ TextNewTopic
  <2>1. Uncategorized \subseteq excused
    BY <1>11, <1>u DEF NewTopic, TextNewTopic, Handle
  <2>2. UNCHANGED <<tracked, links>>
    BY <1>11 DEF NewTopic, TextNewTopic, MakeTopic, Checked
  <2> QED BY <1>11, <2>1, <2>2 DEF NewTopic, TextNewTopic, Done, Draws
<1>12. CASE RenameTopic \/ TextRenameTopic
  <2>1. Uncategorized \subseteq excused
    BY <1>12, <1>u DEF RenameTopic, TextRenameTopic, Handle
  <2>2. UNCHANGED <<tracked, links>>
    BY <1>12 DEF RenameTopic, TextRenameTopic, RenameTopicTo, Checked
  <2> QED BY <1>12, <2>1, <2>2 DEF RenameTopic, TextRenameTopic, Done, Draws
<1>13. CASE TextUnasked \/ AskForText \/ Browse \/ Cancel
  <2>1. Uncategorized \subseteq excused
    BY <1>13, <1>u DEF TextUnasked, AskForText, Ask, Browse, Browsing, Cancel, Leave, Handle
  <2>2. UNCHANGED <<tracked, links>> /\ pc' = "done"
    BY <1>13 DEF TextUnasked, AskForText, Ask, Browse, Cancel, Leave, Done, Draws
  <2> QED BY <2>1, <2>2
<1>14. CASE Crash /\ Repeatable
  <2>1. UNCHANGED <<topics, tracked, links, update>> /\ pc' = "ready" /\ pc # "idle"
    BY <1>14 DEF Crash
  <2>2. Resumes' <=> Resumes
    BY <2>1 DEF Resumes, Named, QuotaReached, Exists
  <2>3. CASE pc \in {"ready", "done"}
    BY <2>1, <2>2, <2>3 DEF OrphansInv
  <2>4. CASE pc \in {"link", "untrack"}
    BY <1>14, <2>1, <2>2, <2>4 DEF OrphansInv, Resumes, Repeatable
  <2> QED BY <2>1, <2>3, <2>4 DEF TypeOK
<1> QED BY <1>1, <1>2, <1>3, <1>4, <1>5, <1>6, <1>7, <1>8, <1>9, <1>10, <1>11, <1>12, <1>13, <1>14
        DEF Keeps

LEMMA OrphansInvariant == Spec => [](TypeOK /\ OrphansInv)
<1>1. Init => OrphansInv
  BY DEF Init, OrphansInv, Uncategorized
<1>2. TypeOK /\ OrphansInv /\ [Next]_vars => OrphansInv'
  <2> SUFFICES ASSUME TypeOK, OrphansInv, [Next]_vars PROVE OrphansInv'
    OBVIOUS
  <2>1. CASE Next
    BY <2>1, OrphansKept, OrphansLost DEF Next
  <2>2. CASE UNCHANGED vars
    BY <2>2 DEF vars, OrphansInv, Uncategorized, Resumes, Named, QuotaReached, Exists
  <2> QED BY <2>1, <2>2
<1> QED BY <1>1, <1>2, TypeCorrect, PTL DEF Spec

(***************************************************************************)
(* What "Loses" lists is all that leaves a channel in no category: when no  *)
(* update is handled, a channel without one has been left so by one of      *)
(* those steps and never been in one since.                                 *)
(***************************************************************************)
THEOREM OrphansAreExplained == Spec => []OrphansExplained
<1>1. OrphansInv => OrphansExplained
  BY DEF OrphansInv, OrphansExplained
<1> QED BY <1>1, OrphansInvariant, PTL

(***************************************************************************)
(* A step that deletes the row of a channel in a category is that of        *)
(* /remove: the other handlers delete only what no category has, also when  *)
(* they start again after a crash.                                          *)
(***************************************************************************)
THEOREM OrphansUntracked == Spec => OnlyOrphansUntracked
<1> DEFINE Only == \A c \in tracked \ tracked' :
                     update.kind = "remove" \/ \A t \in Topic : <<t, c>> \notin links
<1>1. TypeOK /\ OrphansInv /\ [Next]_vars => [Only]_vars
  <2> SUFFICES ASSUME OrphansInv, Next, ~ (tracked \subseteq tracked') PROVE Only
    BY DEF vars
  <2>1. CASE Untrack
    BY <2>1 DEF Untrack, DeleteSource, OrphansInv
  <2>2. CASE Remove
    BY <2>2 DEF Remove, Handle
  <2>3. CASE ~ Untrack /\ ~ Remove
    <3>1. tracked \subseteq tracked'
      BY <2>3
      DEF Next, Keeps, Loses, Receive, Confirm, Add, TextAdd, TrackChannel, CreateSource, Link,
          AddSourceToTopic, RemoveConfirmed, ToggleChannelInTopic, RemoveChannelFromCategory,
          RemoveSourceFromTopic, AddToTopic, RemoveFromTopic, NewTopic, TextNewTopic, MakeTopic,
          TextUnasked, RenameTopic, TextRenameTopic, RenameTopicTo, DelTopic, DeleteConfirmed,
          DeleteTopic, AskForText, Ask, Browse, Cancel, Leave, QueryFails, Crash, Checked
    <3> QED BY <3>1
  <2> QED BY <2>1, <2>2, <2>3
<1> QED BY <1>1, OrphansInvariant, PTL DEF Spec, OnlyOrphansUntracked

-----------------------------------------------------------------------------
(* Quotas *)

Existing == {t \in Topic : Exists(t)}

QuotasInv == IsFiniteSet(tracked) /\ IsFiniteSet(Existing) /\ QuotasRespected

\* Adding to a set below its quota keeps it within
LEMMA AddWithinQuota ==
  ASSUME NEW S, NEW x, NEW quota \in Nat, IsFiniteSet(S),
         Cardinality(S) <= quota, ~ QuotaReached(S, quota)
  PROVE  IsFiniteSet(S \cup {x}) /\ Cardinality(S \cup {x}) <= quota
<1>1. Cardinality(S) \in Nat
  BY FS_CardinalityType
<1>2. /\ IsFiniteSet(S \cup {x})
      /\ Cardinality(S \cup {x}) \in {Cardinality(S), Cardinality(S) + 1}
  BY FS_AddElement, <1>1
<1> QED BY <1>1, <1>2 DEF QuotaReached

\* A part of a set is within what the set is within
LEMMA PartWithinQuota ==
  ASSUME NEW S, NEW R \in SUBSET S, NEW quota \in Nat, IsFiniteSet(S), Cardinality(S) <= quota
  PROVE  IsFiniteSet(R) /\ Cardinality(R) <= quota
<1>1. IsFiniteSet(R) /\ Cardinality(R) <= Cardinality(S)
  BY FS_Subset
<1>2. Cardinality(R) \in Nat /\ Cardinality(S) \in Nat
  BY <1>1, FS_CardinalityType
<1> QED BY <1>1, <1>2

\* What a step does to the two sets: at most one grows, below its quota.
LEMMA QuotaStep ==
  ASSUME TypeOK, Next
  PROVE  /\ \/ tracked' \subseteq tracked
            \/ ~ QuotaReached(tracked, MaxChannels) /\ \E c \in Channel : tracked' = tracked \cup {c}
         /\ \/ Existing' \subseteq Existing
            \/ ~ QuotaReached(Existing, MaxTopics) /\ \E t \in Topic : Existing' = Existing \cup {t}
<1>1. ASSUME UNCHANGED topics PROVE Existing' = Existing
  BY <1>1 DEF Existing, Exists
<1>2. ASSUME NEW t \in Topic, DeleteTopic(t) PROVE Existing' \subseteq Existing
  BY <1>2 DEF DeleteTopic, Existing, Exists, TypeOK
<1>3. ASSUME NEW n \in Name, MakeTopic(n)
      PROVE  \/ Existing' \subseteq Existing
             \/ ~ QuotaReached(Existing, MaxTopics) /\ \E t \in Topic : Existing' = Existing \cup {t}
  <2>1. CASE UNCHANGED rows
    BY <1>1, <2>1
  <2>2. CASE ~ UNCHANGED rows
    <3>1. PICK t \in Topic : topics' = [topics EXCEPT ![t] = n]
      BY <1>3, <2>2 DEF MakeTopic, Checked
    <3>2. ~ QuotaReached(Existing, MaxTopics)
      BY <1>3, <2>2 DEF MakeTopic, Checked, MayMake, Existing
    <3>3. Existing' = Existing \cup {t}
      BY <3>1 DEF Existing, Exists, TypeOK
    <3> QED BY <3>2, <3>3
  <2> QED BY <2>1, <2>2
<1>4. ASSUME NEW t \in Topic, NEW n, RenameTopicTo(t, n) PROVE Existing' \subseteq Existing
  <2>1. CASE UNCHANGED rows
    BY <1>1, <2>1
  <2>2. CASE ~ UNCHANGED rows
    BY <1>4, <2>2 DEF RenameTopicTo, Checked, Existing, Exists, TypeOK
  <2> QED BY <2>1, <2>2
<1>5. ASSUME UNCHANGED tracked,
             NewTopic \/ TextNewTopic \/ RenameTopic \/ TextRenameTopic \/ DelTopic \/ DeleteConfirmed
      PROVE  \/ Existing' \subseteq Existing
             \/ ~ QuotaReached(Existing, MaxTopics) /\ \E t \in Topic : Existing' = Existing \cup {t}
  <2>1. update.kind \in {"newtopic", "text"} => update.n \in Name
    BY UpdateFields DEF TypeOK
  <2>2. pending.kind = "rename_topic" => pending.t \in Topic
    BY PendingFields DEF TypeOK
  <2>3. update.kind = "tp:delyes" => update.t \in Topic
    BY UpdateFields DEF TypeOK
  <2>4. CASE NewTopic \/ TextNewTopic
    BY <1>3, <2>1, <2>4 DEF NewTopic, TextNewTopic, Handle
  <2>5. CASE RenameTopic \/ TextRenameTopic
    BY <1>1, <1>4, <2>2, <2>5 DEF RenameTopic, TextRenameTopic, Checked, Named
  <2>6. CASE DelTopic \/ DeleteConfirmed
    BY <1>1, <1>2, <2>3, <2>6 DEF DelTopic, DeleteConfirmed, Handle, Checked, Named
  <2> QED BY <1>5, <2>4, <2>5, <2>6
<1>6. CASE NewTopic \/ TextNewTopic \/ RenameTopic \/ TextRenameTopic \/ DelTopic \/ DeleteConfirmed
  <2>1. UNCHANGED tracked
    BY <1>6
    DEF NewTopic, TextNewTopic, MakeTopic, RenameTopic, TextRenameTopic, RenameTopicTo, DelTopic,
        DeleteConfirmed, DeleteTopic, Checked
  <2> QED BY <1>5, <1>6, <2>1
<1>7. CASE Add \/ TextAdd
  <2>1. UNCHANGED topics
    BY <1>7 DEF Add, TextAdd, TrackChannel, CreateSource
  <2>2. update.c \in Channel
    BY <1>7, UpdateFields DEF Add, TextAdd, Handle, TypeOK
  <2> QED BY <1>1, <1>7, <2>1, <2>2 DEF Add, TextAdd, TrackChannel, CreateSource
<1>8. CASE ~ (NewTopic \/ TextNewTopic \/ RenameTopic \/ TextRenameTopic \/ DelTopic
               \/ DeleteConfirmed \/ Add \/ TextAdd)
  <2>1. UNCHANGED topics /\ tracked' \subseteq tracked
    BY <1>8
    DEF Next, Keeps, Loses, Receive, Confirm, Link, AddSourceToTopic, Remove, DeleteSource, Untrack,
        RemoveConfirmed, ToggleChannelInTopic, RemoveChannelFromCategory, RemoveSourceFromTopic,
        AddToTopic, RemoveFromTopic, TextUnasked, AskForText, Ask, Browse, Cancel, Leave,
        QueryFails, Crash, Checked
  <2> QED BY <1>1, <2>1
<1> QED BY <1>6, <1>7, <1>8

(***************************************************************************)
(* There are never more channels nor more categories than the quotas allow. *)
(***************************************************************************)
THEOREM QuotasHold == Spec => []QuotasRespected
<1>1. Init => QuotasInv
  <2> SUFFICES ASSUME Init PROVE QuotasInv
    OBVIOUS
  <2>1. tracked = {} /\ Existing = {}
    BY DEF Init, Existing, Exists
  <2>2. Cardinality({}) = 0 /\ IsFiniteSet({})
    BY FS_EmptySet
  <2> QED BY <2>1, <2>2 DEF QuotasInv, QuotasRespected, Existing
<1>2. TypeOK /\ QuotasInv /\ [Next]_vars => QuotasInv'
  <2> SUFFICES ASSUME TypeOK, QuotasInv, Next PROVE QuotasInv'
    BY DEF vars, QuotasInv, QuotasRespected, Existing, Exists
  <2>1. IsFiniteSet(tracked') /\ Cardinality(tracked') <= MaxChannels
    BY QuotaStep, AddWithinQuota, PartWithinQuota DEF QuotasInv, QuotasRespected
  <2>2. IsFiniteSet(Existing) /\ Cardinality(Existing) <= MaxTopics
    BY DEF QuotasInv, QuotasRespected, Existing
  <2>3. IsFiniteSet(Existing') /\ Cardinality(Existing') <= MaxTopics
    BY <2>2, QuotaStep, AddWithinQuota, PartWithinQuota
  <2> QED BY <2>1, <2>3 DEF QuotasInv, QuotasRespected, Existing
<1>3. QuotasInv => QuotasRespected
  BY DEF QuotasInv
<1> QED BY <1>1, <1>2, <1>3, TypeCorrect, PTL DEF Spec

-----------------------------------------------------------------------------
(* Screens *)

\* The buttons that are about a category, and about a channel
OfTopic == {"tp:view", "tp:addch", "tp:manage", "tp:rename", "tp:del", "tp:delyes",
            "ch:view", "ch:rm", "ch:rmyes", "tp:tog"}

OfChannel == {"ch:view", "ch:rm", "ch:rmyes", "tp:tog"}

LEMMA ButtonFields ==
  ASSUME NEW v \in Buttons \cup {NoView}
  PROVE  /\ "t" \in DOMAIN v <=> v.kind \in OfTopic
         /\ "c" \in DOMAIN v <=> v.kind \in OfChannel
         /\ v.kind \in OfTopic => v.t \in Topic
         /\ v.kind \in OfChannel => v.c \in Channel
BY DEF Buttons, NoView, NoUpdate, OfTopic, OfChannel

\* A screen about rows that are there has no dead button.
LEMMA ButtonsLive ==
  ASSUME TypeOK, NEW v \in Buttons \cup {NoView}, Lives(v), NEW b \in ButtonsOf(v)
  PROVE  b \in Buttons /\ Lives(b)
<1> USE ButtonFields DEF OfTopic, OfChannel
<1>t. v.kind \in OfTopic => v.t \in Topic /\ Exists(v.t)
  BY DEF Lives
<1>c. v.kind \in OfChannel => v.c \in Channel /\ v.c \in tracked
  BY DEF Lives
<1>1. CASE v.kind = "tp:list"
  <2>1. \/ b = [kind |-> "tp:new"]
        \/ \E t \in Topic : Exists(t) /\ b = TopicView(t)
    BY <1>1 DEF ButtonsOf
  <2> QED BY <2>1 DEF TopicView, Buttons, Lives
<1>2. CASE v.kind = "tp:view"
  <2>1. \/ b = TopicsView
        \/ b \in [kind : {"tp:addch", "tp:manage", "tp:rename", "tp:del"}, t : {v.t}]
        \/ \E l \in links : l[1] = v.t /\ b = [kind |-> "ch:view", c |-> l[2], t |-> v.t]
    BY <1>2 DEF ButtonsOf
  <2> QED BY <1>2, <1>t, <2>1 DEF TopicsView, Buttons, Lives, TypeOK
<1>3. CASE v.kind = "tp:manage"
  <2>1. \/ b = TopicView(v.t)
        \/ b \in [kind : {"tp:tog"}, c : tracked, t : {v.t}]
    BY <1>3 DEF ButtonsOf
  <2> QED BY <1>3, <1>t, <2>1 DEF TopicView, Buttons, Lives, TypeOK
<1>4. CASE v.kind = "tp:del"
  <2>1. b = TopicView(v.t) \/ b = [v EXCEPT !.kind = "tp:delyes"]
    BY <1>4 DEF ButtonsOf
  <2>2. v = [kind |-> "tp:del", t |-> v.t]
    BY <1>4 DEF Buttons, NoView, NoUpdate
  <2> QED BY <1>4, <1>t, <2>1, <2>2 DEF TopicView, Buttons, Lives
<1>5. CASE v.kind \in {"ch:view", "ch:rm"}
  <2>1. \/ b = TopicView(v.t)
        \/ \E k \in {"ch:view", "ch:rm", "ch:rmyes"} : b = [v EXCEPT !.kind = k]
    BY <1>5 DEF ButtonsOf
  <2>2. v = [kind |-> v.kind, c |-> v.c, t |-> v.t]
    BY <1>5 DEF Buttons, NoView, NoUpdate
  <2> QED BY <1>5, <1>t, <1>c, <2>1, <2>2 DEF TopicView, Buttons, Lives
<1>6. CASE v.kind \in {"acct:home", "acct:status", "acct:api", "more:home", "nav:menu"}
  <2>1. b \in [kind : {"acct:status", "acct:logout", "acct:api", "nav:menu", "tp:list",
                       "acct:home", "more:home"}]
    BY <1>6 DEF ButtonsOf, TopicsView, AccountView
  <2> QED BY <2>1 DEF Buttons, Lives
<1> QED BY <1>1, <1>2, <1>3, <1>4, <1>5, <1>6 DEF ButtonsOf, Buttons, NoView, NoUpdate

ScreenInv ==
  /\ pc = "done" => RenamedNone \/ Lives(screen)
  /\ pc = "untrack" => Lives(screen) /\ "c" \notin DOMAIN screen

\* A handler that ends with words only, with a screen about no row, or with
\* one about a category that is there
LEMMA ScreenDrawn ==
  ASSUME \/ screen' \in {NoView, TopicsView, AccountView}
         \/ \E t \in Topic : Exists(t)' /\ screen' \in {TopicView(t), ManageView(t)}
  PROVE  Lives(screen)' /\ "c" \notin DOMAIN screen'
BY DEF NoView, NoUpdate, TopicsView, AccountView, TopicView, ManageView, Lives

LEMMA ScreenStep ==
  ASSUME TypeOK, ScreenInv, Next
  PROVE  ScreenInv'
<1> USE ScreenDrawn
<1>1. CASE Receive \/ Confirm \/ Crash
  BY <1>1 DEF Receive, Confirm, Crash, ScreenInv
<1>2. CASE QueryFails
  BY <1>2 DEF QueryFails, ScreenInv
<1>3. CASE Add \/ TextAdd
  <2>1. pc' = "link" \/ (pc' = "done" /\ screen' = NoView)
    BY <1>3 DEF Add, TextAdd, TrackChannel, Done, Draws
  <2> QED BY <2>1 DEF ScreenInv
<1>4. CASE Link
  <2>1. PICK t \in target :
          /\ AddSourceToTopic(t, update.c)
          /\ Draws(IF update.kind = "add" THEN NoView
                   ELSE IF Exists(t) THEN TopicView(t) ELSE TopicsView)
    BY <1>4 DEF Link
  <2>2. t \in Topic /\ (Exists(t) => Exists(t)')
    BY <2>1 DEF TypeOK, AddSourceToTopic, Exists
  <2> QED BY <2>1, <2>2 DEF Draws, ScreenInv
<1>5. CASE Remove \/ AddToTopic \/ RemoveFromTopic \/ NewTopic \/ RenameTopic \/ DelTopic \/ TextUnasked
  <2>1. pc' = "done" /\ screen' = NoView
    BY <1>5
    DEF Remove, AddToTopic, RemoveFromTopic, NewTopic, RenameTopic, DelTopic, TextUnasked, Done, Draws
  <2> QED BY <2>1 DEF ScreenInv
<1>6. CASE RemoveConfirmed
  <2>1. update.t \in Topic /\ screen' = AfterRemoval(update.t)
    BY <1>6, UpdateFields DEF RemoveConfirmed, Handle, TypeOK
  <2>2. Exists(update.t) => Exists(update.t)'
    BY <1>6
    DEF RemoveConfirmed, RemoveChannelFromCategory, RemoveSourceFromTopic, Handle, Exists
  <2>3. Lives(screen)' /\ "c" \notin DOMAIN screen'
    BY <1>6, <2>1, <2>2 DEF AfterRemoval, RemoveConfirmed, Handle
  <2> QED BY <2>3 DEF ScreenInv
<1>7. CASE ToggleChannelInTopic
  <2>1. update.t \in Topic /\ screen' \in {ManageView(update.t), NoView}
    BY <1>7, UpdateFields DEF ToggleChannelInTopic, Handle, TypeOK
  <2>2. Lives(update) => Exists(update.t)
    BY <1>7 DEF ToggleChannelInTopic, Handle, Lives, TypeOK, Updates, Buttons, Messages, NoUpdate
  <2>3. Exists(update.t) => Exists(update.t)'
    BY <1>7
    DEF ToggleChannelInTopic, RemoveChannelFromCategory, RemoveSourceFromTopic, AddSourceToTopic,
        Handle, Exists
  <2>4. Lives(screen)' /\ "c" \notin DOMAIN screen'
    <3>1. CASE Lives(update)
      <4>1. screen' = ManageView(update.t) /\ UNCHANGED update
        BY <1>7, <3>1 DEF ToggleChannelInTopic, Handle
      <4> QED BY <2>1, <2>2, <2>3, <3>1, <4>1
    <3>2. CASE ~ Lives(update)
      BY <1>7, <3>2 DEF ToggleChannelInTopic
    <3> QED BY <3>1, <3>2
  <2> QED BY <2>4 DEF ScreenInv
<1>8. CASE Untrack
  <2>1. Lives(screen) /\ "c" \notin DOMAIN screen /\ UNCHANGED <<topics, screen>>
    BY <1>8 DEF Untrack, Draws, DeleteSource, ScreenInv
  <2>2. Lives(screen)'
    BY <2>1 DEF Lives, Exists
  <2> QED BY <1>8, <2>2 DEF Untrack, Draws, ScreenInv
<1>9. CASE TextNewTopic \/ DeleteConfirmed \/ AskForText \/ Cancel
  <2>1. pc' = "done" /\ screen' \in {NoView, TopicsView, AccountView}
    BY <1>9 DEF TextNewTopic, DeleteConfirmed, AskForText, Ask, Cancel, Leave, Done, Draws
  <2> QED BY <2>1 DEF ScreenInv
<1>10. CASE TextRenameTopic
  <2>1. PICK t \in Topic : /\ pc' = "done"
                           /\ update'.kind = "text"
                           /\ screen' \in {TopicView(t), NoView}
    BY <1>10, PendingFields DEF TextRenameTopic, Handle, Draws, TypeOK
  <2>2. CASE screen' = NoView \/ Exists(t)'
    BY <2>1, <2>2 DEF ScreenInv
  <2>3. CASE screen' = TopicView(t) /\ ~ Exists(t)'
    <3>1. screen'.kind = "tp:view" /\ screen'.t = t
      BY <2>3 DEF TopicView
    <3> QED BY <2>1, <2>3, <3>1 DEF ScreenInv, RenamedNone, Exists
  <2> QED BY <2>1, <2>2, <2>3
<1>11. CASE Browse
  <2>1. pc' = "done" /\ UNCHANGED <<topics, tracked>>
    BY <1>11 DEF Browse, Draws
  <2>2. CASE ~ Lives(update) \/ update.kind = "acct:logout"
    BY <1>11, <2>1, <2>2 DEF Browse, Draws, ScreenInv
  <2>3. CASE Lives(update) /\ update.kind # "acct:logout"
    <3>1. screen' = update
      BY <1>11, <2>3 DEF Browse, Draws
    <3>2. Lives(screen)'
      BY <2>1, <2>3, <3>1 DEF Lives, Exists
    <3> QED BY <2>1, <3>2 DEF ScreenInv
  <2> QED BY <2>2, <2>3
<1> QED BY <1>1, <1>2, <1>3, <1>4, <1>5, <1>6, <1>7, <1>8, <1>9, <1>10, <1>11 DEF Next, Keeps, Loses

(***************************************************************************)
(* A screen that was just drawn has no dead button, whichever screen the    *)
(* pressed button was on and whatever its handler deleted; a category that  *)
(* was deleted while its new name was awaited is the exception.             *)
(***************************************************************************)
THEOREM ScreensAreLive == Spec => []ScreensLive
<1>1. Init => ScreenInv
  BY DEF Init, ScreenInv
<1>2. TypeOK /\ ScreenInv /\ [Next]_vars => ScreenInv'
  <2>1. ASSUME ScreenInv, UNCHANGED vars PROVE ScreenInv'
    BY <2>1 DEF vars, ScreenInv, RenamedNone, Lives, Exists
  <2> QED BY <2>1, ScreenStep
<1>3. TypeOK /\ ScreenInv => ScreensLive
  <2> SUFFICES ASSUME TypeOK, ScreenInv, pc = "done", ~ RenamedNone, NEW b \in ButtonsOf(screen)
               PROVE  b \in Buttons /\ Lives(b)
    BY DEF ScreensLive
  <2> QED BY ButtonsLive DEF TypeOK, ScreenInv
<1> QED BY <1>1, <1>2, <1>3, TypeCorrect, PTL DEF Spec
=============================================================================
