---------------------------- MODULE Subscription ----------------------------
(***************************************************************************)
(* What the API promises to a client that pulls the messages of a category, *)
(* with no number, no page, no transaction and no worker in it: a message   *)
(* that is published in the category is due; what is due stays so until it  *)
(* is delivered, expires or leaves the category with its channel; and what  *)
(* has been delivered is never due again.  What a channel that joins the    *)
(* category has published before may be due or not.                         *)
(*                                                                          *)
(* The promise is off once the publishers have disturbed each other.        *)
(*                                                                          *)
(* Reading, which is translated from the code, implements this module.      *)
(***************************************************************************)
CONSTANTS Message, Source, SourceOf

VARIABLES
  category,    \* the channels that are asked for
  visible,     \* the messages of these channels
  due,         \* those that are to be delivered
  delivered,
  disturbed    \* the promise is off

vars == <<category, visible, due, delivered, disturbed>>

Init ==
  /\ category = Source
  /\ visible = {}
  /\ due = {}
  /\ delivered = {}
  /\ disturbed = FALSE

Publish ==
  /\ visible \subseteq visible'
  /\ (visible' \ visible) \cap delivered = {}
  /\ due' = due \cup (visible' \ visible)
  /\ UNCHANGED <<category, delivered>>

Expire ==
  /\ visible' \subseteq visible
  /\ due' = due \cap visible'
  /\ UNCHANGED <<category, delivered>>

Deliver ==
  /\ due' \subseteq due
  /\ delivered' = delivered \cup (due \ due')
  /\ UNCHANGED <<category, visible>>

\* The channels that stay keep what they have.
Select ==
  /\ \A m \in visible \cup visible' :
       SourceOf[m] \in category \cap category' =>
         /\ m \in visible <=> m \in visible'
         /\ m \in due <=> m \in due'
  /\ due' \subseteq visible' \ delivered
  /\ UNCHANGED delivered

Step ==
  /\ Publish \/ Expire \/ Deliver \/ Select
  /\ visible' \subseteq {m \in Message : SourceOf[m] \in category'}
  /\ UNCHANGED disturbed

Next == Step \/ disturbed'

Spec == Init /\ [][Next]_vars

(***************************************************************************)
(* What a client gains by this: a message is delivered once, as what has    *)
(* been delivered is not due; and what was due and is no longer has been    *)
(* delivered, or is not among the messages of the category any more.        *)
(***************************************************************************)
Once == disturbed \/ due \cap delivered = {}

NoneDropped ==
  [][disturbed' \/ \A m \in due : m \in due' \/ m \in delivered' \/ m \notin visible']_vars
=============================================================================
