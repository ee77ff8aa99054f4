------------------------------ MODULE Channels ------------------------------
(***************************************************************************)
(* The state that the promise of the ingestion pipeline (MessageLog) and    *)
(* its implementation (Ingestion) are both about: what Telegram holds, the  *)
(* rows of the tables "sources" and "messages", and the retention window.   *)
(*                                                                          *)
(* A channel's history is append-only and a message id is the position in   *)
(* it.  Days are natural numbers; the wall clock is Now.  All sources       *)
(* belong to one user: nothing in the pipeline relates two users.           *)
(***************************************************************************)
EXTENDS Integers, Sequences

CONSTANTS
  Channel,      \* the Telegram channels
  Retention,    \* RETENTION_DAYS
  MaxSources,   \* bound: how many source rows are ever created
  InitHistory   \* the channels' content when the system starts

(***************************************************************************)
(* A history entry is a post, a message the user sent (kept out of the      *)
(* store), or a service message such as "X joined the group".               *)
(***************************************************************************)
Kinds == {"post", "out", "service"}

Entry == [date : Nat, kind : Kinds]

ASSUME RetentionAssumption == Retention \in Nat
ASSUME MaxSourcesAssumption == MaxSources \in Nat

\* Histories are in order of date, and nothing is dated in the future.
ASSUME InitHistoryAssumption ==
  /\ InitHistory \in [Channel -> Seq(Entry)]
  /\ \A c \in Channel : \A i \in DOMAIN InitHistory[c] :
       /\ InitHistory[c][i].date <= Retention
       /\ \A j \in 1..i : InitHistory[c][j].date <= InitHistory[c][i].date

VARIABLES
  history,      \* [Channel -> Seq(Entry)]
  horizon,      \* the day RETENTION_DAYS before now
  channelOf,    \* the channel of every source row ever created, oldest first
  tracked,      \* the source rows that still exist
  cursor,       \* sources.cursor_message_id
  stored        \* the rows of "messages", as <<source, message id>>

logVars == <<history, horizon, channelOf, tracked, cursor, stored>>

\* Source rows in the order of added_at.  A row id is never used twice.
Source == 1..MaxSources

MessageId == Nat \ {0}

\* cursor_message_id IS NULL
NoCursor == -1

Now == horizon + Retention

History(s) == history[channelOf[s]]

\* A post that a client of the API may still ask for.
Live(e) == e.kind = "post" /\ e.date > horizon

\* Every live post of s up to message id n is in the store.
Covered(s, n) ==
  \A i \in DOMAIN History(s) :
     i <= n /\ Live(History(s)[i]) => <<s, i>> \in stored

LogInit ==
  /\ history = InitHistory
  /\ horizon = 0
  /\ channelOf = << >>
  /\ tracked = {}
  /\ cursor = [s \in Source |-> NoCursor]
  /\ stored = {}
=============================================================================
