----------------------------- MODULE MessageLog -----------------------------
(***************************************************************************)
(* What the ingestion pipeline promises, with no worker, no page, no        *)
(* schedule and no failure in it.                                           *)
(*                                                                          *)
(* The posts of a source are delivered to the store in the order of the     *)
(* channel; the cursor of a source only moves forward, and only past posts  *)
(* that have been delivered or have left the retention window; and a row is *)
(* only removed when it has left the retention window.                      *)
(*                                                                          *)
(* Ingestion, which is translated from the code, implements this module.    *)
(***************************************************************************)
EXTENDS Channels

Publish(c, k) ==
  /\ history' = [history EXCEPT ![c] = Append(@, [date |-> Now, kind |-> k])]
  /\ UNCHANGED <<horizon, channelOf, tracked, cursor, stored>>

AdvanceHorizon ==
  /\ horizon' = horizon + 1
  /\ UNCHANGED <<history, channelOf, tracked, cursor, stored>>

\* A user tracks a channel at most once.
Track(c) ==
  /\ Len(channelOf) < MaxSources
  /\ \A s \in tracked : channelOf[s] # c
  /\ channelOf' = Append(channelOf, c)
  /\ tracked' = tracked \cup {Len(channelOf) + 1}
  /\ UNCHANGED <<history, horizon, cursor, stored>>

\* The row goes, and its cursor with it; the messages stay.
Untrack(s) ==
  /\ tracked' = tracked \ {s}
  /\ cursor' = [cursor EXCEPT ![s] = NoCursor]
  /\ UNCHANGED <<history, horizon, channelOf, stored>>

\* Posts of s are stored, none of them ahead of a live post of the channel.
Deliver(s, posts) ==
  /\ \A i \in posts : History(s)[i].kind = "post"
  /\ stored' = stored \cup ({s} \X posts)
  /\ \A i \in posts : \A j \in DOMAIN History(s) :
        j < i /\ Live(History(s)[j]) => <<s, j>> \in stored'
  /\ UNCHANGED <<history, horizon, channelOf, tracked, cursor>>

\* The cursor of s moves forward, over delivered and expired posts only.
Acknowledge(s, n) ==
  /\ s \in tracked
  /\ n > cursor[s]
  /\ Covered(s, n)
  /\ cursor' = [cursor EXCEPT ![s] = n]
  /\ UNCHANGED <<history, horizon, channelOf, tracked, stored>>

\* Rows leave the store only after they have left the retention window.
Expire(gone) ==
  /\ \A m \in gone : ~ Live(History(m[1])[m[2]])
  /\ stored' = stored \ gone
  /\ UNCHANGED <<history, horizon, channelOf, tracked, cursor>>

Next ==
  \/ \E c \in Channel, k \in Kinds : Publish(c, k)
  \/ AdvanceHorizon
  \/ \E c \in Channel : Track(c)
  \/ \E s \in tracked : Untrack(s)
  \/ \E s \in DOMAIN channelOf : \E posts \in SUBSET DOMAIN History(s) : Deliver(s, posts)
  \/ \E s \in tracked : \E n \in DOMAIN History(s) : Acknowledge(s, n)
  \/ \E gone \in SUBSET stored : Expire(gone)

Spec == LogInit /\ [][Next]_logVars

(***************************************************************************)
(* What a reader of the store gains by this: no live post is missing below  *)
(* a cursor, or below another post that is stored.                          *)
(***************************************************************************)
Complete ==
  /\ \A s \in tracked : Covered(s, cursor[s])
  /\ \A m \in stored : Covered(m[1], m[2])
=============================================================================
