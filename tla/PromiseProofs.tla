---------------------------- MODULE PromiseProofs ----------------------------
(***************************************************************************)
(* What the abstract specifications MessageLog, SessionLock and             *)
(* Subscription guarantee, proved of them alone.  Ingestion, Leases and     *)
(* Reading implement them, so that these results are theirs as well; their  *)
(* proofs show that the three say what a user or a client needs.            *)
(***************************************************************************)
EXTENDS MessageLog, TLAPS

CONSTANTS User, Worker
VARIABLE holders

Lock == INSTANCE SessionLock

CONSTANTS Message, Topic, TopicOf
VARIABLES category, visible, due, delivered, disturbed

Sub == INSTANCE Subscription WITH Source <- Topic, SourceOf <- TopicOf

-----------------------------------------------------------------------------
(* MessageLog *)

\* The rows are of channels, and what they refer to is in their history.
LogType ==
  /\ history \in [Channel -> Seq(Entry)]
  /\ horizon \in Nat
  /\ channelOf \in Seq(Channel)
  /\ tracked \subseteq DOMAIN channelOf
  /\ cursor \in [Source -> Int]
  /\ \A s \in Source : s \notin tracked => cursor[s] = NoCursor
  /\ Len(channelOf) <= MaxSources
  /\ \A s \in tracked : cursor[s] <= Len(History(s))
  /\ \A m \in stored : /\ m = <<m[1], m[2]>>
                       /\ m[1] \in DOMAIN channelOf
                       /\ m[2] \in DOMAIN History(m[1])

LogInv == LogType /\ Complete

\* What no step does to the channel of a row: it is never rewritten, nothing
\* comes back to life, and no live post leaves the store.
Kept ==
  /\ \A s \in DOMAIN channelOf :
       /\ s \in DOMAIN channelOf'
       /\ Len(History(s)) <= Len(History(s)')
       /\ \A i \in DOMAIN History(s) : /\ i \in DOMAIN History(s)'
                                       /\ History(s)'[i] = History(s)[i]
  /\ \A e \in Entry : Live(e)' => Live(e)
  /\ \A m \in stored : m \in stored' \/ ~ Live(History(m[1])[m[2]])'

\* The channel of a row has a history of entries.
LEMMA HistoryOf ==
  ASSUME LogType, NEW s \in DOMAIN channelOf
  PROVE  channelOf[s] \in Channel /\ History(s) \in Seq(Entry)
BY DEF LogType, History

LEMMA RowIsSource ==
  ASSUME LogType, NEW s \in DOMAIN channelOf
  PROVE  s \in Source
BY MaxSourcesAssumption DEF LogType, Source

\* What is covered stays covered.
LEMMA StaysCovered ==
  ASSUME LogType, Kept, NEW s \in DOMAIN channelOf, NEW n \in Int,
         n <= Len(History(s)), Covered(s, n), History(s)' \in Seq(Entry)
  PROVE  Covered(s, n)'
<1> SUFFICES ASSUME NEW i \in DOMAIN History(s)', i <= n, Live(History(s)[i])'
             PROVE  <<s, i>> \in stored'
  BY DEF Covered
<1>1. History(s) \in Seq(Entry)
  BY HistoryOf
<1>2. i \in DOMAIN History(s)
  BY <1>1
<1>3. History(s)'[i] = History(s)[i] /\ History(s)[i] \in Entry
  BY <1>1, <1>2 DEF Kept
<1>4. Live(History(s)[i])
  BY <1>3 DEF Kept, Live
<1>5. <<s, i>> \in stored
  BY <1>2, <1>4 DEF Covered
<1>6. <<s, i>> \in stored' \/ ~ Live(History(<<s, i>>[1])[<<s, i>>[2]])'
  BY <1>5 DEF Kept
<1> QED BY <1>6

\* What has not come by the step stays complete.
LEMMA CompleteKept ==
  ASSUME LogInv, LogType', Kept,
         \A s \in tracked' : (s \in tracked /\ cursor'[s] = cursor[s]) \/ Covered(s, cursor[s])',
         \A m \in stored' : m \in stored \/ Covered(m[1], m[2])'
  PROVE  Complete'
<1>1. ASSUME NEW s \in DOMAIN channelOf, NEW n \in Int, n <= Len(History(s)), Covered(s, n)
      PROVE  Covered(s, n)'
  <2>1. s \in DOMAIN channelOf' /\ History(s)' \in Seq(Entry)
    BY HistoryOf DEF Kept, LogType, History
  <2> QED BY <1>1, <2>1, StaysCovered DEF LogInv
<1>2. ASSUME NEW s \in tracked', s \in tracked, cursor'[s] = cursor[s]
      PROVE  Covered(s, cursor[s])'
  <2>1. s \in DOMAIN channelOf /\ cursor[s] <= Len(History(s)) /\ Covered(s, cursor[s])
    BY <1>2 DEF LogInv, LogType, Complete
  <2>2. s \in Source
    BY <2>1, RowIsSource DEF LogInv
  <2>3. cursor[s] \in Int
    BY <2>2 DEF LogInv, LogType
  <2>4. \A n \in Int : n = cursor[s] => Covered(s, n)'
    BY <1>1, <2>1
  <2> QED BY <1>2, <2>3, <2>4 DEF Covered
<1>3. ASSUME NEW m \in stored', m \in stored PROVE Covered(m[1], m[2])'
  <2>1. /\ m[1] \in DOMAIN channelOf /\ m[2] \in DOMAIN History(m[1]) /\ Covered(m[1], m[2])
    BY <1>3 DEF LogInv, LogType, Complete
  <2>2. m[2] \in Int /\ m[2] <= Len(History(m[1]))
    BY <2>1, HistoryOf DEF LogInv
  <2> QED BY <1>1, <2>1, <2>2
<1> QED BY <1>2, <1>3 DEF Complete

\* A step that leaves the rows alone, and the clock.
LEMMA AppendKeeps ==
  ASSUME LogInv, NEW c \in Channel, NEW k \in Kinds, Publish(c, k)
  PROVE  LogInv'
<1> DEFINE e == [date |-> Now, kind |-> k]
<1>0. LogType /\ Complete
  BY DEF LogInv
<1>1. e \in Entry
  BY <1>0, RetentionAssumption DEF LogType, Entry, Now
<1>2. /\ history' = [history EXCEPT ![c] = Append(@, e)]
      /\ UNCHANGED <<horizon, channelOf, tracked, cursor, stored>>
  BY DEF Publish
<1>3. history' \in [Channel -> Seq(Entry)]
  BY <1>0, <1>1, <1>2 DEF LogType
<1>4. ASSUME NEW s \in DOMAIN channelOf
      PROVE  /\ Len(History(s)) <= Len(History(s)')
             /\ \A i \in DOMAIN History(s) : i \in DOMAIN History(s)' /\ History(s)'[i] = History(s)[i]
  <2>1. channelOf[s] \in Channel /\ History(s) \in Seq(Entry)
    BY <1>0, HistoryOf
  <2>2. History(s)' = History(s) \/ History(s)' = Append(History(s), e)
    BY <1>0, <1>2, <2>1 DEF LogType, History
  <2> QED BY <1>1, <2>1, <2>2
<1>5. Kept
  BY <1>2, <1>4 DEF Kept, Live
<1>6. ASSUME NEW s \in tracked PROVE cursor[s] <= Len(History(s)')
  <2>1. s \in DOMAIN channelOf /\ s \in Source
    BY <1>0, RowIsSource DEF LogType
  <2>2. History(s) \in Seq(Entry) /\ History(s)' \in Seq(Entry)
    BY <1>0, <1>2, <1>3, <2>1, HistoryOf DEF History
  <2>3. cursor[s] \in Int /\ cursor[s] <= Len(History(s)) /\ Len(History(s)) <= Len(History(s)')
    BY <1>0, <1>4, <2>1 DEF LogType
  <2> QED BY <2>2, <2>3
<1>7. LogType'
  BY <1>0, <1>2, <1>3, <1>4, <1>6 DEF LogType
<1> QED BY <1>0, <1>2, <1>5, <1>7, CompleteKept DEF LogInv

LEMMA HorizonKeeps ==
  ASSUME LogInv, AdvanceHorizon
  PROVE  LogInv'
<1>1. /\ horizon' = horizon + 1 /\ horizon \in Nat
      /\ UNCHANGED <<history, channelOf, tracked, cursor, stored>>
  BY DEF LogInv, LogType, AdvanceHorizon
<1>2. \A s : History(s)' = History(s)
  BY <1>1 DEF History
<1>3. \A e \in Entry : Live(e)' => Live(e)
  BY <1>1 DEF Live, Entry
<1>4. Kept
  <2>1. ASSUME NEW s \in DOMAIN channelOf PROVE Len(History(s)) <= Len(History(s)')
    BY <1>2, HistoryOf DEF LogInv
  <2> QED BY <1>1, <1>2, <1>3, <2>1 DEF Kept
<1>5. LogType'
  BY <1>1, <1>2 DEF LogInv, LogType
<1> QED BY <1>1, <1>4, <1>5, CompleteKept DEF LogInv

LEMMA TrackKeeps ==
  ASSUME LogInv, NEW c \in Channel, Track(c)
  PROVE  LogInv'
<1>0. LogType /\ Complete /\ Len(channelOf) \in Nat
  BY DEF LogInv, LogType
<1>n. PICK new \in Nat : new = Len(channelOf) + 1
  BY <1>0
<1>1. /\ channelOf' = Append(channelOf, c) /\ tracked' = tracked \cup {new}
      /\ Len(channelOf) < MaxSources
      /\ UNCHANGED <<history, horizon, cursor, stored>>
  BY <1>n DEF Track
<1>2. /\ channelOf' \in Seq(Channel) /\ DOMAIN channelOf' = 1..new /\ new \in Source
      /\ DOMAIN channelOf = 1..Len(channelOf) /\ Len(channelOf) \in Nat /\ Len(channelOf') = new
      /\ \A s \in DOMAIN channelOf : s \in DOMAIN channelOf' /\ channelOf'[s] = channelOf[s]
  BY <1>0, <1>1, <1>n, MaxSourcesAssumption DEF LogType, Source
<1>3. \A s \in DOMAIN channelOf : History(s)' = History(s)
  BY <1>1, <1>2 DEF History
<1>4. History(new)' \in Seq(Entry)
  BY <1>0, <1>1, <1>2, <1>n DEF LogType, History
<1>5. new \notin tracked /\ cursor[new] = NoCursor
  BY <1>0, <1>2, <1>n DEF LogType
<1>6. Kept
  <2>1. ASSUME NEW s \in DOMAIN channelOf PROVE Len(History(s)) <= Len(History(s)')
    BY <1>0, <1>3, HistoryOf
  <2>2. ASSUME NEW m \in stored PROVE m \in stored'
    BY <1>1
  <2>3. \A e \in Entry : Live(e)' => Live(e)
    BY <1>1 DEF Live
  <2> QED BY <1>2, <1>3, <2>1, <2>2, <2>3 DEF Kept
<1>7. LogType'
  <2>1. \A s \in tracked' : cursor'[s] <= Len(History(s))'
    <3>1. ASSUME NEW s \in tracked PROVE cursor[s] <= Len(History(s)')
      BY <1>0, <1>3 DEF LogType
    <3>2. cursor[new] <= Len(History(new)')
      BY <1>4, <1>5 DEF NoCursor
    <3> QED BY <1>1, <3>1, <3>2
  <2>2. \A m \in stored' : /\ m = <<m[1], m[2]>>
                           /\ m[1] \in DOMAIN channelOf'
                           /\ m[2] \in DOMAIN History(m[1])'
    BY <1>0, <1>1, <1>2, <1>3 DEF LogType
  <2>3. tracked' \subseteq DOMAIN channelOf'
    BY <1>0, <1>1, <1>2 DEF LogType
  <2>4. Len(channelOf') <= MaxSources
    BY <1>1, <1>2, MaxSourcesAssumption
  <2>5. \A s \in Source : s \notin tracked' => cursor'[s] = NoCursor
    BY <1>0, <1>1 DEF LogType
  <2>6. /\ history' \in [Channel -> Seq(Entry)] /\ horizon' \in Nat
        /\ cursor' \in [Source -> Int]
    BY <1>0, <1>1 DEF LogType
  <2> QED BY <1>2, <2>1, <2>2, <2>3, <2>4, <2>5, <2>6 DEF LogType
<1>8. Covered(new, cursor[new])'
  <2>1. \A i \in DOMAIN History(new)' : ~ (i <= cursor[new])
    BY <1>4, <1>5 DEF NoCursor
  <2> QED BY <1>1, <2>1 DEF Covered
<1> QED BY <1>0, <1>1, <1>6, <1>7, <1>8, CompleteKept DEF LogInv

\* Of the other steps none touches a channel, a row's channel or the clock.
LEMMA SameChannels ==
  ASSUME LogType, UNCHANGED <<history, horizon, channelOf>>
  PROVE  /\ \A s : History(s)' = History(s)
         /\ \A e : Live(e)' <=> Live(e)
         /\ \A s \in DOMAIN channelOf : Len(History(s)) <= Len(History(s)')
<1>1. \A s : History(s)' = History(s)
  BY DEF History
<1>2. ASSUME NEW s \in DOMAIN channelOf PROVE Len(History(s)) <= Len(History(s)')
  BY <1>1, HistoryOf
<1> QED BY <1>1, <1>2 DEF Live

LEMMA UntrackKeeps ==
  ASSUME LogInv, NEW s \in tracked, Untrack(s)
  PROVE  LogInv'
<1>0. LogType /\ Complete
  BY DEF LogInv
<1>1. /\ tracked' = tracked \ {s} /\ cursor' = [cursor EXCEPT ![s] = NoCursor]
      /\ UNCHANGED <<history, horizon, channelOf, stored>>
  BY DEF Untrack
<1>2. s \in Source /\ cursor \in [Source -> Int] /\ tracked \subseteq Source
  BY <1>0, RowIsSource DEF LogType
<1>3. \A t \in tracked' : t \in tracked /\ cursor'[t] = cursor[t]
  BY <1>1, <1>2
<1>4. Kept
  BY <1>0, <1>1, SameChannels DEF Kept
<1>5. LogType'
  <2>1. cursor' \in [Source -> Int] /\ \A t \in Source : t \notin tracked' => cursor'[t] = NoCursor
    BY <1>0, <1>1, <1>2 DEF LogType, NoCursor
  <2> QED BY <1>0, <1>1, <1>3, <2>1, SameChannels DEF LogType
<1> QED BY <1>0, <1>1, <1>3, <1>4, <1>5, CompleteKept DEF LogInv

LEMMA DeliverKeeps ==
  ASSUME LogInv, NEW s \in DOMAIN channelOf, NEW posts \in SUBSET DOMAIN History(s),
         Deliver(s, posts)
  PROVE  LogInv'
<1>0. LogType /\ Complete
  BY DEF LogInv
<1>1. /\ stored' = stored \cup ({s} \X posts)
      /\ UNCHANGED <<history, horizon, channelOf, tracked, cursor>>
      /\ \A i \in posts : \A j \in DOMAIN History(s) :
           j < i /\ Live(History(s)[j]) => <<s, j>> \in stored'
  BY DEF Deliver
<1>2. /\ \A t : History(t)' = History(t)
      /\ \A e : Live(e)' <=> Live(e)
      /\ DOMAIN History(s) \subseteq Int
  BY <1>0, <1>1, SameChannels, HistoryOf
<1>3. ASSUME NEW i \in posts PROVE Covered(s, i)'
  <2> SUFFICES ASSUME NEW j \in DOMAIN History(s), j <= i, Live(History(s)[j])
               PROVE  <<s, j>> \in stored'
    BY <1>2 DEF Covered
  <2>1. j < i \/ j = i
    BY <1>2
  <2> QED BY <1>1, <2>1
<1>4. ASSUME NEW m \in stored', m \notin stored
      PROVE  m = <<m[1], m[2]>> /\ m[1] = s /\ m[2] \in posts
  BY <1>1, <1>4
<1>5. Kept
  BY <1>0, <1>1, SameChannels DEF Kept
<1>6. LogType'
  <2>1. ASSUME NEW m \in stored'
        PROVE  m = <<m[1], m[2]>> /\ m[1] \in DOMAIN channelOf /\ m[2] \in DOMAIN History(m[1])
    BY <1>0, <1>4 DEF LogType
  <2> QED BY <1>0, <1>1, <1>2, <2>1 DEF LogType
<1>7. \A m \in stored' : m \in stored \/ Covered(m[1], m[2])'
  BY <1>3, <1>4
<1> QED BY <1>0, <1>1, <1>5, <1>6, <1>7, CompleteKept DEF LogInv

LEMMA AcknowledgeKeeps ==
  ASSUME LogInv, NEW s \in tracked, NEW n \in DOMAIN History(s), Acknowledge(s, n)
  PROVE  LogInv'
<1>0. LogType /\ Complete
  BY DEF LogInv
<1>1. /\ cursor' = [cursor EXCEPT ![s] = n] /\ Covered(s, n)
      /\ UNCHANGED <<history, horizon, channelOf, tracked, stored>>
  BY DEF Acknowledge
<1>2. /\ s \in DOMAIN channelOf /\ s \in Source /\ tracked \subseteq Source
      /\ cursor \in [Source -> Int] /\ n \in Int /\ n <= Len(History(s))
  BY <1>0, RowIsSource, HistoryOf DEF LogType
<1>3. /\ cursor' \in [Source -> Int] /\ cursor'[s] = n
      /\ \A t \in Source \ {s} : cursor'[t] = cursor[t]
  BY <1>1, <1>2
<1>4. \A t : History(t)' = History(t)
  BY <1>0, <1>1, SameChannels
<1>5. Covered(s, cursor[s])'
  BY <1>1, <1>3, <1>4 DEF Covered, Live
<1>6. Kept
  BY <1>0, <1>1, SameChannels DEF Kept
<1>7. LogType'
  <2>1. \A t \in tracked : cursor'[t] <= Len(History(t))
    BY <1>0, <1>2, <1>3 DEF LogType
  <2> QED BY <1>0, <1>1, <1>2, <1>3, <1>4, <2>1 DEF LogType
<1> QED BY <1>0, <1>1, <1>2, <1>3, <1>5, <1>6, <1>7, CompleteKept DEF LogInv

LEMMA ExpireKeeps ==
  ASSUME LogInv, NEW gone \in SUBSET stored, Expire(gone)
  PROVE  LogInv'
<1>0. LogType /\ Complete
  BY DEF LogInv
<1>1. /\ stored' = stored \ gone /\ \A m \in gone : ~ Live(History(m[1])[m[2]])
      /\ UNCHANGED <<history, horizon, channelOf, tracked, cursor>>
  BY DEF Expire
<1>2. /\ \A t : History(t)' = History(t)
      /\ \A e : Live(e)' <=> Live(e)
  BY <1>0, <1>1, SameChannels
<1>3. \A m \in stored : m \in stored' \/ ~ Live(History(m[1])[m[2]])'
  BY <1>1, <1>2
<1>4. Kept
  BY <1>0, <1>1, <1>2, <1>3, SameChannels DEF Kept
<1>5. LogType'
  BY <1>0, <1>1, <1>2 DEF LogType
<1> QED BY <1>0, <1>1, <1>4, <1>5, CompleteKept DEF LogInv

(***************************************************************************)
(* A store that keeps the promise of MessageLog misses no live post below a *)
(* cursor or below another post, although posts are delivered and cursors   *)
(* moved in separate steps and sources are removed and tracked again.       *)
(***************************************************************************)
THEOREM LogIsComplete == Spec => []Complete
<1>1. LogInit => LogInv
  <2> SUFFICES ASSUME LogInit PROVE LogInv
    OBVIOUS
  <2>1. channelOf \in Seq(Channel) /\ Len(channelOf) = 0 /\ tracked = {} /\ stored = {}
    BY DEF LogInit
  <2>2. horizon \in Nat /\ cursor \in [Source -> Int] /\ \A s \in Source : cursor[s] = NoCursor
    BY DEF LogInit, NoCursor
  <2>3. history \in [Channel -> Seq(Entry)]
    BY InitHistoryAssumption DEF LogInit
  <2> QED BY <2>1, <2>2, <2>3, MaxSourcesAssumption DEF LogInv, LogType, Complete
<1>2. LogInv /\ [Next]_logVars => LogInv'
  <2> SUFFICES ASSUME LogInv, [Next]_logVars PROVE LogInv'
    OBVIOUS
  <2>1. CASE Next
    BY <2>1, AppendKeeps, HorizonKeeps, TrackKeeps, UntrackKeeps, DeliverKeeps, AcknowledgeKeeps,
       ExpireKeeps DEF Next
  <2>2. CASE UNCHANGED logVars
    BY <2>2 DEF logVars, LogInv, LogType, Complete, Covered, History, Live
  <2> QED BY <2>1, <2>2
<1>3. LogInv => Complete
  BY DEF LogInv
<1> QED BY <1>1, <1>2, <1>3, PTL DEF Spec

-----------------------------------------------------------------------------
(* SessionLock *)

LockInv == holders \in [User -> SUBSET Worker] /\ Lock!Exclusive

LEMMA LockStep ==
  ASSUME LockInv, Lock!Next
  PROVE  /\ LockInv'
         /\ \A u \in User : holders[u] # {} /\ holders'[u] # {} => holders'[u] = holders[u]
<1>1. holders \in [User -> SUBSET Worker] /\ holders' \in [User -> SUBSET Worker]
  BY DEF LockInv, Lock!Next
<1>2. ASSUME NEW u \in User
      PROVE  /\ \A v, w \in holders'[u] : v = w
             /\ holders[u] # {} /\ holders'[u] # {} => holders'[u] = holders[u]
  <2>1. \A v, w \in holders[u] : v = w
    BY DEF LockInv, Lock!Exclusive
  <2>2. CASE Lock!Lapse
    BY <2>1, <2>2 DEF Lock!Lapse
  <2>3. ASSUME NEW w \in Worker, Lock!Grant(w)
        PROVE  /\ \A v, x \in holders'[u] : v = x
               /\ holders[u] # {} /\ holders'[u] # {} => holders'[u] = holders[u]
    <3>1. holders'[u] \ {w} = holders[u] \ {w} /\ (w \in holders'[u] => holders[u] \subseteq {w})
      BY <2>3 DEF Lock!Grant
    <3>2. CASE w \in holders'[u]
      BY <3>1, <3>2
    <3>3. CASE w \notin holders'[u]
      BY <2>1, <3>1, <3>3
    <3> QED BY <3>2, <3>3
  <2> QED BY <2>2, <2>3 DEF Lock!Next
<1> QED BY <1>1, <1>2 DEF LockInv, Lock!Exclusive

LEMMA LockInvariance == Lock!Spec => []LockInv
<1>1. Lock!Init => LockInv
  BY DEF Lock!Init, LockInv, Lock!Exclusive
<1>2. LockInv /\ [Lock!Next]_holders => LockInv'
  BY LockStep DEF LockInv, Lock!Exclusive
<1> QED BY <1>1, <1>2, PTL DEF Lock!Spec

\* A session is never with two workers, although each step grants one worker
\* any number of sessions and takes others from it.
THEOREM LockIsExclusive == Lock!Spec => []Lock!Exclusive
<1>1. LockInv => Lock!Exclusive
  BY DEF LockInv
<1> QED BY <1>1, LockInvariance, PTL

\* No step takes a session from one worker and gives it to another.
THEOREM LockIsHandedOver == Lock!Spec => Lock!Handover
<1>1. LockInv /\ [Lock!Next]_holders =>
        [\A u \in User : holders[u] # {} /\ holders'[u] # {} => holders'[u] = holders[u]]_holders
  BY LockStep
<1> QED BY <1>1, LockInvariance, PTL DEF Lock!Spec, Lock!Handover

-----------------------------------------------------------------------------
(* Subscription *)

SubInv ==
  disturbed \/ /\ visible \subseteq {m \in Message : TopicOf[m] \in category}
               /\ due \subseteq visible
               /\ due \cap delivered = {}

LEMMA SubStep ==
  ASSUME SubInv, [Sub!Next]_(Sub!vars), ~ disturbed'
  PROVE  /\ SubInv'
         /\ \A m \in due : m \in due' \/ m \in delivered' \/ m \notin visible'
<1>1. CASE Sub!Step
  <2>1. /\ visible' \subseteq {m \in Message : TopicOf[m] \in category'}
        /\ visible \subseteq {m \in Message : TopicOf[m] \in category}
        /\ due \subseteq visible /\ due \cap delivered = {}
    BY <1>1 DEF SubInv, Sub!Step
  <2>2. CASE Sub!Publish
    BY <2>1, <2>2 DEF Sub!Publish, SubInv
  <2>3. CASE Sub!Expire
    BY <2>1, <2>3 DEF Sub!Expire, SubInv
  <2>4. CASE Sub!Deliver
    BY <2>1, <2>4 DEF Sub!Deliver, SubInv
  <2>5. CASE Sub!Select
    <3>1. due' \subseteq visible' /\ due' \cap delivered' = {}
      BY <2>5 DEF Sub!Select
    <3>2. ASSUME NEW m \in due, m \in visible' PROVE m \in due'
      BY <2>1, <2>5, <3>2 DEF Sub!Select
    <3> QED BY <2>1, <3>1, <3>2 DEF SubInv
  <2> QED BY <1>1, <2>2, <2>3, <2>4, <2>5 DEF Sub!Step
<1>2. CASE UNCHANGED Sub!vars
  BY <1>2 DEF Sub!vars, SubInv
<1> QED BY <1>1, <1>2 DEF Sub!Next

LEMMA SubInvariance == Sub!Spec => []SubInv
<1>1. Sub!Init => SubInv
  BY DEF Sub!Init, SubInv
<1>2. SubInv /\ [Sub!Next]_(Sub!vars) => SubInv'
  BY SubStep DEF SubInv
<1> QED BY <1>1, <1>2, PTL DEF Sub!Spec

\* What has been delivered is not due, whatever channels come and go.
THEOREM DeliveredOnce == Sub!Spec => []Sub!Once
<1>1. SubInv => Sub!Once
  BY DEF SubInv, Sub!Once
<1> QED BY <1>1, SubInvariance, PTL

\* What was due and is no longer has been delivered, has expired, or left with
\* its channel.
THEOREM NothingDropped == Sub!Spec => Sub!NoneDropped
<1>1. SubInv /\ [Sub!Next]_(Sub!vars) =>
        [disturbed' \/ \A m \in due : m \in due' \/ m \in delivered' \/ m \notin visible']_(Sub!vars)
  BY SubStep
<1> QED BY <1>1, SubInvariance, PTL DEF Sub!Spec, Sub!NoneDropped
=============================================================================
