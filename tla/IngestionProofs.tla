--------------------------- MODULE IngestionProofs ---------------------------
(***************************************************************************)
(* Theorems about the sync loop (Ingestion), for any number of workers,     *)
(* channels, sources, messages, days and faults, any page size and any      *)
(* retention window.                                                        *)
(***************************************************************************)
EXTENDS Ingestion, TLAPS

USE RetentionAssumption, MaxSourcesAssumption, FetchLimitAssumption
    DEF MessageId

\* Every variable has a value of its kind when the system starts.
LEMMA InitTypeOK == Init => TypeOK
  BY InitHistoryAssumption
  DEF Init, LogInit, TypeOK, Source, NoCursor, NoSource, SyncStatus, Location

-----------------------------------------------------------------------------
(* Type correctness *)

LEMMA EnvironmentKeepsTypes ==
  ASSUME TypeOK,
         \/ \E c \in Channel, k \in Kinds : Publish(c, k)
         \/ AdvanceHorizon
         \/ Maintain
         \/ \E c \in Channel : Track(c)
         \/ \E s \in Source : Untrack(s)
         \/ \E s \in Source : BackoffExpires(s)
  PROVE  TypeOK'
<1> USE DEF TypeOK, logVars, rowVars, workerVars
<1>1. CASE \E c \in Channel, k \in Kinds : Publish(c, k)
  <2>1. PICK c \in Channel, k \in Kinds : Publish(c, k)
    BY <1>1
  <2>2. [date |-> Now, kind |-> k] \in Entry
    BY DEF Now, Entry
  <2>3. history' \in [Channel -> Seq(Entry)]
    BY <2>1, <2>2 DEF Publish
  <2> QED BY <2>1, <2>3 DEF Publish
<1>2. CASE AdvanceHorizon
  BY <1>2 DEF AdvanceHorizon
<1>3. CASE Maintain
  BY <1>3 DEF Maintain
<1>4. CASE \E c \in Channel : Track(c)
  BY <1>4 DEF Track
<1>5. CASE \E s \in Source : Untrack(s)
  BY <1>5 DEF Untrack, NoCursor, SyncStatus
<1>6. CASE \E s \in Source : BackoffExpires(s)
  BY <1>6 DEF BackoffExpires
<1> QED BY <1>1, <1>2, <1>3, <1>4, <1>5, <1>6

\* The updates of a row of "sources" keep its types.
LEMMA MarkSyncStatusTypes ==
  ASSUME TypeOK, NEW s \in Source, NEW status \in SyncStatus, NEW wait \in BOOLEAN,
         MarkSyncStatus(s, status, wait)
  PROVE  /\ syncStatus' \in [Source -> SyncStatus]
         /\ backoff' \in [Source -> BOOLEAN]
  BY DEF TypeOK, MarkSyncStatus

LEMMA UpdateCursorTypes ==
  ASSUME TypeOK, NEW s \in Source, NEW n \in MessageId, UpdateCursor(s, n)
  PROVE  /\ cursor' \in [Source -> MessageId \cup {NoCursor}]
         /\ syncStatus' \in [Source -> SyncStatus]
         /\ backoff' \in [Source -> BOOLEAN]
<1>1. cursor' \in [Source -> MessageId \cup {NoCursor}]
  BY DEF TypeOK, UpdateCursor, Greatest, OrZero, NoCursor
<1> QED BY <1>1, MarkSyncStatusTypes DEF UpdateCursor, SyncStatus

\* A worker that leaves syncUser has forgotten everything.
LEMMA ForgetTypes ==
  ASSUME TypeOK, NEW w \in Worker, Forget(w)
  PROVE  /\ pc' \in [Worker -> Location]
         /\ todo' \in [Worker -> SUBSET Source]
         /\ current' \in [Worker -> Source \cup {NoSource}]
         /\ snapshot' \in [Worker -> [Source -> MessageId \cup {NoCursor}]]
         /\ cutoff' \in [Worker -> Nat]
         /\ batch' \in [Worker -> SUBSET MessageId]
  BY DEF TypeOK, Forget, Goto, Location, NoCursor

\* The source a worker is processing is a source.
LEMMA CurrentSource ==
  ASSUME TypeOK, NEW w \in Worker, LocalsInRange(w), pc[w] \notin {"idle", "next"}
  PROVE  /\ current[w] \in DOMAIN channelOf
         /\ current[w] \in Source
         /\ channelOf[current[w]] \in Channel
         /\ History(current[w]) \in Seq(Entry)
         /\ snapshot[w][current[w]] \in MessageId \cup {NoCursor}
  BY DEF TypeOK, LocalsInRange, Source, History

LEMMA WorkerKeepsTypes ==
  ASSUME TypeOK, NEW w \in Worker, LocalsInRange(w),
         Step(w) \/ CallFails(w) \/ StartFails(w) \/ AbandonTick(w) \/ Crash(w)
  PROVE  TypeOK'
<1> USE DEF TypeOK, logVars, rowVars, workerVars
<1>1. CASE BeginSync(w)
  <2>1. todo' \in [Worker -> SUBSET Source]
    <3>1. PICK elapsed : todo' = [todo EXCEPT ![w] = {s \in tracked : Due(s, elapsed)}]
      BY <1>1 DEF BeginSync
    <3>2. {s \in tracked : Due(s, elapsed)} \subseteq Source
      BY DEF Source
    <3> QED BY <3>1, <3>2
  <2>2. snapshot' \in [Worker -> [Source -> MessageId \cup {NoCursor}]]
    BY <1>1 DEF BeginSync
  <2> QED BY <1>1, <2>1, <2>2 DEF BeginSync, Goto, Location
<1>2. CASE StartSource(w)
  <2>1. PICK s \in todo[w] :
          /\ todo' = [todo EXCEPT ![w] = @ \ {s}]
          /\ current' = [current EXCEPT ![w] = s]
          /\ MarkSyncStatus(s, "syncing", FALSE)
          /\ Goto(w, IF snapshot[w][s] = NoCursor THEN "seed" ELSE "fetch")
    BY <1>2 DEF StartSource
  <2>2. s \in Source
    OBVIOUS
  <2>3. /\ syncStatus' \in [Source -> SyncStatus]
        /\ backoff' \in [Source -> BOOLEAN]
    BY <2>1, <2>2, MarkSyncStatusTypes DEF SyncStatus
  <2> QED BY <1>2, <2>1, <2>2, <2>3 DEF StartSource, Goto, Location
<1>3. CASE SeedCursor(w)
  <2>1. current[w] \in Source /\ History(current[w]) \in Seq(Entry)
    BY <1>3, CurrentSource DEF SeedCursor
  <2>2. \/ snapshot' = snapshot
        \/ \E n \in DOMAIN History(current[w]) :
             snapshot' = [snapshot EXCEPT ![w] = [@ EXCEPT ![current[w]] = n]]
    BY <1>3 DEF SeedCursor
  <2>3. snapshot' \in [Worker -> [Source -> MessageId \cup {NoCursor}]]
    <3>1. DOMAIN History(current[w]) \subseteq MessageId
      BY <2>1
    <3>2. ASSUME NEW n \in MessageId
          PROVE  [snapshot[w] EXCEPT ![current[w]] = n] \in [Source -> MessageId \cup {NoCursor}]
      BY <2>1
    <3>3. CASE snapshot' = snapshot
      BY <3>3
    <3>4. CASE snapshot' # snapshot
      <4>1. PICK n \in MessageId :
              snapshot' = [snapshot EXCEPT ![w] = [@ EXCEPT ![current[w]] = n]]
        BY <2>2, <3>1, <3>4
      <4> QED BY <4>1, <3>2
    <3> QED BY <3>3, <3>4
  <2>4. pc' \in [Worker -> Location]
    BY <1>3 DEF SeedCursor, Goto, Location
  <2> QED BY <1>3, <2>3, <2>4 DEF SeedCursor
<1>4. CASE SaveSeed(w)
  <2>1. current[w] \in Source
    BY <1>4, CurrentSource DEF SaveSeed
  <2>2. snapshot[w][current[w]] \in MessageId
    BY <1>4, <2>1, CurrentSource DEF SaveSeed, LocalsInRange
  <2> QED BY <1>4, <2>1, <2>2, UpdateCursorTypes DEF SaveSeed, Goto, Location
<1>5. CASE FetchSince(w)
  <2>1. History(current[w]) \in Seq(Entry)
    BY <1>5, CurrentSource DEF FetchSince
  <2>2. batch' \in [Worker -> SUBSET MessageId]
    BY <1>5, <2>1 DEF FetchSince, Page
  <2> QED BY <1>5, <2>2 DEF FetchSince, Goto, Location
<1>6. CASE InsertMessages(w)
  <2>1. current[w] \in DOMAIN channelOf /\ History(current[w]) \in Seq(Entry)
    BY <1>6, CurrentSource DEF InsertMessages
  <2>2. batch[w] \subseteq DOMAIN History(current[w])
    BY <1>6 DEF InsertMessages, LocalsInRange
  <2>3. batch[w] \subseteq Nat \ {0}
    BY <2>1, <2>2
  <2>4. stored' \subseteq (DOMAIN channelOf) \X MessageId
    BY <1>6, <2>1, <2>3 DEF InsertMessages, Fresh
  <2> QED BY <1>6, <2>4 DEF InsertMessages, Goto, Location
<1>7. CASE Advance(w)
  <2>1. current[w] \in Source /\ snapshot[w][current[w]] \in MessageId \cup {NoCursor}
    BY <1>7, CurrentSource DEF Advance
  <2>2. PICK n \in batch[w] :
          UpdateCursor(current[w], Greatest(OrZero(snapshot[w][current[w]]), n))
    BY <1>7 DEF Advance
  <2>3. Greatest(OrZero(snapshot[w][current[w]]), n) \in MessageId
    BY <2>1 DEF Greatest, OrZero, NoCursor
  <2> QED BY <1>7, <2>1, <2>2, <2>3, UpdateCursorTypes DEF Advance, Goto, Location
<1>8. CASE Finish(w) \/ HandleSourceError(w)
  <2>1. current[w] \in Source
    BY <1>8, CurrentSource DEF Finish, HandleSourceError
  <2>2. /\ syncStatus' \in [Source -> SyncStatus]
        /\ backoff' \in [Source -> BOOLEAN]
    BY <1>8, <2>1, MarkSyncStatusTypes DEF Finish, HandleSourceError, SyncStatus
  <2>3. NextSource(w)
    BY <1>8 DEF Finish, HandleSourceError
  <2>4. /\ pc' \in [Worker -> Location]
        /\ current' \in [Worker -> Source \cup {NoSource}]
        /\ batch' \in [Worker -> SUBSET MessageId]
    BY <2>3 DEF NextSource, Goto, Location
  <2>5. snapshot' \in [Worker -> [Source -> MessageId \cup {NoCursor}]]
    BY <2>1, <2>3 DEF NextSource
  <2> QED BY <1>8, <2>2, <2>3, <2>4, <2>5 DEF Finish, HandleSourceError, NextSource
<1>9. CASE FetchDenied(w)
  BY <1>9 DEF FetchDenied, Goto, Location
<1>10. CASE CallFails(w)
  BY <1>10 DEF CallFails, Goto, Location
<1>11. CASE EndSync(w)
  BY <1>11, ForgetTypes DEF EndSync
<1>12. CASE AbandonTick(w)
  BY <1>12, ForgetTypes DEF AbandonTick
<1>13. CASE Crash(w)
  <2>1. /\ Forget(w)
        /\ faults' \in Nat
        /\ UNCHANGED <<logVars, floor, rowVars>>
    BY <1>13 DEF Crash
  <2> QED BY <2>1, ForgetTypes
<1>14. CASE StartFails(w)
  <2>1. PICK s \in todo[w] :
          /\ todo' = [todo EXCEPT ![w] = @ \ {s}]
          /\ current' = [current EXCEPT ![w] = s]
    BY <1>14 DEF StartFails
  <2> QED BY <1>14, <2>1 DEF StartFails, Goto, Location
<1> QED BY <1>1, <1>2, <1>3, <1>4, <1>5, <1>6, <1>7, <1>8, <1>9, <1>10, <1>11,
           <1>12, <1>13, <1>14 DEF Step

-----------------------------------------------------------------------------
(* What no step may take away *)

\* Time does not run backwards, histories only grow, a row id keeps its
\* channel, and a message is only removed when it is no longer live.
Kept ==
  /\ horizon <= horizon'
  /\ \A s \in DOMAIN channelOf :
       /\ s \in DOMAIN channelOf'
       /\ Len(History(s)) <= Len(History(s)')
       /\ \A i \in DOMAIN History(s) :
            i \in DOMAIN History(s)' /\ History(s)'[i] = History(s)[i]
  /\ \A m \in stored : m \in stored' \/ ~ Live(History(m[1])[m[2]])'

LEMMA HistoryType ==
  ASSUME TypeOK, NEW s \in DOMAIN channelOf
  PROVE  /\ channelOf[s] \in Channel
         /\ History(s) \in Seq(Entry)
  BY DEF TypeOK, History

LEMMA EntryType ==
  ASSUME TypeOK, NEW s \in DOMAIN channelOf, NEW i \in DOMAIN History(s)
  PROVE  /\ i \in 1..Len(History(s))
         /\ Len(History(s)) \in Nat
         /\ History(s)[i].date \in Nat
         /\ History(s)[i].kind \in Kinds
<1>1. History(s) \in Seq(Entry)
  BY HistoryType
<1>2. History(s)[i] \in Entry
  BY <1>1
<1> QED BY <1>1, <1>2 DEF Entry

LEMMA StepKeeps ==
  ASSUME TypeOK, Calendar, RowsInRange, [Next]_vars
  PROVE  Kept
<1> USE DEF TypeOK
<1>1. CASE \E c \in Channel, k \in Kinds : Publish(c, k)
  <2>1. PICK c \in Channel, k \in Kinds : Publish(c, k)
    BY <1>1
  <2>2. /\ horizon' = horizon
        /\ channelOf' = channelOf
        /\ stored' = stored
        /\ history' = [history EXCEPT ![c] = Append(@, [date |-> Now, kind |-> k])]
    BY <2>1 DEF Publish
  <2>3. ASSUME NEW s \in DOMAIN channelOf
        PROVE  /\ Len(History(s)) <= Len(History(s)')
               /\ \A i \in DOMAIN History(s) :
                    i \in DOMAIN History(s)' /\ History(s)'[i] = History(s)[i]
    <3>1. History(s) \in Seq(Entry) /\ channelOf[s] \in Channel
      BY HistoryType
    <3>2. CASE channelOf[s] = c
      <4>1. History(s)' = Append(History(s), [date |-> Now, kind |-> k])
        BY <2>2, <3>1, <3>2 DEF History
      <4> QED BY <3>1, <4>1
    <3>3. CASE channelOf[s] # c
      <4>1. History(s)' = History(s)
        BY <2>2, <3>1, <3>3 DEF History
      <4> QED BY <3>1, <4>1
    <3> QED BY <3>2, <3>3
  <2> QED BY <2>2, <2>3 DEF Kept
<1>2. CASE \E c \in Channel : Track(c)
  <2>1. PICK c \in Channel : Track(c)
    BY <1>2
  <2>2. \A s \in DOMAIN channelOf : s \in DOMAIN channelOf' /\ channelOf'[s] = channelOf[s]
    BY <2>1 DEF Track
  <2>3. \A s \in DOMAIN channelOf : History(s)' = History(s)
    BY <2>1, <2>2 DEF Track, History
  <2>4. \A s \in DOMAIN channelOf : Len(History(s)) \in Nat
    BY HistoryType
  <2> QED BY <2>1, <2>2, <2>3, <2>4 DEF Track, Kept
<1>3. CASE /\ channelOf' = channelOf
           /\ history' = history
           /\ horizon' \in Nat /\ horizon <= horizon'
           /\ stored \subseteq stored'
  <2>1. \A s \in DOMAIN channelOf : Len(History(s)) \in Nat
    BY HistoryType
  <2>2. \A s \in DOMAIN channelOf : History(s)' = History(s)
    BY <1>3 DEF History
  <2> QED BY <1>3, <2>1, <2>2 DEF Kept
<1>4. CASE Maintain
  <2>1. \A s \in DOMAIN channelOf : Len(History(s)) \in Nat
    BY HistoryType
  <2>2. \A s \in DOMAIN channelOf : History(s)' = History(s)
    BY <1>4 DEF Maintain, History
  <2>3. ASSUME NEW m \in stored
        PROVE  m \in stored' \/ ~ Live(History(m[1])[m[2]])'
    <3>1. PICK day \in floor + 1 .. horizon :
            stored' = {x \in stored : History(x[1])[x[2]].date >= day}
      BY <1>4 DEF Maintain
    <3>2. m[1] \in DOMAIN channelOf /\ m[2] \in DOMAIN History(m[1])
      BY DEF RowsInRange
    <3>3. History(m[1])[m[2]].date \in Nat
      BY <3>2, EntryType
    <3>4. History(m[1])[m[2]]' = History(m[1])[m[2]] /\ horizon' = horizon
      BY <1>4, <2>2, <3>2 DEF Maintain
    <3>5. Live(History(m[1])[m[2]])' => History(m[1])[m[2]].date > horizon
      BY <3>4 DEF Live
    <3> QED BY <3>1, <3>3, <3>5
  <2> QED BY <1>4, <2>1, <2>2, <2>3 DEF Maintain, Kept
<1>5. CASE AdvanceHorizon
  <2>1. horizon <= horizon' /\ horizon' \in Nat
    BY <1>5 DEF AdvanceHorizon
  <2> QED BY <1>3, <1>5, <2>1 DEF AdvanceHorizon
<1>6. CASE \E s \in Source : Untrack(s) \/ BackoffExpires(s)
  BY <1>3, <1>6 DEF Untrack, BackoffExpires, logVars
<1>7. CASE \E w \in Worker : InsertMessages(w)
  BY <1>3, <1>7 DEF InsertMessages
<1>8. CASE \E w \in Worker : SaveSeed(w) \/ Advance(w)
  BY <1>3, <1>8 DEF SaveSeed, Advance
<1>9. CASE UNCHANGED logVars
  BY <1>3, <1>9 DEF logVars
<1>10. ASSUME NEW w \in Worker,
              \/ BeginSync(w) \/ StartSource(w) \/ SeedCursor(w) \/ FetchSince(w)
              \/ Finish(w) \/ FetchDenied(w) \/ HandleSourceError(w) \/ EndSync(w)
              \/ CallFails(w) \/ StartFails(w) \/ AbandonTick(w) \/ Crash(w)
       PROVE  UNCHANGED logVars
  BY <1>10 DEF BeginSync, StartSource, SeedCursor, FetchSince, Finish, FetchDenied,
       HandleSourceError, EndSync, CallFails, StartFails, AbandonTick, Crash
<1>11. UNCHANGED vars => UNCHANGED logVars
  BY DEF vars
<1> QED BY <1>1, <1>2, <1>4, <1>5, <1>6, <1>7, <1>8, <1>9, <1>10, <1>11 DEF Next, Step

\* What is covered stays covered.
LEMMA CoveredKept ==
  ASSUME TypeOK, TypeOK', Kept, NEW s \in DOMAIN channelOf, NEW n \in Int,
         n <= Len(History(s)), Covered(s, n)
  PROVE  Covered(s, n)'
<1> SUFFICES ASSUME NEW i \in DOMAIN History(s)', i <= n, Live(History(s)[i])'
             PROVE  <<s, i>> \in stored'
  BY DEF Covered
<1>1. /\ History(s) \in Seq(Entry)
      /\ s \in DOMAIN channelOf'
  BY HistoryType DEF Kept
<1>2. History(s)' \in Seq(Entry)
  BY <1>1 DEF TypeOK, History
<1>3. i \in DOMAIN History(s)
  BY <1>1, <1>2
<1>4. History(s)'[i] = History(s)[i] /\ History(s)[i].date \in Nat
  BY <1>3, EntryType DEF Kept
<1>5. horizon \in Nat /\ horizon' \in Nat /\ horizon <= horizon'
  BY DEF Kept, TypeOK
<1>6. Live(History(s)[i])
  BY <1>4, <1>5 DEF Live
<1>7. <<s, i>> \in stored
  BY <1>3, <1>6 DEF Covered
<1>8. \A m \in stored : m \in stored' \/ ~ Live(History(m[1])[m[2]])'
  BY DEF Kept
<1>9. <<s, i>> \in stored' \/ ~ Live(History(<<s, i>>[1])[<<s, i>>[2]])'
  BY <1>7, <1>8
<1> QED BY <1>9

-----------------------------------------------------------------------------
(* The worker's part of the invariant *)

\* A snapshot is a number no greater than the length of the history.
LEMMA SnapshotRange ==
  ASSUME TypeOK, NEW w \in Worker, LocalsInRange(w), NEW s \in DOMAIN channelOf
  PROVE  /\ s \in Source
         /\ snapshot[w][s] \in Int
         /\ snapshot[w][s] <= Len(History(s))
<1>1. s \in Source /\ Len(History(s)) \in Nat
  BY HistoryType DEF TypeOK, Source
<1>2. snapshot[w][s] \in MessageId \cup {NoCursor}
  BY <1>1 DEF TypeOK
<1> QED BY <1>1, <1>2 DEF LocalsInRange, NoCursor

\* What a worker holds in memory stays valid while others take steps.
LEMMA Undisturbed ==
  ASSUME TypeOK, TypeOK', Kept, NEW w \in Worker, WorkerInv(w),
         pc'[w] = pc[w], todo'[w] = todo[w], current'[w] = current[w],
         snapshot'[w] = snapshot[w], cutoff'[w] = cutoff[w], batch'[w] = batch[w]
  PROVE  WorkerInv(w)'
<1>1. /\ DOMAIN channelOf \subseteq DOMAIN channelOf'
      /\ \A s \in DOMAIN channelOf : /\ Len(History(s)) \in Nat
                                    /\ Len(History(s)') \in Nat
                                    /\ Len(History(s)) <= Len(History(s)')
                                    /\ DOMAIN History(s) \subseteq DOMAIN History(s)'
  <2>1. ASSUME NEW s \in DOMAIN channelOf
        PROVE  Len(History(s)) \in Nat /\ Len(History(s)') \in Nat
    <3>1. s \in DOMAIN channelOf'
      BY DEF Kept
    <3>2. History(s)' \in Seq(Entry)
      BY <3>1 DEF TypeOK, History
    <3> QED BY <3>2, HistoryType
  <2> QED BY <2>1 DEF Kept
<1>2. LocalsInRange(w)'
  <2>1. cutoff'[w] <= horizon'
    BY DEF WorkerInv, LocalsInRange, Kept, TypeOK
  <2>2. \A s \in Source : snapshot'[w][s] # NoCursor =>
          s \in DOMAIN channelOf' /\ snapshot'[w][s] <= Len(History(s)')
    <3> SUFFICES ASSUME NEW s \in Source, snapshot[w][s] # NoCursor
                 PROVE  s \in DOMAIN channelOf' /\ snapshot[w][s] <= Len(History(s)')
      OBVIOUS
    <3>1. /\ snapshot[w][s] \in Nat
          /\ s \in DOMAIN channelOf
          /\ snapshot[w][s] <= Len(History(s))
      BY DEF WorkerInv, LocalsInRange, TypeOK
    <3> QED BY <1>1, <3>1
  <2>3. pc'[w] \notin {"idle", "next"} => current'[w] \in DOMAIN channelOf
    BY DEF WorkerInv, LocalsInRange
  <2>4. (pc[w] \in {"insert", "advance"} => batch[w] \subseteq DOMAIN History(current[w]))'
    <3>1. pc[w] \in {"insert", "advance"} =>
            /\ current[w] \in DOMAIN channelOf
            /\ batch[w] \subseteq DOMAIN History(current[w])
      BY DEF WorkerInv, LocalsInRange
    <3>2. History(current[w])' = history'[channelOf'[current[w]]]
      BY DEF History
    <3>3. \A s \in DOMAIN channelOf : History(s)' = history'[channelOf'[s]]
      BY DEF History
    <3> QED BY <1>1, <3>1, <3>2, <3>3
  <2>5. pc'[w] = "save" => snapshot'[w][current'[w]] # NoCursor
    BY DEF WorkerInv, LocalsInRange
  <2>6. todo'[w] \subseteq DOMAIN channelOf'
    BY <1>1 DEF WorkerInv, LocalsInRange
  <2> QED BY <1>1, <2>1, <2>2, <2>3, <2>4, <2>5, <2>6 DEF LocalsInRange
<1>3. SnapshotsCovered(w)'
  <2> SUFFICES ASSUME NEW s \in DOMAIN channelOf'
               PROVE  Covered(s, snapshot[w][s])'
    BY DEF SnapshotsCovered
  <2>1. s \in Source
    BY DEF TypeOK, Source
  <2>2. CASE snapshot[w][s] = NoCursor
    <3>1. History(s)' \in Seq(Entry)
      BY DEF TypeOK, History
    <3> QED BY <2>2, <3>1 DEF Covered, NoCursor
  <2>3. CASE snapshot[w][s] # NoCursor
    <3>1. s \in DOMAIN channelOf
      BY <2>1, <2>3 DEF WorkerInv, LocalsInRange
    <3>2. /\ snapshot[w][s] \in Int
          /\ snapshot[w][s] <= Len(History(s))
          /\ Covered(s, snapshot[w][s])
      BY <3>1, SnapshotRange DEF WorkerInv, SnapshotsCovered
    <3>3. \A n \in Int : n <= Len(History(s)) /\ Covered(s, n) => Covered(s, n)'
      BY <3>1, CoveredKept
    <3> QED BY <3>2, <3>3 DEF Covered
  <2> QED BY <2>2, <2>3
<1>4. ASSUME pc[w] \in {"insert", "advance"}
      PROVE  /\ current[w] \in DOMAIN channelOf
             /\ current'[w] = current[w]
             /\ \A n \in batch[w] : n \in DOMAIN History(current[w])
             /\ \A i \in DOMAIN History(current[w]) :
                  History(current[w])'[i] = History(current[w])[i]
             /\ \A i \in DOMAIN History(current[w])' : \A n \in batch[w] :
                  i <= n => i \in DOMAIN History(current[w])
  <2>1. /\ current[w] \in DOMAIN channelOf
        /\ batch[w] \subseteq DOMAIN History(current[w])
    BY <1>4 DEF WorkerInv, LocalsInRange
  <2>2. PICK s \in DOMAIN channelOf : s = current[w]
    BY <2>1
  <2>3. /\ History(s)' = History(current[w])'
        /\ History(s) = History(current[w])
    BY <2>2 DEF History
  <2>4. /\ History(s) \in Seq(Entry)
        /\ History(s)' \in Seq(Entry)
    BY HistoryType DEF Kept, TypeOK, History
  <2>5. /\ batch[w] \subseteq DOMAIN History(s)
        /\ \A i \in DOMAIN History(s) : History(s)'[i] = History(s)[i]
        /\ \A i \in DOMAIN History(s)' : \A n \in batch[w] :
                  i <= n => i \in DOMAIN History(s)
    BY <2>1, <2>3, <2>4 DEF Kept
  <2> QED BY <2>1, <2>3, <2>5
<1>5. BatchComplete(w)'
  <2>1. BatchComplete(w)
    BY DEF WorkerInv
  <2> QED BY <1>4, <2>1 DEF BatchComplete
<1>6. BatchStored(w)'
  <2> SUFFICES ASSUME pc[w] = "advance", NEW n \in batch[w]
               PROVE  Covered(current[w], n)'
    BY DEF BatchStored
  <2>1. PICK s \in DOMAIN channelOf : s = current[w]
    BY <1>4
  <2>2. Covered(s, n) /\ n \in DOMAIN History(s)
    BY <1>4, <2>1 DEF WorkerInv, BatchStored
  <2>3. n \in Int /\ n <= Len(History(s))
    BY <2>2, EntryType
  <2>4. Covered(s, n)'
    BY <2>2, <2>3, CoveredKept
  <2> QED BY <2>1, <2>4 DEF Covered
<1> QED BY <1>2, <1>3, <1>5, <1>6 DEF WorkerInv

\* No step of a worker touches what Telegram holds or which rows exist, and
\* none removes a message.
LEMMA WorkerLeaves ==
  ASSUME NEW w \in Worker, Step(w) \/ CallFails(w) \/ StartFails(w) \/ AbandonTick(w) \/ Crash(w)
  PROVE  /\ UNCHANGED <<history, horizon, channelOf, tracked, floor>>
         /\ stored \subseteq stored'
  BY DEF Step, BeginSync, StartSource, SeedCursor, SaveSeed, FetchSince,
     InsertMessages, Advance, Finish, FetchDenied, HandleSourceError, EndSync,
     CallFails, StartFails, AbandonTick, Crash, logVars

LEMMA CoveredGrows ==
  ASSUME UNCHANGED <<history, horizon, channelOf>>, stored \subseteq stored',
         NEW s, NEW n, Covered(s, n)
  PROVE  Covered(s, n)'
  BY DEF Covered, History, Live

\* A worker that goes on with fewer rows, the same snapshots, and no batch to
\* store keeps its part of the invariant.
LEMMA LoopKeeps ==
  ASSUME TypeOK, TypeOK', NEW w \in Worker, WorkerInv(w),
         UNCHANGED <<history, horizon, channelOf>>, stored \subseteq stored',
         cutoff'[w] \in {cutoff[w], 0}, todo'[w] \subseteq todo[w],
         \A s \in Source : snapshot'[w][s] \in {snapshot[w][s], NoCursor},
         pc'[w] \notin {"save", "insert", "advance"},
         pc'[w] \notin {"idle", "next"} => current'[w] \in DOMAIN channelOf
  PROVE  WorkerInv(w)'
<1>1. LocalsInRange(w)'
  BY DEF WorkerInv, LocalsInRange, TypeOK, History
<1>2. SnapshotsCovered(w)'
  <2> SUFFICES ASSUME NEW s \in DOMAIN channelOf, NEW n, n = snapshot'[w][s]
               PROVE  Covered(s, n)'
    BY DEF SnapshotsCovered, Covered
  <2>1. s \in Source /\ History(s)' \in Seq(Entry)
    BY DEF TypeOK, Source, History
  <2>2. CASE n = NoCursor
    BY <2>1, <2>2 DEF Covered, NoCursor
  <2>3. CASE n = snapshot[w][s]
    <3>1. Covered(s, n)
      BY <2>3 DEF WorkerInv, SnapshotsCovered
    <3> QED BY <3>1, CoveredGrows
  <2> QED BY <2>1, <2>2, <2>3
<1> QED BY <1>1, <1>2 DEF WorkerInv, BatchComplete, BatchStored

LEMMA BeginSyncKeeps ==
  ASSUME TypeOK, TypeOK', RowsInRange, NoLoss, NEW w \in Worker, WorkerInv(w),
         BeginSync(w)
  PROVE  WorkerInv(w)'
<1>1. /\ pc'[w] = "next"
      /\ cutoff'[w] = horizon
      /\ todo'[w] \subseteq tracked
      /\ snapshot'[w] = [s \in Source |-> IF s \in todo'[w] THEN cursor[s] ELSE NoCursor]
      /\ UNCHANGED logVars
  BY DEF BeginSync, Goto, TypeOK
<1>2. \A s \in Source : snapshot'[w][s] # NoCursor => s \in tracked /\ snapshot'[w][s] = cursor[s]
  BY <1>1
<1>3. LocalsInRange(w)'
  <2>1. \A s \in Source : (snapshot[w][s] # NoCursor =>
          s \in DOMAIN channelOf /\ snapshot[w][s] <= Len(History(s)))'
    BY <1>1, <1>2 DEF TypeOK, RowsInRange, History, logVars
  <2> QED BY <1>1, <2>1 DEF TypeOK, LocalsInRange, logVars
<1>4. SnapshotsCovered(w)'
  <2> SUFFICES ASSUME NEW s \in DOMAIN channelOf'
               PROVE  Covered(s, snapshot[w][s])'
    BY DEF SnapshotsCovered
  <2>1. s \in Source /\ History(s)' \in Seq(Entry)
    BY DEF TypeOK, Source, History
  <2>2. CASE snapshot'[w][s] = NoCursor
    BY <2>1, <2>2 DEF Covered, NoCursor
  <2>3. CASE snapshot'[w][s] # NoCursor
    <3>1. s \in tracked /\ snapshot'[w][s] = cursor[s]
      BY <1>2, <2>1, <2>3
    <3>2. Covered(s, cursor[s])
      BY <3>1 DEF NoLoss
    <3> QED BY <1>1, <3>1, <3>2 DEF Covered, History, Live, logVars
  <2> QED BY <2>2, <2>3
<1> QED BY <1>1, <1>3, <1>4 DEF WorkerInv, BatchComplete, BatchStored

\* The seed is not ahead of any live post: everything up to it is dated no
\* later than the cutoff.
LEMMA SeedCursorKeeps ==
  ASSUME TypeOK, TypeOK', Calendar, NEW w \in Worker, WorkerInv(w), SeedCursor(w)
  PROVE  WorkerInv(w)'
<1> DEFINE s == current[w]
<1>1. /\ UNCHANGED <<history, horizon, channelOf, stored>>
      /\ cutoff' = cutoff /\ todo' = todo /\ current' = current
      /\ pc[w] = "seed"
  BY DEF SeedCursor, logVars
<1>2. /\ s \in DOMAIN channelOf
      /\ s \in Source
  BY <1>1, CurrentSource DEF WorkerInv
<1>3. CASE snapshot' = snapshot /\ Goto(w, "fetch")
  <2>1. pc'[w] = "fetch"
    BY <1>3 DEF Goto, TypeOK
  <2> QED BY <1>1, <1>2, <1>3, <2>1, LoopKeeps
<1>4. CASE \E n \in DOMAIN History(s) :
             /\ LastBefore(s, cutoff[w], n)
             /\ snapshot' = [snapshot EXCEPT ![w][s] = n]
             /\ Goto(w, "save")
  <2>1. PICK n \in DOMAIN History(s) :
             /\ LastBefore(s, cutoff[w], n)
             /\ snapshot' = [snapshot EXCEPT ![w][s] = n]
             /\ Goto(w, "save")
    BY <1>4
  <2>2. /\ n \in Nat /\ n # NoCursor /\ n <= Len(History(s))
        /\ pc'[w] = "save"
    <3>1. n \in 1..Len(History(s)) /\ Len(History(s)) \in Nat
      BY <1>2, EntryType
    <3>2. pc'[w] = "save"
      BY <2>1 DEF Goto, TypeOK
    <3> QED BY <3>1, <3>2 DEF NoCursor
  <2>3. \A r \in Source : snapshot'[w][r] = IF r = s THEN n ELSE snapshot[w][r]
    BY <1>2, <2>1 DEF TypeOK
  <2>4. LocalsInRange(w)'
    BY <1>1, <1>2, <2>2, <2>3 DEF WorkerInv, LocalsInRange, History
  <2>5. Covered(s, n)
    <3> SUFFICES ASSUME NEW i \in DOMAIN History(s), i <= n
                 PROVE  ~ Live(History(s)[i])
      BY DEF Covered
    <3>1. History(s)[n].date <= cutoff[w] /\ cutoff[w] <= horizon
      BY <2>1 DEF LastBefore, WorkerInv, LocalsInRange
    <3>2. History(s)[i].date <= History(s)[n].date
      <4>1. i \in 1..n /\ channelOf[s] \in Channel
        BY <1>2, EntryType, HistoryType
      <4> QED BY <4>1 DEF Calendar, History
    <3>3. History(s)[i].date \in Nat /\ History(s)[n].date \in Nat
      BY <1>2, <2>1, EntryType
    <3> QED BY <3>1, <3>2, <3>3 DEF Live, TypeOK
  <2>6. SnapshotsCovered(w)'
    <3> SUFFICES ASSUME NEW r \in DOMAIN channelOf, NEW m, m = snapshot'[w][r]
                 PROVE  Covered(r, m)'
      BY <1>1 DEF SnapshotsCovered, Covered
    <3>1. r \in Source
      BY DEF TypeOK, Source
    <3>2. Covered(r, m)
      BY <2>3, <2>5, <3>1 DEF WorkerInv, SnapshotsCovered
    <3> QED BY <1>1, <3>2, CoveredGrows
  <2> QED BY <2>2, <2>4, <2>6 DEF WorkerInv, BatchComplete, BatchStored
<1> QED BY <1>3, <1>4 DEF SeedCursor

\* A page begins right after the snapshot and leaves out no post.
LEMMA FetchSinceKeeps ==
  ASSUME TypeOK, TypeOK', NEW w \in Worker, WorkerInv(w), FetchSince(w)
  PROVE  WorkerInv(w)'
<1> DEFINE s == current[w]
           posts == {i \in Page(s, snapshot[w][s]) : History(s)[i].kind = "post"}
<1>1. /\ UNCHANGED logVars
      /\ cutoff' = cutoff /\ todo' = todo /\ current' = current /\ snapshot' = snapshot
      /\ pc[w] = "fetch"
      /\ batch'[w] = posts
      /\ pc'[w] = IF posts = {} THEN "finish" ELSE "insert"
  BY DEF FetchSince, Goto, TypeOK
<1>2. /\ s \in DOMAIN channelOf
      /\ snapshot[w][s] \in MessageId \cup {NoCursor}
  BY <1>1, CurrentSource DEF WorkerInv
<1>3. CASE posts = {}
  BY <1>1, <1>2, <1>3, LoopKeeps DEF logVars
<1>4. CASE posts # {}
  <2>1. LocalsInRange(w)'
    BY <1>1, <1>2, <1>4 DEF WorkerInv, LocalsInRange, logVars, History, Page
  <2>2. SnapshotsCovered(w)'
    BY <1>1 DEF WorkerInv, SnapshotsCovered, Covered, logVars, History, Live
  <2>3. \A n \in posts : \A i \in DOMAIN History(s) :
          /\ OrZero(snapshot[w][s]) < i
          /\ i <= n
          /\ History(s)[i].kind = "post"
          => i \in posts
    <3> SUFFICES ASSUME NEW n \in posts, NEW i \in DOMAIN History(s),
                        OrZero(snapshot[w][s]) < i, i <= n,
                        History(s)[i].kind = "post"
                 PROVE  i \in posts
      OBVIOUS
    <3>1. n \in Nat /\ i \in Nat /\ OrZero(snapshot[w][s]) \in Nat
      BY <1>2, EntryType DEF Page, OrZero, NoCursor
    <3>2. n <= OrZero(snapshot[w][s]) + FetchLimit
      BY DEF Page
    <3> QED BY <3>1, <3>2 DEF Page
  <2>4. BatchComplete(w)'
    BY <1>1, <1>4, <2>3 DEF BatchComplete, logVars, History, OrZero
  <2> QED BY <1>1, <1>4, <2>1, <2>2, <2>4 DEF WorkerInv, BatchStored
<1> QED BY <1>3, <1>4

\* What insertMessages adds, together with what the snapshot covers, covers
\* everything up to the last message of the batch.
LEMMA InsertCovers ==
  ASSUME TypeOK, NEW w \in Worker, WorkerInv(w), pc[w] = "insert",
         UNCHANGED <<history, horizon, channelOf, current>>,
         stored' = stored \cup ({current[w]} \X Fresh(w)),
         NEW n \in batch[w]
  PROVE  Covered(current[w], n)'
<1> DEFINE s == current[w]
<1>1. /\ s \in DOMAIN channelOf
      /\ snapshot[w][s] \in MessageId \cup {NoCursor}
      /\ batch[w] \subseteq DOMAIN History(s)
  BY CurrentSource DEF WorkerInv, LocalsInRange
<1> SUFFICES ASSUME NEW i \in DOMAIN History(s), i <= n, Live(History(s)[i])
             PROVE  <<s, i>> \in stored'
  <2>1. \A i \in DOMAIN History(s) :
          i <= n /\ Live(History(s)[i]) => <<s, i>> \in stored'
    OBVIOUS
  <2> QED BY <2>1 DEF Covered, History, Live
<1>2. i \in Nat /\ n \in Nat /\ History(s)[i].date \in Nat
  BY <1>1, EntryType
<1>3. CASE i <= OrZero(snapshot[w][s])
  <2>1. i <= snapshot[w][s]
    <3>1. i \in 1..Len(History(s)) /\ Len(History(s)) \in Nat
      BY <1>1, EntryType
    <3> QED BY <1>1, <1>3, <3>1 DEF OrZero, NoCursor
  <2> QED BY <1>1, <2>1 DEF WorkerInv, SnapshotsCovered, Covered
<1>4. CASE ~ (i <= OrZero(snapshot[w][s]))
  <2>1. OrZero(snapshot[w][s]) \in Nat
    BY <1>1 DEF OrZero, NoCursor
  <2>2. History(s)[i].kind = "post" /\ History(s)[i].date > horizon
    BY DEF Live
  <2>3. i \in batch[w]
    BY <1>2, <1>4, <2>1, <2>2 DEF WorkerInv, BatchComplete
  <2>4. cutoff[w] <= horizon
    BY DEF WorkerInv, LocalsInRange
  <2>5. i \in Fresh(w)
    BY <1>2, <2>2, <2>3, <2>4 DEF Fresh, TypeOK
  <2> QED BY <2>5
<1> QED BY <1>3, <1>4

LEMMA InsertMessagesKeeps ==
  ASSUME TypeOK, TypeOK', NEW w \in Worker, WorkerInv(w), InsertMessages(w)
  PROVE  WorkerInv(w)'
<1>1. /\ UNCHANGED <<history, horizon, channelOf>>
      /\ cutoff' = cutoff /\ todo' = todo /\ current' = current
      /\ snapshot' = snapshot /\ batch' = batch
      /\ stored \subseteq stored'
      /\ pc[w] = "insert"
  BY DEF InsertMessages
<1>2. current[w] \in DOMAIN channelOf
  BY <1>1, CurrentSource DEF WorkerInv
<1>3. CASE pc'[w] = "failed"
  BY <1>1, <1>2, <1>3, LoopKeeps
<1>4. CASE /\ pc'[w] = "advance"
           /\ stored' = stored \cup ({current[w]} \X Fresh(w))
  <2>1. LocalsInRange(w)'
    BY <1>1, <1>4 DEF WorkerInv, LocalsInRange, History
  <2>2. SnapshotsCovered(w)'
    <3> SUFFICES ASSUME NEW s \in DOMAIN channelOf, NEW n, n = snapshot[w][s]
                 PROVE  Covered(s, n)'
      BY <1>1 DEF SnapshotsCovered, Covered
    <3>1. Covered(s, n)
      BY DEF WorkerInv, SnapshotsCovered
    <3> QED BY <1>1, <3>1, CoveredGrows
  <2>3. BatchComplete(w)'
    BY <1>1, <1>4 DEF WorkerInv, BatchComplete, History, OrZero
  <2>4. BatchStored(w)'
    <3> SUFFICES ASSUME NEW n \in batch[w]
                 PROVE  Covered(current[w], n)'
      BY <1>1 DEF BatchStored, Covered
    <3> QED BY <1>1, <1>4, InsertCovers
  <2> QED BY <2>1, <2>2, <2>3, <2>4 DEF WorkerInv
<1> QED BY <1>3, <1>4 DEF InsertMessages, Goto, TypeOK

\* Every step of a worker keeps the worker's part of the invariant.
LEMMA ActorKeeps ==
  ASSUME TypeOK, TypeOK', Calendar, RowsInRange, NoLoss,
         NEW w \in Worker, WorkerInv(w),
         Step(w) \/ CallFails(w) \/ StartFails(w) \/ AbandonTick(w) \/ Crash(w)
  PROVE  WorkerInv(w)'
<1>1. UNCHANGED <<history, horizon, channelOf>> /\ stored \subseteq stored'
  BY WorkerLeaves
<1>2. CASE StartSource(w)
  <2>1. PICK s \in todo[w] :
          /\ todo' = [todo EXCEPT ![w] = @ \ {s}]
          /\ current' = [current EXCEPT ![w] = s]
          /\ Goto(w, IF snapshot[w][s] = NoCursor THEN "seed" ELSE "fetch")
    BY <1>2 DEF StartSource
  <2>2. /\ todo'[w] \subseteq todo[w]
        /\ current'[w] \in DOMAIN channelOf
        /\ pc'[w] \in {"seed", "fetch"}
        /\ snapshot' = snapshot /\ cutoff' = cutoff
    BY <1>2, <2>1 DEF StartSource, Goto, TypeOK, WorkerInv, LocalsInRange
  <2> QED BY <1>1, <2>2, LoopKeeps
<1>6. CASE StartFails(w)
  <2>1. /\ todo'[w] \subseteq todo[w]
        /\ current'[w] \in DOMAIN channelOf
        /\ pc'[w] = "failed"
        /\ snapshot' = snapshot /\ cutoff' = cutoff
    BY <1>6 DEF StartFails, Goto, TypeOK, WorkerInv, LocalsInRange
  <2> QED BY <1>1, <2>1, LoopKeeps
<1>3. CASE SaveSeed(w) \/ Advance(w) \/ FetchDenied(w) \/ CallFails(w)
  <2>1. /\ pc[w] \notin {"idle", "next"}
        /\ pc'[w] \in {"fetch", "finish", "failed"}
        /\ todo' = todo /\ current' = current /\ snapshot' = snapshot /\ cutoff' = cutoff
    BY <1>3 DEF SaveSeed, Advance, FetchDenied, CallFails, Goto, TypeOK
  <2>2. current'[w] \in DOMAIN channelOf
    BY <2>1 DEF WorkerInv, LocalsInRange
  <2> QED BY <1>1, <2>1, <2>2, LoopKeeps
<1>4. CASE Finish(w) \/ HandleSourceError(w)
  <2>1. NextSource(w) /\ pc[w] \notin {"idle", "next"}
    BY <1>4 DEF Finish, HandleSourceError
  <2>2. current[w] \in Source
    BY <2>1, CurrentSource DEF WorkerInv
  <2>3. \A s \in Source : snapshot'[w][s] \in {snapshot[w][s], NoCursor}
    BY <2>1, <2>2 DEF NextSource, TypeOK
  <2>4. pc'[w] = "next" /\ todo' = todo /\ cutoff' = cutoff
    BY <2>1 DEF NextSource, Goto, TypeOK
  <2> QED BY <1>1, <2>3, <2>4, LoopKeeps
<1>5. CASE EndSync(w) \/ AbandonTick(w) \/ Crash(w)
  <2>1. Forget(w)
    BY <1>5 DEF EndSync, AbandonTick, Crash
  <2>2. /\ pc'[w] = "idle"
        /\ todo'[w] = {}
        /\ cutoff'[w] = 0
        /\ \A s \in Source : snapshot'[w][s] = NoCursor
    BY <2>1 DEF Forget, Goto, TypeOK
  <2> QED BY <1>1, <2>2, LoopKeeps
<1> QED BY <1>2, <1>3, <1>4, <1>5, <1>6, BeginSyncKeeps, SeedCursorKeeps, FetchSinceKeeps,
           InsertMessagesKeeps DEF Step

-----------------------------------------------------------------------------
(* The rest of the invariant *)

LEMMA CalendarKept ==
  ASSUME TypeOK, Calendar, [Next]_vars
  PROVE  Calendar'
<1>1. CASE \E c \in Channel, k \in Kinds : Publish(c, k)
  <2>1. PICK c \in Channel, k \in Kinds : Publish(c, k)
    BY <1>1
  <2> DEFINE e == [date |-> Now, kind |-> k]
  <2>2. /\ UNCHANGED <<horizon, floor>>
        /\ history' = [history EXCEPT ![c] = Append(@, e)]
        /\ e.date = Now
        /\ Now \in Nat /\ Now' = Now
    BY <2>1 DEF Publish, Now, TypeOK
  <2>3. ASSUME NEW d \in Channel, NEW i \in DOMAIN history'[d]
        PROVE  /\ history'[d][i].date <= Now
               /\ \A j \in 1..i : history'[d][j].date <= history'[d][i].date
    <3>1. history[d] \in Seq(Entry) /\ history[c] \in Seq(Entry)
      BY DEF TypeOK
    <3>2. CASE d # c
      <4>1. history'[d] = history[d]
        BY <2>2, <3>2 DEF TypeOK
      <4> QED BY <4>1 DEF Calendar
    <3>3. CASE d = c
      <4>1. history'[c] = Append(history[c], e)
        BY <2>2 DEF TypeOK
      <4>2. /\ i \in 1..Len(history[c]) + 1
            /\ Len(history[c]) \in Nat
            /\ \A j \in 1..Len(history[c]) : history'[c][j] = history[c][j]
            /\ history'[c][Len(history[c]) + 1] = e
        BY <3>1, <3>3, <4>1
      <4>3. \A j \in 1..Len(history[c]) : history[c][j].date <= Now
        BY <3>1 DEF Calendar
      <4>4. CASE i = Len(history[c]) + 1
        BY <2>2, <3>3, <4>2, <4>3, <4>4
      <4>5. CASE i \in 1..Len(history[c])
        <5>1. \A j \in 1..i : history[c][j].date <= history[c][i].date
          BY <3>1, <4>5 DEF Calendar
        <5>2. \A j \in 1..i : history'[c][j] = history[c][j]
          BY <4>2, <4>5
        <5> QED BY <3>3, <4>2, <4>3, <4>5, <5>1, <5>2
      <4> QED BY <4>2, <4>4, <4>5
    <3> QED BY <3>2, <3>3
  <2> QED BY <2>2, <2>3 DEF Calendar
<1>2. CASE AdvanceHorizon
  <2>1. Now \in Nat /\ Now' = Now + 1 /\ history' = history
    BY <1>2 DEF AdvanceHorizon, Now, TypeOK
  <2>2. ASSUME NEW c \in Channel, NEW i \in DOMAIN history[c]
        PROVE  history[c][i].date <= Now'
    <3>1. history[c] \in Seq(Entry)
      BY DEF TypeOK
    <3>2. history[c][i] \in Entry
      BY <3>1
    <3>3. history[c][i].date \in Nat /\ history[c][i].date <= Now
      BY <3>2 DEF Entry, Calendar
    <3> QED BY <2>1, <3>3
  <2> QED BY <1>2, <2>1, <2>2 DEF AdvanceHorizon, Calendar, TypeOK
<1>3. CASE Maintain
  BY <1>3 DEF Maintain, Calendar, Now, TypeOK
<1>4. CASE UNCHANGED <<history, horizon, floor>>
  BY <1>4 DEF Calendar, Now
<1>5. CASE \/ \E c \in Channel : Track(c)
           \/ \E s \in Source : Untrack(s) \/ BackoffExpires(s)
           \/ UNCHANGED vars
  BY <1>4, <1>5 DEF Track, Untrack, BackoffExpires, vars, logVars
<1>6. CASE \E w \in Worker : Step(w) \/ CallFails(w) \/ StartFails(w) \/ AbandonTick(w) \/ Crash(w)
  BY <1>4, <1>6, WorkerLeaves
<1> QED BY <1>1, <1>2, <1>3, <1>5, <1>6 DEF Next

\* Whatever a worker writes to a cursor is covered.
LEMMA CursorWrite ==
  ASSUME TypeOK, NEW w \in Worker, WorkerInv(w), SaveSeed(w) \/ Advance(w)
  PROVE  \E n \in MessageId : /\ UpdateCursor(current[w], n)
                        /\ n <= Len(History(current[w]))
                        /\ Covered(current[w], n)
<1> DEFINE s == current[w]
<1>1. /\ s \in DOMAIN channelOf
      /\ snapshot[w][s] \in MessageId \cup {NoCursor}
      /\ snapshot[w][s] <= Len(History(s))
      /\ Covered(s, snapshot[w][s])
  BY CurrentSource, SnapshotRange DEF WorkerInv, SnapshotsCovered, SaveSeed, Advance
<1>2. CASE SaveSeed(w)
  BY <1>1, <1>2 DEF SaveSeed, WorkerInv, LocalsInRange
<1>3. CASE Advance(w)
  <2> DEFINE o == OrZero(snapshot[w][s])
  <2>1. PICK n \in batch[w] : UpdateCursor(s, Greatest(o, n))
    BY <1>3 DEF Advance
  <2>2. n \in DOMAIN History(s) /\ Covered(s, n)
    BY <1>3 DEF Advance, WorkerInv, LocalsInRange, BatchStored
  <2>3. n \in Nat /\ n <= Len(History(s)) /\ Len(History(s)) \in Nat
    BY <1>1, <2>2, EntryType
  <2>4. o \in Nat /\ o <= Len(History(s))
    BY <1>1, <2>3 DEF OrZero
  <2>5. Covered(s, o)
    <3>1. \A i \in DOMAIN History(s) : i \in Nat \ {0}
      BY <1>1, EntryType
    <3> QED BY <1>1, <3>1 DEF OrZero, Covered, NoCursor
  <2> QED BY <2>1, <2>2, <2>3, <2>4, <2>5 DEF Greatest
<1> QED BY <1>2, <1>3

\* Every step leaves the cursors, the rows and the set of messages alone, or
\* is one of five.
LEMMA FiveWriters ==
  ASSUME [Next]_vars
  PROVE  \/ UNCHANGED <<cursor, tracked>> /\ stored' \subseteq stored
         \/ \E c \in Channel : Track(c)
         \/ \E s \in Source : Untrack(s)
         \/ \E w \in Worker : SaveSeed(w) \/ Advance(w)
         \/ \E w \in Worker : InsertMessages(w)
<1>1. CASE (\E c \in Channel, k \in Kinds : Publish(c, k)) \/ AdvanceHorizon \/ Maintain
           \/ (\E s \in Source : BackoffExpires(s)) \/ UNCHANGED vars
  BY <1>1 DEF Publish, AdvanceHorizon, Maintain, BackoffExpires, vars, logVars
<1>2. ASSUME NEW w \in Worker, Step(w) \/ CallFails(w) \/ StartFails(w) \/ AbandonTick(w) \/ Crash(w)
      PROVE  \/ UNCHANGED logVars
             \/ SaveSeed(w) \/ Advance(w)
             \/ InsertMessages(w)
  BY <1>2 DEF Step, BeginSync, StartSource, SeedCursor, FetchSince, Finish, FetchDenied,
       HandleSourceError, EndSync, CallFails, StartFails, AbandonTick, Crash
<1>3. UNCHANGED logVars => UNCHANGED <<cursor, tracked>> /\ stored' \subseteq stored
  BY DEF logVars
<1> QED BY <1>1, <1>2, <1>3 DEF Next

\* Message ids in the database stay ids of the channel.
LEMMA RowsInRangeKept ==
  ASSUME TypeOK, TypeOK', RowsInRange, Kept, \A w \in Worker : WorkerInv(w),
         [Next]_vars
  PROVE  RowsInRange'
<1>1. /\ DOMAIN channelOf \subseteq DOMAIN channelOf'
      /\ \A s \in DOMAIN channelOf : /\ Len(History(s)) \in Nat
                                    /\ Len(History(s)') \in Nat
                                    /\ Len(History(s)) <= Len(History(s)')
                                    /\ DOMAIN History(s) \subseteq DOMAIN History(s)'
  <2>1. ASSUME NEW s \in DOMAIN channelOf
        PROVE  Len(History(s)) \in Nat /\ Len(History(s)') \in Nat
    <3>1. History(s)' \in Seq(Entry)
      BY DEF TypeOK, History, Kept
    <3> QED BY <3>1, HistoryType
  <2> QED BY <2>1 DEF Kept
<1>2. DOMAIN channelOf \subseteq Source
  BY DEF TypeOK, Source
<1>3. \A s \in tracked : s \in DOMAIN channelOf /\ cursor[s] <= Len(History(s)')
  <2> SUFFICES ASSUME NEW s \in tracked
               PROVE  s \in DOMAIN channelOf /\ cursor[s] <= Len(History(s)')
    OBVIOUS
  <2>1. s \in DOMAIN channelOf /\ cursor[s] \in Int
    BY <1>2 DEF TypeOK, NoCursor
  <2> QED BY <1>1, <2>1 DEF RowsInRange
<1>4. \A m \in stored : m[2] \in DOMAIN History(m[1])'
  <2>1. \A m \in stored : m[1] \in DOMAIN channelOf /\ m[2] \in DOMAIN History(m[1])
    BY DEF RowsInRange, TypeOK
  <2> QED BY <1>1, <2>1
<1>5. CASE UNCHANGED <<cursor, tracked>> /\ stored' \subseteq stored
  BY <1>3, <1>4, <1>5 DEF RowsInRange
<1>6. CASE \E c \in Channel : Track(c)
  <2>1. /\ stored' = stored /\ cursor' = cursor
        /\ tracked' = tracked \cup {Len(channelOf) + 1}
        /\ Len(channelOf) + 1 \in Source
        /\ Len(channelOf) + 1 \in DOMAIN channelOf'
        /\ Len(channelOf) + 1 \notin tracked
    BY <1>6 DEF Track, TypeOK, Source
  <2>2. cursor[Len(channelOf) + 1] = -1
    BY <2>1 DEF RowsInRange, NoCursor
  <2>3. Len(History(Len(channelOf) + 1)') \in Nat
    <3>1. \A s \in DOMAIN channelOf' : History(s)' \in Seq(Entry)
      BY DEF TypeOK, History
    <3> QED BY <2>1, <3>1
  <2> QED BY <1>3, <1>4, <2>1, <2>2, <2>3 DEF RowsInRange
<1>7. CASE \E s \in Source : Untrack(s)
  BY <1>3, <1>4, <1>7 DEF Untrack, RowsInRange, TypeOK
<1>8. CASE \E w \in Worker : SaveSeed(w) \/ Advance(w)
  <2>1. PICK w \in Worker : SaveSeed(w) \/ Advance(w)
    BY <1>8
  <2>2. stored' = stored /\ tracked' = tracked
    BY <2>1 DEF SaveSeed, Advance
  <2>3. PICK n \in MessageId : /\ UpdateCursor(current[w], n)
                         /\ n <= Len(History(current[w]))
    BY <2>1, CursorWrite
  <2>4. PICK s \in DOMAIN channelOf : s = current[w]
    BY <2>1, CurrentSource DEF SaveSeed, Advance, WorkerInv
  <2>5. UpdateCursor(s, n) /\ n <= Len(History(s)')
    BY <1>1, <2>3, <2>4
  <2>6. \A r \in Source : \/ cursor'[r] = cursor[r]
                          \/ r = s /\ r \in tracked /\ cursor'[r] \in {n, OrZero(cursor[r])}
    BY <2>5 DEF UpdateCursor, Greatest, TypeOK
  <2>7. \A r \in tracked : cursor'[r] <= Len(History(r)')
    BY <1>1, <1>2, <1>3, <2>5, <2>6 DEF OrZero
  <2> QED BY <1>4, <2>2, <2>6, <2>7 DEF RowsInRange
<1>9. CASE \E w \in Worker : InsertMessages(w)
  <2>1. PICK w \in Worker : InsertMessages(w)
    BY <1>9
  <2>2. UNCHANGED <<cursor, tracked>>
    BY <2>1 DEF InsertMessages
  <2>3. PICK s \in DOMAIN channelOf : s = current[w]
    BY <2>1, CurrentSource DEF InsertMessages, WorkerInv
  <2>4. batch[w] \subseteq DOMAIN History(s)
    BY <2>1, <2>3 DEF InsertMessages, WorkerInv, LocalsInRange
  <2>5. \A m \in stored' : m \in stored \/ (m[1] = s /\ m[2] \in batch[w])
    BY <2>1, <2>3 DEF InsertMessages, Fresh
  <2>6. \A m \in stored' : m[2] \in DOMAIN History(m[1])'
    BY <1>1, <1>4, <2>4, <2>5
  <2> QED BY <1>3, <2>2, <2>6 DEF RowsInRange
<1> QED BY <1>5, <1>6, <1>7, <1>8, <1>9, FiveWriters

LEMMA NoLossKept ==
  ASSUME TypeOK, TypeOK', RowsInRange, Kept, NoLoss, \A w \in Worker : WorkerInv(w),
         [Next]_vars
  PROVE  NoLoss'
<1>1. ASSUME NEW s \in tracked
      PROVE  /\ cursor[s] \in Int
             /\ \A n \in Int : n <= Len(History(s)) /\ Covered(s, n) => Covered(s, n)'
             /\ Covered(s, cursor[s])
             /\ cursor[s] <= Len(History(s))
  <2>1. s \in DOMAIN channelOf /\ s \in Source
    BY DEF TypeOK, Source
  <2>2. cursor[s] \in Int
    BY <2>1 DEF TypeOK, NoCursor
  <2> QED BY <2>1, <2>2, CoveredKept DEF NoLoss, RowsInRange
<1>2. ASSUME NEW s \in tracked', NEW n, n = cursor'[s],
             s \in tracked /\ n = cursor[s]
      PROVE  Covered(s, n)'
  BY <1>1, <1>2
<1>3. ASSUME NEW s \in tracked', NEW n, n = -1
      PROVE  Covered(s, n)'
  <2>1. s \in DOMAIN channelOf' /\ History(s)' \in Seq(Entry)
    BY DEF TypeOK, History
  <2> QED BY <1>3, <2>1 DEF Covered
<1> SUFFICES ASSUME NEW s \in tracked', NEW n, n = cursor'[s]
             PROVE  Covered(s, n)'
  BY DEF NoLoss, Covered
<1>4. CASE UNCHANGED <<cursor, tracked>>
  BY <1>2, <1>4
<1>5. CASE \E c \in Channel : Track(c)
  <2>1. /\ cursor' = cursor
        /\ s \in tracked \/ s \in Source \ tracked
    BY <1>5 DEF Track, TypeOK, Source
  <2>2. s \in tracked \/ cursor'[s] = -1
    BY <2>1 DEF RowsInRange, NoCursor
  <2> QED BY <1>2, <1>3, <2>1, <2>2
<1>6. CASE \E r \in Source : Untrack(r)
  <2>1. s \in tracked /\ cursor'[s] = cursor[s]
    BY <1>6 DEF Untrack, TypeOK
  <2> QED BY <1>2, <2>1
<1>7. CASE \E w \in Worker : SaveSeed(w) \/ Advance(w)
  <2>1. PICK w \in Worker : SaveSeed(w) \/ Advance(w)
    BY <1>7
  <2>2. PICK m \in MessageId : /\ UpdateCursor(current[w], m)
                         /\ m <= Len(History(current[w]))
                         /\ Covered(current[w], m)
    BY <2>1, CursorWrite
  <2>3. s \in tracked /\ s \in Source
    BY <2>1 DEF SaveSeed, Advance, TypeOK, Source
  <2>4. CASE s = current[w]
    <3>1. n \in {m, OrZero(cursor[s])}
      BY <2>2, <2>3, <2>4 DEF UpdateCursor, Greatest, TypeOK
    <3>2. CASE n = m
      BY <1>1, <2>2, <2>3, <2>4, <3>2
    <3>3. CASE n = OrZero(cursor[s]) /\ cursor[s] # NoCursor
      BY <1>1, <2>3, <3>3 DEF OrZero
    <3>4. CASE n = 0
      <4>1. s \in DOMAIN channelOf' /\ History(s)' \in Seq(Entry)
        BY DEF TypeOK, History
      <4> QED BY <3>4, <4>1 DEF Covered
    <3> QED BY <3>1, <3>2, <3>3, <3>4 DEF OrZero
  <2>5. CASE s # current[w]
    <3>1. cursor'[s] = cursor[s]
      BY <2>2, <2>3, <2>5 DEF UpdateCursor, TypeOK
    <3> QED BY <1>2, <2>3, <3>1
  <2> QED BY <2>4, <2>5
<1>8. CASE \E w \in Worker : InsertMessages(w)
  BY <1>4, <1>8 DEF InsertMessages
<1> QED BY <1>4, <1>5, <1>6, <1>7, <1>8, FiveWriters

LEMMA NoGapKept ==
  ASSUME TypeOK, TypeOK', RowsInRange, Kept, NoGap, \A w \in Worker : WorkerInv(w),
         [Next]_vars
  PROVE  NoGap'
<1>1. ASSUME NEW m \in stored
      PROVE  Covered(m[1], m[2])'
  <2>1. /\ m[1] \in DOMAIN channelOf
        /\ m[2] \in DOMAIN History(m[1])
        /\ Covered(m[1], m[2])
    BY DEF TypeOK, RowsInRange, NoGap
  <2>2. m[2] \in Int /\ m[2] <= Len(History(m[1]))
    BY <2>1, EntryType
  <2> QED BY <2>1, <2>2, CoveredKept
<1>2. CASE stored' \subseteq stored
  BY <1>1, <1>2 DEF NoGap
<1>3. CASE \E w \in Worker : InsertMessages(w)
  <2>1. PICK w \in Worker : InsertMessages(w)
    BY <1>3
  <2>2. CASE stored' = stored
    BY <1>2, <2>2
  <2>3. CASE stored' = stored \cup ({current[w]} \X Fresh(w))
    <3>1. /\ pc[w] = "insert"
          /\ UNCHANGED <<history, horizon, channelOf, current>>
      BY <2>1 DEF InsertMessages
    <3>2. \A n \in batch[w] : Covered(current[w], n)'
      BY <2>3, <3>1, InsertCovers
    <3>3. \A m \in stored' : m \in stored \/ (m[1] = current[w] /\ m[2] \in batch[w])
      BY <2>3 DEF Fresh
    <3>4. ASSUME NEW m \in stored', m \notin stored
          PROVE  Covered(m[1], m[2])'
      <4>1. m[1] = current[w] /\ m[2] \in batch[w] /\ current' = current
        BY <3>1, <3>3, <3>4
      <4>2. Covered(current[w], m[2])'
        BY <3>2, <4>1
      <4> QED BY <4>1, <4>2 DEF Covered, History
    <3> QED BY <1>1, <3>4 DEF NoGap
  <2> QED BY <2>1, <2>2, <2>3 DEF InsertMessages
<1>4. CASE \/ \E c \in Channel : Track(c)
           \/ \E s \in Source : Untrack(s)
           \/ \E w \in Worker : SaveSeed(w) \/ Advance(w)
  BY <1>2, <1>4 DEF Track, Untrack, SaveSeed, Advance
<1> QED BY <1>2, <1>3, <1>4, FiveWriters

-----------------------------------------------------------------------------
(* The theorems *)

LEMMA InitIInv == Init => IInv
<1> SUFFICES ASSUME Init
             PROVE  IInv
  OBVIOUS
<1>1. TypeOK
  BY InitTypeOK
<1>2. Calendar
  BY InitHistoryAssumption DEF Init, LogInit, Calendar, Now
<1>3. RowsInRange /\ NoLoss /\ NoGap
  BY DEF Init, LogInit, RowsInRange, NoLoss, NoGap
<1>4. \A w \in Worker : WorkerInv(w)
  BY DEF Init, LogInit, WorkerInv, LocalsInRange, SnapshotsCovered, BatchComplete,
         BatchStored
<1> QED BY <1>1, <1>2, <1>3, <1>4 DEF IInv

LEMMA TypesKept ==
  ASSUME IInv, [Next]_vars
  PROVE  TypeOK'
<1>1. CASE UNCHANGED vars
  BY <1>1 DEF IInv, TypeOK, vars, logVars, rowVars, workerVars
<1>2. CASE Next
  BY <1>2, EnvironmentKeepsTypes, WorkerKeepsTypes DEF Next, IInv, WorkerInv
<1> QED BY <1>1, <1>2

LEMMA NextIInv ==
  ASSUME IInv, [Next]_vars
  PROVE  IInv'
<1>1. /\ TypeOK /\ Calendar /\ RowsInRange /\ NoLoss /\ NoGap
      /\ \A w \in Worker : WorkerInv(w)
      /\ TypeOK'
  BY TypesKept DEF IInv
<1>2. Kept
  BY <1>1, StepKeeps
<1>3. \A w \in Worker : WorkerInv(w)'
  <2>1. CASE UNCHANGED workerVars
    <3> SUFFICES ASSUME NEW w \in Worker
                 PROVE  WorkerInv(w)'
      OBVIOUS
    <3> QED BY <1>1, <1>2, <2>1, Undisturbed DEF workerVars
  <2>2. CASE \E w \in Worker : Step(w) \/ CallFails(w) \/ StartFails(w) \/ AbandonTick(w) \/ Crash(w)
    <3>1. PICK v \in Worker : Step(v) \/ CallFails(v) \/ StartFails(v) \/ AbandonTick(v) \/ Crash(v)
      BY <2>2
    <3>2. WorkerInv(v)'
      BY <1>1, <3>1, ActorKeeps
    <3>3. ASSUME NEW w \in Worker, w # v
          PROVE  WorkerInv(w)'
      <4>1. /\ pc'[w] = pc[w] /\ todo'[w] = todo[w] /\ current'[w] = current[w]
            /\ snapshot'[w] = snapshot[w] /\ cutoff'[w] = cutoff[w]
            /\ batch'[w] = batch[w]
        BY <1>1, <3>1, <3>3
        DEF Step, BeginSync, StartSource, SeedCursor, SaveSeed, FetchSince,
            InsertMessages, Advance, Finish, FetchDenied, HandleSourceError, EndSync,
            CallFails, StartFails, AbandonTick, Crash, NextSource, Forget, Goto, TypeOK
      <4> QED BY <1>1, <1>2, <4>1, Undisturbed
    <3> QED BY <3>2, <3>3
  <2>3. UNCHANGED workerVars \/ \E w \in Worker : Step(w) \/ CallFails(w) \/ StartFails(w) \/ AbandonTick(w) \/ Crash(w)
    BY DEF Next, Publish, AdvanceHorizon, Maintain, Track, Untrack, BackoffExpires, vars
  <2> QED BY <2>1, <2>2, <2>3
<1>4. Calendar' /\ RowsInRange' /\ NoLoss' /\ NoGap'
  BY <1>1, <1>2, CalendarKept, RowsInRangeKept, NoLossKept, NoGapKept
<1> QED BY <1>1, <1>3, <1>4 DEF IInv

\* The strengthening is an invariant.
THEOREM Invariance == Spec => []IInv
  BY InitIInv, NextIInv, PTL DEF Spec

\* Every variable of the sync loop always has a value of its kind.
THEOREM TypeCorrect == Spec => []TypeOK
<1>1. IInv => TypeOK
  BY DEF IInv
<1> QED BY <1>1, Invariance, PTL

\* No post is lost: what the cursor of a source has passed is stored or has
\* expired, for any number of concurrent workers, crashes and failed calls.
THEOREM NothingLost == Spec => []NoLoss
<1>1. IInv => NoLoss
  BY DEF IInv
<1> QED BY <1>1, Invariance, PTL

\* The store has no holes.
THEOREM NoHoles == Spec => []NoGap
<1>1. IInv => NoGap
  BY DEF IInv
<1> QED BY <1>1, Invariance, PTL

\* A row's cursor, as the writers of cursors leave it.
LEMMA CursorMoves ==
  ASSUME IInv, NEW w \in Worker, SaveSeed(w) \/ Advance(w)
  PROVE  \E s \in DOMAIN channelOf, n \in MessageId :
           /\ n <= Len(History(s)) /\ n \in DOMAIN History(s)
           /\ Covered(s, n)
           /\ \/ s \in tracked /\ n > cursor[s] /\ cursor' = [cursor EXCEPT ![s] = n]
              \/ cursor' = cursor
<1>1. PICK n \in MessageId : /\ UpdateCursor(current[w], n)
                             /\ n <= Len(History(current[w]))
                             /\ Covered(current[w], n)
  BY CursorWrite DEF IInv
<1>2. PICK s \in DOMAIN channelOf : s = current[w]
  BY CurrentSource DEF SaveSeed, Advance, IInv, WorkerInv
<1>3. /\ s \in Source
      /\ cursor \in [Source -> MessageId \cup {NoCursor}]
      /\ Len(History(s)) \in Nat /\ DOMAIN History(s) = 1..Len(History(s))
  BY HistoryType DEF IInv, TypeOK, Source
<1>4. cursor' = [cursor EXCEPT ![s] =
                   IF s \in tracked THEN Greatest(OrZero(cursor[s]), n) ELSE cursor[s]]
  BY <1>1, <1>2, <1>3 DEF UpdateCursor
<1>5. /\ n > cursor[s] => Greatest(OrZero(cursor[s]), n) = n
      /\ ~ (n > cursor[s]) => Greatest(OrZero(cursor[s]), n) = cursor[s]
  BY <1>3 DEF Greatest, OrZero, NoCursor
<1>6. CASE s \in tracked /\ n > cursor[s]
  <2>1. cursor' = [cursor EXCEPT ![s] = n]
    BY <1>4, <1>5, <1>6
  <2>2. n <= Len(History(s)) /\ n \in DOMAIN History(s) /\ Covered(s, n)
    BY <1>1, <1>2, <1>3
  <2> QED BY <1>6, <2>1, <2>2
<1>7. CASE ~ (s \in tracked /\ n > cursor[s])
  <2>1. cursor' = cursor
    BY <1>3, <1>4, <1>5, <1>7
  <2>2. n <= Len(History(s)) /\ n \in DOMAIN History(s) /\ Covered(s, n)
    BY <1>1, <1>2, <1>3
  <2> QED BY <2>1, <2>2
<1> QED BY <1>6, <1>7

\* The cursor of a source never moves back.
THEOREM CursorMonotone == Spec => CursorNeverMovesBack
<1>1. ASSUME IInv, [Next]_vars
      PROVE  [\A s \in tracked : s \in tracked' => cursor'[s] >= cursor[s]]_vars
  <2>1. cursor \in [Source -> Int] /\ tracked \subseteq Source
    BY <1>1 DEF IInv, TypeOK, Source, NoCursor
  <2>2. CASE \E w \in Worker : SaveSeed(w) \/ Advance(w)
    <3>1. PICK s \in Source, n \in Nat :
            \/ n > cursor[s] /\ cursor' = [cursor EXCEPT ![s] = n]
            \/ cursor' = cursor
      <4>1. DOMAIN channelOf \subseteq Source
        BY <1>1 DEF IInv, TypeOK, Source
      <4> QED BY <1>1, <2>2, <4>1, CursorMoves
    <3> QED BY <2>1, <3>1
  <2>3. CASE UNCHANGED cursor
    BY <2>1, <2>3
  <2>4. CASE \E s \in Source : Untrack(s)
    BY <2>1, <2>4 DEF Untrack
  <2>5. UNCHANGED cursor \/ (\E s \in Source : Untrack(s))
          \/ \E w \in Worker : SaveSeed(w) \/ Advance(w)
    BY <1>1, FiveWriters DEF Track, InsertMessages
  <2> QED BY <2>2, <2>3, <2>4, <2>5
<1> QED BY <1>1, Invariance, PTL DEF Spec, CursorNeverMovesBack

-----------------------------------------------------------------------------
(* The sync loop implements MessageLog *)

LEMMA InsertIsDelivery ==
  ASSUME IInv, IInv', NEW w \in Worker, InsertMessages(w)
  PROVE  Log!Next \/ UNCHANGED logVars
<1>1. /\ UNCHANGED <<history, horizon, channelOf, tracked, cursor>>
      /\ pc[w] = "insert"
  BY DEF InsertMessages
<1>2. CASE stored' = stored
  BY <1>1, <1>2 DEF logVars
<1>3. CASE stored' = stored \cup ({current[w]} \X Fresh(w))
  <2>1. PICK s \in DOMAIN channelOf : s = current[w]
    BY <1>1, CurrentSource DEF IInv, WorkerInv
  <2>2. PICK posts \in SUBSET DOMAIN History(s) : posts = Fresh(w)
    BY <1>1, <2>1 DEF IInv, WorkerInv, LocalsInRange, Fresh
  <2>3. \A i \in posts : History(s)[i].kind = "post"
    BY <1>1, <2>1, <2>2 DEF IInv, WorkerInv, BatchComplete, Fresh
  <2>4. stored' = stored \cup ({s} \X posts)
    BY <1>3, <2>1, <2>2
  <2>5. \A i \in posts : \A j \in DOMAIN History(s) :
          j < i /\ Live(History(s)[j]) => <<s, j>> \in stored'
    <3> SUFFICES ASSUME NEW i \in posts, NEW j \in DOMAIN History(s), j < i,
                        Live(History(s)[j])
                 PROVE  <<s, j>> \in stored'
      OBVIOUS
    <3>1. <<s, i>> \in stored'
      BY <2>4
    <3>2. \A m \in stored' : Covered(m[1], m[2])'
      BY DEF IInv, NoGap
    <3>3. Covered(s, i)'
      BY <3>1, <3>2
    <3>4. i \in Nat /\ j \in Nat
      BY EntryType DEF IInv
    <3> QED BY <1>1, <3>3, <3>4 DEF Covered, History, Live
  <2>6. Log!Deliver(s, posts)
    BY <1>1, <2>3, <2>4, <2>5 DEF Log!Deliver, Log!History, Log!Live, History, Live
  <2> QED BY <2>6 DEF Log!Next, Log!History, History
<1> QED BY <1>2, <1>3 DEF InsertMessages

LEMMA StepImplements ==
  ASSUME IInv, IInv', [Next]_vars
  PROVE  Log!Next \/ UNCHANGED logVars
<1>1. CASE \E c \in Channel, k \in Kinds : Publish(c, k)
  BY <1>1 DEF Publish, Now, Kinds, Log!Next, Log!Publish, Log!Now, Log!Kinds
<1>2. CASE AdvanceHorizon
  BY <1>2 DEF AdvanceHorizon, Log!Next, Log!AdvanceHorizon
<1>3. CASE Maintain
  <2>1. \A m \in stored \ stored' : ~ Live(History(m[1])[m[2]])
    <3> SUFFICES ASSUME NEW m \in stored, m \notin stored'
                 PROVE  ~ Live(History(m[1])[m[2]])
      OBVIOUS
    <3>1. PICK day \in floor + 1 .. horizon :
            stored' = {x \in stored : History(x[1])[x[2]].date >= day}
      BY <1>3 DEF Maintain
    <3>2. m[1] \in DOMAIN channelOf /\ m[2] \in DOMAIN History(m[1])
      BY DEF IInv, RowsInRange, TypeOK
    <3>3. History(m[1])[m[2]].date \in Nat
      BY <3>2, EntryType DEF IInv
    <3>4. ~ (History(m[1])[m[2]].date >= day)
      BY <3>1
    <3>5. horizon \in Nat /\ floor \in Nat
      BY DEF IInv, TypeOK
    <3> QED BY <3>1, <3>3, <3>4, <3>5 DEF Live
  <2>2. stored' = stored \ (stored \ stored')
    BY <1>3 DEF Maintain
  <2>3. Log!Expire(stored \ stored')
    BY <1>3, <2>1, <2>2 DEF Maintain, Log!Expire, Log!History, Log!Live, History, Live
  <2> QED BY <2>3 DEF Log!Next
<1>4. CASE \E c \in Channel : Track(c)
  BY <1>4 DEF Track, Log!Next, Log!Track
<1>5. CASE \E s \in Source : Untrack(s)
  BY <1>5 DEF Untrack, Log!Next, Log!Untrack, NoCursor, Log!NoCursor
<1>6. CASE \E w \in Worker : SaveSeed(w) \/ Advance(w)
  <2>1. UNCHANGED <<history, horizon, channelOf, tracked, stored>>
    BY <1>6 DEF SaveSeed, Advance
  <2>2. PICK s \in DOMAIN channelOf, n \in MessageId :
           /\ n \in DOMAIN History(s)
           /\ Covered(s, n)
           /\ \/ s \in tracked /\ n > cursor[s] /\ cursor' = [cursor EXCEPT ![s] = n]
              \/ cursor' = cursor
    BY <1>6, CursorMoves
  <2>3. CASE cursor' = cursor
    BY <2>1, <2>3 DEF logVars
  <2>4. CASE s \in tracked /\ n > cursor[s] /\ cursor' = [cursor EXCEPT ![s] = n]
    <3>1. Log!Acknowledge(s, n)
      BY <2>1, <2>2, <2>4 DEF Log!Acknowledge, Log!Covered, Log!History, Log!Live,
         Covered, History, Live
    <3> QED BY <2>2, <2>4, <3>1 DEF Log!Next, Log!History, History
  <2> QED BY <2>2, <2>3, <2>4
<1>7. CASE \E w \in Worker : InsertMessages(w)
  BY <1>7, InsertIsDelivery
<1>8. ASSUME NEW w \in Worker,
             \/ BeginSync(w) \/ StartSource(w) \/ SeedCursor(w) \/ FetchSince(w)
             \/ Finish(w) \/ FetchDenied(w) \/ HandleSourceError(w) \/ EndSync(w)
             \/ CallFails(w) \/ StartFails(w) \/ AbandonTick(w) \/ Crash(w)
      PROVE  UNCHANGED logVars
  BY <1>8 DEF BeginSync, StartSource, SeedCursor, FetchSince, Finish, FetchDenied,
     HandleSourceError, EndSync, CallFails, StartFails, AbandonTick, Crash
<1>9. CASE (\E s \in Source : BackoffExpires(s)) \/ UNCHANGED vars
  BY <1>9 DEF BackoffExpires, vars
<1> QED BY <1>1, <1>2, <1>3, <1>4, <1>5, <1>6, <1>7, <1>8, <1>9 DEF Next, Step

\* The sync loop keeps the promise of MessageLog: deliveries in the order of
\* the channel, the cursor behind them, rows removed only after the window.
THEOREM Refinement == Spec => ImplementsMessageLog
<1>1. Init => Log!LogInit
  BY DEF Init, LogInit, Log!LogInit, Source, Log!Source, NoCursor, Log!NoCursor
<1>2. ASSUME IInv, IInv', [Next]_vars
      PROVE  [Log!Next]_(Log!logVars)
  BY <1>2, StepImplements DEF logVars, Log!logVars
<1> QED BY <1>1, <1>2, Invariance, PTL DEF Spec, ImplementsMessageLog, Log!Spec
=============================================================================
