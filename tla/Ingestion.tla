----------------------------- MODULE Ingestion ------------------------------
(***************************************************************************)
(* The sync loop of one user: Ingestor.syncUser (workers/ingestor.ts) and   *)
(* everything it calls to move posts from Telegram into PostgreSQL, next to *)
(* the bot that adds and removes sources, the maintenance job that drops    *)
(* partitions, and Telegram itself.                                         *)
(*                                                                          *)
(* Several workers may run syncUser for the same user at the same time: the *)
(* lease in telegram_sessions is not renewed or looked at while a tick runs *)
(* (Leases.tla).  Whatever syncUser reads before an await - the source rows,*)
(* the cutoff, the page - is a variable of the worker here, and every query *)
(* is one step.                                                             *)
(***************************************************************************)
EXTENDS Channels, FiniteSets

CONSTANTS
  Worker,       \* the ingestor processes
  FetchLimit,   \* FETCH_LIMIT: entries per getMessages call
  Unreadable,   \* channels every read of which fails (banned, made private)
  MaxHistory,   \* bound: entries per channel
  MaxHorizon,   \* bound: days that pass
  MaxFaults,    \* bound: failed calls and crashes
  FilteredRun   \* bound: consecutive entries of a channel that are no posts

ASSUME FetchLimitAssumption == FetchLimit \in Nat \ {0}

VARIABLES
  floor,        \* the first day of the oldest partition of "messages"
  syncStatus,   \* sources.sync_status
  backoff,      \* whether sources.backoff_until is in the future
  pc,           \* where each worker is in syncUser
  todo,         \* the rows of getSyncableSources it has still to process
  current,      \* the source it is processing, or NoSource
  snapshot,     \* source.cursorMessageId in the worker's memory
  cutoff,       \* the retention cutoff it computed
  batch,        \* the ids of the messages fetchSince returned
  faults        \* how many calls have failed so far

rowVars == <<syncStatus, backoff>>
workerVars == <<pc, todo, current, snapshot, cutoff, batch>>
vars == <<logVars, floor, rowVars, workerVars, faults>>

NoSource == 0

SyncStatus == {"idle", "syncing", "error"}

(***************************************************************************)
(* "idle"    not in syncUser                                                *)
(* "next"    at the head of the loop over the sources                       *)
(* "seed"    about to call seedCursor                                       *)
(* "save"    about to write the seed                                        *)
(* "fetch"   about to call fetchSince                                       *)
(* "insert"  about to call insertMessages                                   *)
(* "advance" about to write the new cursor                                  *)
(* "finish"  about to mark the source idle                                  *)
(* "failed"  in the catch block of the loop body                            *)
(***************************************************************************)
Location ==
  {"idle", "next", "seed", "save", "fetch", "insert", "advance", "finish", "failed"}

Init ==
  /\ LogInit
  /\ floor = 0
  /\ syncStatus = [s \in Source |-> "idle"]
  /\ backoff = [s \in Source |-> FALSE]
  /\ pc = [w \in Worker |-> "idle"]
  /\ todo = [w \in Worker |-> {}]
  /\ current = [w \in Worker |-> NoSource]
  /\ snapshot = [w \in Worker |-> [s \in Source |-> NoCursor]]
  /\ cutoff = [w \in Worker |-> 0]
  /\ batch = [w \in Worker |-> {}]
  /\ faults = 0

-----------------------------------------------------------------------------
(* Telegram and the calendar *)

\* The last FilteredRun entries of c are not posts.
TailIsFiltered(c) ==
  /\ Len(history[c]) >= FilteredRun
  /\ \A i \in DOMAIN history[c] :
       i > Len(history[c]) - FilteredRun => history[c][i].kind # "post"

Publish(c, k) ==
  /\ Len(history[c]) < MaxHistory
  /\ k # "post" => ~ TailIsFiltered(c)
  /\ history' = [history EXCEPT ![c] = Append(@, [date |-> Now, kind |-> k])]
  /\ UNCHANGED <<horizon, channelOf, tracked, cursor, stored>>
  /\ UNCHANGED <<floor, rowVars, workerVars, faults>>

AdvanceHorizon ==
  /\ horizon < MaxHorizon
  /\ horizon' = horizon + 1
  /\ UNCHANGED <<history, channelOf, tracked, cursor, stored>>
  /\ UNCHANGED <<floor, rowVars, workerVars, faults>>

(***************************************************************************)
(* runMaintenance drops the monthly partitions that end before the month of *)
(* the cutoff.  Months are not modelled: the new floor is any day up to the *)
(* cutoff, so the partitions kept reach back at least to the cutoff.        *)
(***************************************************************************)
Maintain ==
  /\ \E day \in floor + 1 .. horizon :
       /\ floor' = day
       /\ stored' = {m \in stored : History(m[1])[m[2]].date >= day}
  /\ UNCHANGED <<history, horizon, channelOf, tracked, cursor>>
  /\ UNCHANGED <<rowVars, workerVars, faults>>

-----------------------------------------------------------------------------
(* The bot *)

\* createSource, for a channel without a row (the upsert of one that has a
\* row changes nothing that is modelled).
Track(c) ==
  /\ Len(channelOf) < MaxSources
  /\ \A s \in tracked : channelOf[s] # c
  /\ channelOf' = Append(channelOf, c)
  /\ tracked' = tracked \cup {Len(channelOf) + 1}
  /\ UNCHANGED <<history, horizon, cursor, stored>>
  /\ UNCHANGED <<floor, rowVars, workerVars, faults>>

\* deleteSource.  No foreign key leads from messages to sources: the messages
\* stay, and so does the copy of the row in the memory of a running sync.
Untrack(s) ==
  /\ s \in tracked
  /\ tracked' = tracked \ {s}
  /\ cursor' = [cursor EXCEPT ![s] = NoCursor]
  /\ syncStatus' = [syncStatus EXCEPT ![s] = "idle"]
  /\ backoff' = [backoff EXCEPT ![s] = FALSE]
  /\ UNCHANGED <<history, horizon, channelOf, stored, floor, workerVars, faults>>

-----------------------------------------------------------------------------
(* The queries of storage/sources.ts; a row that is gone is not updated.    *)

MarkSyncStatus(s, status, wait) ==
  /\ syncStatus' = [syncStatus EXCEPT ![s] = IF s \in tracked THEN status ELSE @]
  /\ backoff' = [backoff EXCEPT ![s] = IF s \in tracked THEN wait ELSE @]

\* coalesce(n, 0), also the minId that a NULL cursor stands for
OrZero(n) == IF n = NoCursor THEN 0 ELSE n

\* Wrong: the last writer wins.
Latest(m, n) == n

Greatest(m, n) == IF m > n THEN m ELSE n

\* Wrong: the row is written again when it has been deleted.
UpsertCursor(s, n) ==
  /\ cursor' = [cursor EXCEPT ![s] = Greatest(OrZero(@), n)]
  /\ MarkSyncStatus(s, "idle", FALSE)

UpdateCursor(s, n) ==
  /\ cursor' = [cursor EXCEPT ![s] =
                  IF s \in tracked THEN Greatest(OrZero(@), n) ELSE @]
  /\ MarkSyncStatus(s, "idle", FALSE)

-----------------------------------------------------------------------------
(* syncUser *)

Goto(w, location) == pc' = [pc EXCEPT ![w] = location]

\* The worker leaves syncUser, and its local variables go out of scope.
Forget(w) ==
  /\ Goto(w, "idle")
  /\ todo' = [todo EXCEPT ![w] = {}]
  /\ current' = [current EXCEPT ![w] = NoSource]
  /\ snapshot' = [snapshot EXCEPT ![w] = [s \in Source |-> NoCursor]]
  /\ cutoff' = [cutoff EXCEPT ![w] = 0]
  /\ batch' = [batch EXCEPT ![w] = {}]

(***************************************************************************)
(* The cutoff is computed and the rows are read once, before the loop.  The *)
(* back-off deadline of a row is compared with the clock when the loop gets *)
(* to it: "elapsed" are the rows whose deadline passes before that.         *)
(***************************************************************************)
\* Wrong: a source that is being synced is left to the worker syncing it.
NotBusy(s, elapsed) == syncStatus[s] # "syncing" /\ (backoff[s] => s \in elapsed)

Due(s, elapsed) == backoff[s] => s \in elapsed

BeginSync(w) ==
  /\ pc[w] = "idle"
  /\ \E elapsed \in SUBSET {s \in tracked : backoff[s]} :
       todo' = [todo EXCEPT ![w] = {s \in tracked : Due(s, elapsed)}]
  /\ snapshot' = [snapshot EXCEPT ![w] = [s \in Source |->
                      IF s \in todo'[w] THEN cursor[s] ELSE NoCursor]]
  /\ cutoff' = [cutoff EXCEPT ![w] = horizon]
  /\ Goto(w, "next")
  /\ UNCHANGED <<logVars, floor, rowVars, current, batch, faults>>

\* ORDER BY added_at: the oldest source first.
StartSource(w) ==
  /\ pc[w] = "next"
  /\ \E s \in todo[w] :
       /\ \A other \in todo[w] : s <= other
       /\ todo' = [todo EXCEPT ![w] = @ \ {s}]
       /\ current' = [current EXCEPT ![w] = s]
       /\ MarkSyncStatus(s, "syncing", FALSE)
       /\ Goto(w, IF snapshot[w][s] = NoCursor THEN "seed" ELSE "fetch")
  /\ UNCHANGED <<logVars, floor, snapshot, cutoff, batch, faults>>

Readable(w) == channelOf[current[w]] \notin Unreadable

\* Wrong: the last entry of the first day inside the window.
LastWithin(s, day, n) ==
  /\ n \in DOMAIN History(s)
  /\ History(s)[n].date <= day + 1
  /\ \A i \in DOMAIN History(s) : History(s)[i].date <= day + 1 => i <= n

\* The last entry of s dated no later than the cutoff.
LastBefore(s, day, n) ==
  /\ n \in DOMAIN History(s)
  /\ History(s)[n].date <= day
  /\ \A i \in DOMAIN History(s) : History(s)[i].date <= day => i <= n

\* seedCursor asks for one entry and gets null when that is a service message.
SeedCursor(w) ==
  /\ pc[w] = "seed"
  /\ Readable(w)
  /\ LET s == current[w]
         IsSeed(n) == /\ LastBefore(s, cutoff[w], n)
                      /\ History(s)[n].kind # "service"
     IN \/ \E n \in DOMAIN History(s) :
             /\ IsSeed(n)
             /\ snapshot' = [snapshot EXCEPT ![w][s] = n]
             /\ Goto(w, "save")
        \/ /\ \A n \in DOMAIN History(s) : ~ IsSeed(n)
           /\ snapshot' = snapshot
           /\ Goto(w, "fetch")
  /\ UNCHANGED <<logVars, floor, rowVars, todo, current, cutoff, batch, faults>>

SaveSeed(w) ==
  /\ pc[w] = "save"
  /\ UpdateCursor(current[w], snapshot[w][current[w]])
  /\ Goto(w, "fetch")
  /\ UNCHANGED <<history, horizon, channelOf, tracked, stored, floor>>
  /\ UNCHANGED <<todo, current, snapshot, cutoff, batch, faults>>

\* Wrong: without "reverse", the newest entries after n.
NewestPage(s, n) ==
  {i \in DOMAIN History(s) : OrZero(n) < i /\ i > Len(History(s)) - FetchLimit}

\* getMessages(minId: n, reverse: true, limit: FETCH_LIMIT)
Page(s, n) ==
  {i \in DOMAIN History(s) : OrZero(n) < i /\ i <= OrZero(n) + FetchLimit}

\* Service messages and the user's own are left out after the page is cut.
FetchSince(w) ==
  /\ pc[w] = "fetch"
  /\ Readable(w)
  /\ LET s == current[w]
         posts == {i \in Page(s, snapshot[w][s]) : History(s)[i].kind = "post"}
     IN /\ batch' = [batch EXCEPT ![w] = posts]
        /\ Goto(w, IF posts = {} THEN "finish" ELSE "insert")
  /\ UNCHANGED <<logVars, floor, rowVars, todo, current, snapshot, cutoff, faults>>

\* The part of the batch that is not older than the cutoff.
Fresh(w) ==
  {i \in batch[w] : History(current[w])[i].date >= cutoff[w]}

\* A row for a day before the oldest partition makes the INSERT fail.
InsertMessages(w) ==
  /\ pc[w] = "insert"
  /\ IF \E i \in Fresh(w) : History(current[w])[i].date < floor
       THEN stored' = stored /\ Goto(w, "failed")
       ELSE stored' = stored \cup ({current[w]} \X Fresh(w)) /\ Goto(w, "advance")
  /\ UNCHANGED <<history, horizon, channelOf, tracked, cursor, floor, rowVars>>
  /\ UNCHANGED <<todo, current, snapshot, cutoff, batch, faults>>

\* The new cursor is the greatest id of the batch, or the old one.
Advance(w) ==
  /\ pc[w] = "advance"
  /\ \E n \in batch[w] :
       /\ \A i \in batch[w] : i <= n
       /\ UpdateCursor(current[w], Greatest(OrZero(snapshot[w][current[w]]), n))
  /\ Goto(w, "finish")
  /\ UNCHANGED <<history, horizon, channelOf, tracked, stored, floor>>
  /\ UNCHANGED <<todo, current, snapshot, cutoff, batch, faults>>

\* The next source, with nothing of this one kept but its place in the loop.
NextSource(w) ==
  /\ Goto(w, "next")
  /\ current' = [current EXCEPT ![w] = NoSource]
  /\ snapshot' = [snapshot EXCEPT ![w][current[w]] = NoCursor]
  /\ batch' = [batch EXCEPT ![w] = {}]
  /\ UNCHANGED <<todo, cutoff>>

Finish(w) ==
  /\ pc[w] = "finish"
  /\ MarkSyncStatus(current[w], "idle", FALSE)
  /\ NextSource(w)
  /\ UNCHANGED <<logVars, floor, faults>>

\* A channel that cannot be read raises an error in seedCursor or fetchSince.
FetchDenied(w) ==
  /\ pc[w] \in {"seed", "fetch"}
  /\ ~ Readable(w)
  /\ Goto(w, "failed")
  /\ UNCHANGED <<logVars, floor, rowVars, todo, current, snapshot, cutoff, batch, faults>>

\* Wrong: the error ends the loop.
ErrorEndsLoop(w) ==
  /\ pc[w] = "failed"
  /\ MarkSyncStatus(current[w], "error", TRUE)
  /\ Forget(w)
  /\ UNCHANGED <<logVars, floor, faults>>

\* The error stays with the source: the loop goes on.
HandleSourceError(w) ==
  /\ pc[w] = "failed"
  /\ MarkSyncStatus(current[w], "error", TRUE)
  /\ NextSource(w)
  /\ UNCHANGED <<logVars, floor, faults>>

EndSync(w) ==
  /\ pc[w] = "next"
  /\ todo[w] = {}
  /\ Forget(w)
  /\ UNCHANGED <<logVars, floor, rowVars, faults>>

BackoffExpires(s) ==
  /\ backoff[s]
  /\ backoff' = [backoff EXCEPT ![s] = FALSE]
  /\ UNCHANGED <<logVars, floor, syncStatus, workerVars, faults>>

-----------------------------------------------------------------------------
(* Faults *)

\* A call to Telegram or PostgreSQL inside the try block fails.
CallFails(w) ==
  /\ pc[w] \in {"seed", "save", "fetch", "insert", "advance", "finish"}
  /\ faults < MaxFaults
  /\ faults' = faults + 1
  /\ Goto(w, "failed")
  /\ UNCHANGED <<logVars, floor, rowVars, todo, current, snapshot, cutoff, batch>>

\* Its first one does: the source is not marked "syncing".
StartFails(w) ==
  /\ pc[w] = "next"
  /\ faults < MaxFaults
  /\ faults' = faults + 1
  /\ \E s \in todo[w] :
       /\ \A other \in todo[w] : s <= other
       /\ todo' = [todo EXCEPT ![w] = @ \ {s}]
       /\ current' = [current EXCEPT ![w] = s]
  /\ Goto(w, "failed")
  /\ UNCHANGED <<logVars, floor, rowVars, snapshot, cutoff, batch>>

\* handleSourceError's own write fails: the error leaves syncUser and the
\* remaining sources have to wait for the next tick.
AbandonTick(w) ==
  /\ pc[w] = "failed"
  /\ faults < MaxFaults
  /\ faults' = faults + 1
  /\ Forget(w)
  /\ UNCHANGED <<logVars, floor, rowVars>>

\* The process dies; what is in the database stays, "syncing" included.
Crash(w) ==
  /\ pc[w] # "idle"
  /\ faults < MaxFaults
  /\ faults' = faults + 1
  /\ Forget(w)
  /\ UNCHANGED <<logVars, floor, rowVars>>

-----------------------------------------------------------------------------

Step(w) ==
  \/ BeginSync(w)
  \/ StartSource(w)
  \/ SeedCursor(w)
  \/ SaveSeed(w)
  \/ FetchSince(w)
  \/ InsertMessages(w)
  \/ Advance(w)
  \/ Finish(w)
  \/ FetchDenied(w)
  \/ HandleSourceError(w)
  \/ EndSync(w)

Next ==
  \/ \E c \in Channel, k \in Kinds : Publish(c, k)
  \/ AdvanceHorizon
  \/ Maintain
  \/ \E c \in Channel : Track(c)
  \/ \E s \in Source : Untrack(s)
  \/ \E w \in Worker : Step(w)
  \/ \E s \in Source : BackoffExpires(s)
  \/ \E w \in Worker : CallFails(w) \/ StartFails(w) \/ AbandonTick(w) \/ Crash(w)

Spec == Init /\ [][Next]_vars

(***************************************************************************)
(* The event loop of a worker runs every query and every call to its end    *)
(* and schedules the next tick when one has ended; deadlines pass.          *)
(***************************************************************************)
Fairness ==
  /\ \A w \in Worker : WF_vars(Step(w))
  /\ \A s \in Source : WF_vars(BackoffExpires(s))

FairSpec == Spec /\ Fairness

-----------------------------------------------------------------------------
(* Properties *)

\* Every variable has a value of its kind.
TypeOK ==
  /\ history \in [Channel -> Seq(Entry)]
  /\ horizon \in Nat
  /\ channelOf \in Seq(Channel)
  /\ Len(channelOf) <= MaxSources
  /\ tracked \subseteq DOMAIN channelOf
  /\ cursor \in [Source -> MessageId \cup {NoCursor}]
  /\ stored \subseteq (DOMAIN channelOf) \X MessageId
  /\ floor \in Nat
  /\ syncStatus \in [Source -> SyncStatus]
  /\ backoff \in [Source -> BOOLEAN]
  /\ pc \in [Worker -> Location]
  /\ todo \in [Worker -> SUBSET Source]
  /\ current \in [Worker -> Source \cup {NoSource}]
  /\ snapshot \in [Worker -> [Source -> MessageId \cup {NoCursor}]]
  /\ cutoff \in [Worker -> Nat]
  /\ batch \in [Worker -> SUBSET MessageId]
  /\ faults \in Nat

(***************************************************************************)
(* No post is lost: when the cursor of a source has passed a post that is   *)
(* still in the retention window, the post is in the store.  Nobody will    *)
(* ask Telegram for it again.  This is what the order of insertMessages and *)
(* updateCursor in ingestSource, the ascending pages of fetchSince and the  *)
(* seed at the cutoff are for.                                              *)
(***************************************************************************)
NoLoss == \A s \in tracked : Covered(s, cursor[s])

(***************************************************************************)
(* The store has no holes: a stored post has every earlier live post of its *)
(* channel next to it, whichever workers inserted the two, from whatever    *)
(* snapshots of the cursor, and even if the source is deleted meanwhile.    *)
(***************************************************************************)
NoGap == \A m \in stored : Covered(m[1], m[2])

(***************************************************************************)
(* The cursor of a source never goes back, although workers with stale      *)
(* snapshots write it concurrently (GREATEST in updateCursor).              *)
(***************************************************************************)
CursorNeverMovesBack ==
  [][\A s \in tracked : s \in tracked' => cursor'[s] >= cursor[s]]_vars

(***************************************************************************)
(* The sync loop keeps the promise of MessageLog: in-order delivery, the    *)
(* cursor behind the deliveries, rows removed only after the window.        *)
(***************************************************************************)
Log == INSTANCE MessageLog
         WITH history <- history, horizon <- horizon, channelOf <- channelOf,
              tracked <- tracked, cursor <- cursor, stored <- stored

ImplementsMessageLog == Log!Spec

(***************************************************************************)
(* Every live post of a tracked, readable source is stored in the end,      *)
(* unless it leaves the window or the source is untracked first: after      *)
(* crashes, failed calls and back-offs, and whatever the other sources of   *)
(* the user do.                                                             *)
(***************************************************************************)
Awaited(s, i) ==
  /\ s \in tracked
  /\ channelOf[s] \notin Unreadable
  /\ i \in DOMAIN History(s)
  /\ Live(History(s)[i])
  /\ <<s, i>> \notin stored

PostsArrive ==
  \A s \in Source, i \in 1..MaxHistory : Awaited(s, i) ~> ~ Awaited(s, i)

(***************************************************************************)
(* "Advance past the whole batch (incl. skipped-old rows) to make progress" *)
(* (pipeline.ts): the cursor of a readable source passes every post.        *)
(***************************************************************************)
Ahead(s, i) ==
  /\ s \in tracked
  /\ channelOf[s] \notin Unreadable
  /\ i \in DOMAIN History(s)
  /\ History(s)[i].kind = "post"
  /\ cursor[s] < i

MakesProgress ==
  \A s \in Source, i \in 1..MaxHistory : Ahead(s, i) ~> ~ Ahead(s, i)

(***************************************************************************)
(* A source does not stay "syncing" for ever, even if the worker that was   *)
(* syncing it has died: the row the dashboard shows is put right.           *)
(***************************************************************************)
SyncingEnds ==
  \A s \in Source : syncStatus[s] = "syncing" ~> syncStatus[s] # "syncing"

-----------------------------------------------------------------------------
(* The inductive invariant behind NoLoss and NoGap (IngestionProofs) *)

\* Histories are in order of date, nothing is dated in the future, and no
\* partition that is still needed has been dropped.
Calendar ==
  /\ \A c \in Channel : \A i \in DOMAIN history[c] :
       /\ history[c][i].date <= Now
       /\ \A j \in 1..i : history[c][j].date <= history[c][i].date
  /\ floor <= horizon

\* Message ids in the database are ids of the channel; a row that does not
\* exist has no cursor.
RowsInRange ==
  /\ \A s \in Source \ tracked : cursor[s] = NoCursor
  /\ \A s \in tracked : cursor[s] <= Len(History(s))
  /\ \A m \in stored : m[2] \in DOMAIN History(m[1])

\* A worker holds rows that exist or have existed, message ids the channel
\* still has, and a cutoff that is not ahead of the clock.
LocalsInRange(w) ==
  /\ cutoff[w] <= horizon
  /\ todo[w] \subseteq DOMAIN channelOf
  /\ pc[w] \notin {"idle", "next"} => current[w] \in DOMAIN channelOf
  /\ pc[w] = "save" => snapshot[w][current[w]] # NoCursor
  /\ \A s \in Source : snapshot[w][s] # NoCursor =>
       s \in DOMAIN channelOf /\ snapshot[w][s] <= Len(History(s))
  /\ pc[w] \in {"insert", "advance"} => batch[w] \subseteq DOMAIN History(current[w])

\* A stale cursor is as safe as the current one.
SnapshotsCovered(w) ==
  \A s \in DOMAIN channelOf : Covered(s, snapshot[w][s])

\* A batch misses no post between the snapshot and its own last message.
BatchComplete(w) ==
  pc[w] \in {"insert", "advance"} =>
    /\ \A n \in batch[w] : History(current[w])[n].kind = "post"
    /\ \A n \in batch[w] : \A i \in DOMAIN History(current[w]) :
         /\ OrZero(snapshot[w][current[w]]) < i
         /\ i <= n
         /\ History(current[w])[i].kind = "post"
         => i \in batch[w]

\* The cursor is advanced when the batch has been stored, not before.
BatchStored(w) ==
  pc[w] = "advance" => \A n \in batch[w] : Covered(current[w], n)

WorkerInv(w) ==
  /\ LocalsInRange(w)
  /\ SnapshotsCovered(w)
  /\ BatchComplete(w)
  /\ BatchStored(w)

IInv ==
  /\ TypeOK
  /\ Calendar
  /\ RowsInRange
  /\ NoLoss
  /\ NoGap
  /\ \A w \in Worker : WorkerInv(w)
=============================================================================
