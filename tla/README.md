# telegram-ingestor in TLA+

The system collects the posts of a user's Telegram channels into PostgreSQL and
serves them over a read-only API. This directory specifies the parts of it in
which order, concurrency and failure matter, checks them with TLC on small
instances, and proves the main results with TLAPS for all instances.

## 1. The system

| Part | Code | State | Operations |
|---|---|---|---|
| Sync loop | `workers/ingestor.ts` `syncUser`, `core/ingestion/pipeline.ts`, `sources/telegram/connector.ts` | local copies of source rows, a retention cutoff, a page | seed the cursor, fetch a page, insert, advance the cursor, mark status, back off |
| Worker scheduling | `workers/ingestor.ts` `tick`, `stop`; `storage/sessions.ts` | `clients` and `failures` of a process; `owner_worker_id`, `lease_expires_at`, `status` of a session | claim, renew, release; open and close clients; stop, crash, restart |
| Sources | `storage/sources.ts` | `cursor_message_id`, `sync_status`, `backoff_until` | create, delete, update cursor, mark status |
| Messages | `storage/messages.ts`, the migration | rows in monthly partitions, the sequence `messages_ingest_seq` | insert without duplicates, list in two orders |
| Maintenance | `maintenance/index.ts` | partitions | create ahead, drop behind the window |
| Telegram clients | `workers/userClient.ts`, `sources/telegram/connector.ts`, `userSession.ts` | the cached client of a worker, the transient one of the bot; `telegram_meta` of a source | connect, read, resolve, join |
| Bot | `bot/index.ts`, `bot/ui/` | `topics`, `topic_sources`, `sources`; `pending` in memory | commands, buttons, text messages, screens |
| Login | `sources/telegram/login.ts`, `bot/loginRoutes.ts`, `client/src/pages/Login.tsx` | logins and bindings in memory; the stage of a page | start, code, password, cancel, expiry, save the session |
| API, CLI | `api/`, `storage/tokens.ts`, `cli/index.ts` | `api_tokens` | page through messages; create and revoke a token |
| Portal feed | `client/src/pages/Feed.tsx`, `bot/portalSession.ts`, `api/portalRoutes.ts` | link, session cookie; filter, list, cursor, loading | exchange the link, change a filter, load more |
| Remaining parts | crypto, mapper, config, pool | - | see the last section |

How they interact: the bot and the ingestor processes share nothing but the
database. The bot adds and removes source rows while workers hold copies of
them; a logout deletes the session row that workers hold leases on; the
maintenance timer drops partitions while workers insert; the API reads what
is committed at the moment. There is no transaction around more than one
statement, except in `upsertUser`. Nothing is locked between two queries,
except that `claimSessions` skips rows that are locked by another claim.

What is hard: workers with stale copies of one source; a crash between two
queries; a tick that outlives its leases; sessions that are replaced while a
client for the old one is cached; rows that commit out of the order of their
numbers; updates that Telegram delivers twice; responses that arrive late in
the portal; logins that are swept, cancelled or submitted twice while they are
being finalized; rows that one Telegram account made and another account uses;
buttons of screens that are out of date. `PROJECT.json` lists each with its line and the properties on it.

What makes each part correct: no live post is lost or stored twice and every
post arrives (sync loop); one worker at a time uses a session and every
session gets its turn (scheduling); a reader that follows the cursors gets
every message once (messages); every channel is in a category, the quotas
hold and no screen leads nowhere (bot); whoever is logged in is served, and whoever is not is
told (accounts); the list shows the filter that is selected (feed); a login that
Telegram accepts is saved and leaves no connection open (login).

## 2. The modules

| Module | About | Proofs |
|---|---|---|
| `Channels` | state that the next two share: histories, sources, cursors, the store | |
| `MessageLog` | abstract: what ingestion promises | `PromiseProofs` |
| `Ingestion` | the sync loop, statement by statement | `IngestionProofs` |
| `SessionLock` | abstract: what the leases promise | `PromiseProofs` |
| `Leases` | claims, ticks, clients, logins, stops and crashes | `LeasesProofs` |
| `Accounts` | one user, several Telegram accounts, the clients of the worker and of the bot | `AccountsProofs` |
| `Subscription` | abstract: what a client that polls is promised | `PromiseProofs` |
| `Reading` | `listMessages` and the clients that page through it | `ReadingProofs` |
| `Catalog` | the bot's edits of channels and categories, and its screens | `CatalogProofs` |
| `Feed` | the portal: link, session, list | `FeedProofs` |
| `Login` | connecting a Telegram account | `LoginProofs` |
| `MC*` | instances for TLC | |

**Ingestion.** The sources of one user; nothing in the pipeline relates two
users. A channel's history is a sequence of dated entries and a message id is
the position in it. Everything `syncUser` reads before an `await` is a variable
of the worker (`todo`, `snapshot`, `cutoff`, `batch`) and every query is one
action: `BeginSync` (`getSyncableSources`), `StartSource` (the back-off test
and `syncing`), `SeedCursor`, `SaveSeed`, `FetchSince`, `InsertMessages`,
`Advance` (`updateCursor`), `Finish`, `HandleSourceError`: one page of each
source per sync. `CallFails`, `StartFails`, `FetchDenied`, `AbandonTick` and
`Crash` are what goes wrong. Beside
them `Track`, `Untrack` (bot), `Maintain` (partitions), `Publish` and
`AdvanceHorizon` (the world). Any number of workers may run at once on the same
user, since the leases do not exclude it (finding `overrun`).

The history does not change except by growing: messages that are deleted or
edited in Telegram are left out, as the code never goes back to them. A
back-off is a Boolean that expires some time. A month is abstracted: `Maintain`
may drop everything before any day up to the one the code computes.
`ensurePartitions` is left out: that the partition of a new message exists is
taken for granted.

**Leases.** Time is counted in poll intervals and a lease is a countdown.
`Claim` is one step: the statement takes row locks with SKIP LOCKED, so that two
claims never get the same row, and a claim that skips a locked row gets it at
its next turn. The tick of a worker is
`Claim`, `Renew`, `Drop`, then for each user `ClientFor`, `Connected` or
`ConnectDenied` with `MarkReauth`, a period of syncing, and `SyncEnds`.
`BeginStop`, `CloseClients`, `ReleaseLeases` and `Exit` are `stop()` and the
shutdown handler, which run next to a tick that is still in flight, as in the
code. `claimed` and `age` record what a claim returned and how long ago.
`MaxTickLength` bounds by a guard of `Tick` how long a claim may wait and a
tick last.

`SessionLock` is what all this is for: a lock for each session, which a worker is
granted only if nobody else has it and which is otherwise only lost. `Leases`
implements it under the mapping that a worker holds a session from the claim on,
for LEASE_SECONDS, as long as the row it claimed is there (`HoldsLease`).

**Accounts.** The row of a source outlives the session it was made with. A
session is the number of a login, and `auth` says of which account; `telegram_meta`
of a row is the account whose access hash it holds, `cursor` the account whose
messages it counts, `born` the identity of the row. The worker is a
`Claim`, `Connect` (or `ConnectDenied` and `MarkReauth`), and a step for each
query or call of `syncUser` (`StartSource`, `Fetch`, `Store`, `HandleSourceError`),
with the pages abstracted to one. `Claim` is `claimSessions` with `getClient`, and
`Connect` is `ensureConnected` with `getSyncableSources`: what a logout between
two of these does is in `Leases`. `WorkerFails` is a call that fails for another
reason, in the loop, before it, or when the error itself is written. The bot is the chain of `trackChannel`:
`OpenSession` (quota and session), `ResolveUsername`, `JoinByInvite` or
`AlreadyParticipant`, `CreateSource`. Telegram's part is taken from how the code
uses it: an access hash serves only the account it was given to, a private
channel only its members; a client that is connected learns that its session has
been withdrawn only from the calls it makes; channel posts have one
numbering, the messages of a dialog one for each account. `switched`, `stray`
and `overtook` are history variables.

**Reading.** An `INSERT` takes numbers from the sequence when it executes and
shows its rows when it commits. Messages are numbered in the order of
`(published_at, id)`; a batch of any messages may be inserted, because the
sources of a user are backfilled one after the other. Every query is filtered
by a category (`selected`, the channels that are in it), which the user edits
while clients page, and is made with a token that may be revoked and replaced.
The filters by channel and by dates select a fixed set of messages, which
`Message` stands for. `late` and `overlapped` are history variables: what a channel had up to the
poll's cursor when it joined the category, and whether two INSERTs of the user
have been in flight at once. A request that fails or is refused
ends a browse; the poll keeps its cursor.

`Subscription` has neither numbers nor pages, transactions or workers: what is
published in the category is *due*, what is due stays so until it is delivered,
expires or leaves the category, and what has been delivered is never due again.
`Reading` implements it when what is due is taken to be the rows that
`after_seq` selects, `After(after)`. The promise is off once two INSERTs have
overlapped.

**Catalog.** One user and one bot that handles one update at a time. A handler
is split where it changes two tables. A crash redelivers the update that is not
confirmed and empties `pending`; a failed query ends the handler. A view is
named by the button that leads to it, and `ButtonsOf` gives its buttons from the
rows of the moment; the user may press a button of any screen ever drawn, also
one of a category that has been deleted. What a reference of a channel resolves to, and the look-up of rows by a prefix
of their id, are taken as exact. `excused` is a history variable: the channels
that one of the steps listed in `Loses` left in no category, and that are in none
since.

**Feed.** The page starts with `Exchanged` (the link of the address for a
cookie) or with a cookie it has, then `MetadataArrives` twice, then the list.
The link and the cookie expire at any time, the cookie not before the link it came from
(10 minutes and 24 hours); a `Visit` loads the page again or opens a new link.
A filter selects a set of messages that does not change. Requests are
answered in any order, are refused without a session, or fail. `mixed` is a history variable: a page that
`loadMore` asked for has been appended after the list was replaced.

**Login.** The page (`Submit`, `LoseResponse`, `ReloadPage`) and the handlers of
its requests, one step per `await`: `Connect`, `CodeSent`, `SendCodeFails` are
`startLogin`; `Invoke`, then `Rejected`, `PasswordNeeded` or `Accept` with
`Accepted`, then `Save` or `SaveFails`, `Disconnect` and `Delete` are `submitCode`
and `submitPassword` with `finalize`; `Cancel` and `Delete` are `cancelLogin`.
Beside them `GrowOld` and `Sweep` (the timer) and `Crash`. Telegram's part is
which clients it has logged in, and that a code is used up when it was accepted;
`CheckPassword` and the `GetPassword` before it are one call. `saved`, `leaked`
and `lost` are history variables. The link can expire at any time, which
`StartRefused` and `Refused` allow. One user: the bindings keep users apart, and
nothing else in `LoginManager` relates two logins.

Names that begin with a comment "Wrong:" are variants of the definition that
follows them, with a mistake that is easy to make there. They are used in no
specification; each property is shown to fail when the variant takes the place
of the definition (`mutants` in `PROJECT.json`).

## 3. What the runs show

Passing runs:

| Run | Instance | Shows |
|---|---|---|
| `sync` | 2 workers, 1 channel whose source may be removed and tracked again, pages of 2, history up to 4, 1 day, 1 fault | `NoLoss`, `NoGap`, `CursorNeverMovesBack` with both workers in the same source; the inductive invariant `IInv`, with `TypeOK` in it; `Ingestion` implements `MessageLog` |
| `arrival` | 1 worker, 2 channels (one unreadable and empty at first, one that begins with a service message), pages of 2, 1 day, 1 fault, fairness | `PostsArrive` for the readable one, `SyncingEnds` |
| `leases` | 2 workers, 2 users, lease of 2, ticks up to 2, 2 logins, 1 logout, 1 refused session, 1 stop or crash | `LeaseExclusive`, `OneSyncer` until a logout, also beside a stop that has not released the leases yet, `ClientsClaimed`; the inductive invariant `SplitInv`, with `LeaseInv` in it; `Leases` implements `SessionLock` |
| `takeover` | 2 workers that may claim one session each, 2 users, lease of 2, ticks of 1, 1 stop or crash, 1 failed call, fairness | `SessionsServed` |
| `accounts` | 2 accounts, 1 private channel, 1 dialog, quota of 2, 2 logins, 2 `/add`, 1 withdrawn session, 1 fault, fairness | `ReauthExplained`, `WithdrawalShown`, `ReadAgain`, `CursorsOwned`, `JoinedIsTracked` |
| `reading` | 2 inserters, 3 messages of 2 channels, pages of 1, 4 numbers, 2 changes of the category or the token, fairness | `NoneSkipped` until two INSERTs overlap, `OnlyNew` in any case, `EveryMessagePulled`, `BrowseComplete`, `PagesDisjoint`; `Reading` implements `Subscription` |
| `edits` | every update; 3 channels, 3 categories, 3 names, quotas of 2, 1 crash, 1 failed query | `OrphansExplained`, `OnlyOrphansUntracked`, `QuotasRespected`, `ScreensLive`, references between the tables (`TypeOK`) |
| `feed` | 2 filters, 5 messages, pages of 2, 3 changes, 2 failures, 2 visits, fairness | `ExpiryExplained`, `ListsTheFilter`, `LoadingEnds` |
| `login` | 1 page, 2 requests at once, 2 logins, 2 faults, 1 restart, fairness | `ClientsOwned`, `DoneIsSaved`, `LoggedInIsSaved`, `LoginsEnd` |

Runs that find a violation; each is a finding in `PROJECT.json`:

| Run | Property | What happens |
|---|---|---|
| `filtered` | `MakesProgress` | A page of FETCH_LIMIT entries that are all service messages or the user's own does not move the cursor: the source is stuck. |
| `overrun` | `OneSyncer` | A tick one poll interval longer than its lease: two workers on one session. |
| `relogin` | `LogoutDisconnects` | Logout and login between two ticks: the worker keeps the client of the old session. |

More observations come from the same models and have no run of their own. Where
a property names one as its exception, the property fails without that
exception:

- `stop()` does not wait for the tick in flight (`ingestor.ts:151-159`). The tick
  goes on to the next user, opens a client for it that nothing closes, and syncs;
  once the leases are released another worker may claim the same session, and
  both use it until the process exits, however short ticks are. `OneSyncer`
  excuses a worker that has released its leases (`Unreleased`).
- When two INSERTs of a user overlap, a row that commits late appears below a
  number the client has gone past, and is never pulled. It takes two workers in
  one session, as in `overrun`. `NoneSkipped` excuses it as `overlapped`.
- `trackChannel` does not look at the result of `addSourceToTopic`
  (`actions.ts:57-60`): when a category is deleted between `tp:addch` and the
  text message it asked for, the channel is tracked in no category and the reply
  says that it was added. `OrphansExplained` excuses it as `Link /\ ~ Linkable`.
- Deleting a category (`/deltopic`, `tp:delyes`), or a link with
  `/removefromtopic`, looks at no channel: one that was in this category only
  stays tracked in none, while `actions.ts:102-103` says of removing a channel that
  one "left in none stops being tracked entirely". `OrphansExplained` excuses it
  (`Loses`).
- When a category is deleted after its new name has been asked for, the text
  message is answered with "Renamed" and the category is drawn
  (`bot/index.ts:384-388`, `actions.ts:94`). `ScreensLive` excuses it as
  `RenamedNone`. `tp:tog` on rows that are gone draws nothing.
- No screen has a button for "Back to menu" or "More": `nav:menu` and `more:home`
  are reached only from each other.
- A user who logs in again while the worker still connects the client of the old
  session has the new one marked `needs_reauth` (`ingestor.ts:90`).
  `ReauthExplained` excuses it as `overtook`. If the old session is accepted
  instead, the user is served with it (finding `relogin`).
- When another account adds a dialog again, `createSource` takes its access
  hash and keeps the cursor, which counts the messages of the first account
  (`sources.ts:57-62`): messages below it are passed over.
  `CursorsOwned` excuses it as `switched`.
- The quota is checked before it is known whether the channel is tracked already
  (`actions.ts:36`): at the limit, one that only needs a new access hash cannot
  be added again.
- A channel is joined before its row is inserted and not left when that fails,
  or when it is removed.
- A link of the bot that has expired and is still in the address keeps a user
  out who has a session (`Feed.tsx:51-52`). `ExpiryExplained` excuses it. After the
  list is shown, a session that ends is reported as the error of a request, and
  the error stays when "Load more" succeeds later.
- A client that polls with `?topic=` never gets what a channel had before it
  joined the category and before the cursor. `NoneSkipped` excuses it as `late`.
- `loadMore` does not look whether the filter is still the one it asked with
  (`Feed.tsx:94-96`), as the effect does with `cancelled`: when "Load more"
  answers after the filter has changed, messages of the old filter are listed
  under the new one. `ListsTheFilter` excuses it as `mixed`.
- When `sendCode` fails, the client `startLogin` has connected stays connected and
  is in no map (`login.ts:36-37`). `ClientsOwned` excuses it as `leaked`.
- A login that Telegram has accepted is not saved when `saveSession` fails
  (`login.ts:89`), or when the sweeper or a cancel closes the connection before the
  answer comes. The code is used up, so that another submission of it is
  refused. `LoggedInIsSaved` excuses these as `lost`.
- A login that is cancelled while it is finalized is saved all the same
  (`login.ts:73-78`).

**Why the bounds are enough.** A page of 2 and a history of 2 to 4 give full,
short and empty pages, and pages of which some entries are filtered out. Two
workers are what a race between stale copies takes; a third adds no new
relation between a copy and the row. A day that passes makes a message expire
while a worker holds it, and a partition be dropped below it. A lease of 2 with
ticks of 1 (`takeover`), 2 (`leases`) and 3 (`overrun`) intervals covers
shorter, equal and longer. `FilteredRun` bounds how many entries in a row are
not posts; it is below the page size in every run but `filtered`, where it
equals it: the liveness of `arrival` depends on this, as the finding says.
Three messages are enough for a cursor to have one on each side and one in
flight. For `login`, two requests are a first and a second submission of the
same code, or a submission and a cancel; two logins are one that is given up
and its successor; two faults are a lost response and a failed query. For `accounts`, two
logins are an account and another, or one and the same; one private channel and
one dialog are the two kinds of rows that an account cannot hand to another (a
public channel needs its own hash in the same way a dialog does and has no more to
it, so `Public` is empty); two `/add` are a source that is added again with or
without a removal in between, or one of each kind. Two
topics are the fewest with which "in another category" differs from "in none",
and a third id is for one that is made after another was deleted. There is one
channel more than the quota lets in, and one category more.

**Symmetry** is used for workers, users, channels, topics and names
in runs of invariants and action properties, never with liveness, and only where
nothing compares the values.

**Deadlock** is not checked where the bounds stop the world (the histories are
full, the clock has stopped, all messages are pulled). It is checked in the runs
of `Catalog`.

## 4. Fairness

- `Ingestion`: weak fairness of each worker's `Step`, which includes the
  beginning of the next sync: `loop` schedules itself again whatever happens in
  a tick. A back-off expires. Failures and crashes are bounded by `MaxFaults`.
  Nothing is assumed of users or of Telegram's posts.
- `Leases`: time passes (`Tick`), a process that is up goes on with its tick and
  one that is stopping carries the stop through. Nobody has to log in or start
  a process. No strong fairness is needed: the order of the claim (unclaimed
  first, then the least recently claimed) gives each session its turn.
- `Accounts`: the worker goes on with its tick, also after one that failed, and
  back-offs expire. Nothing is assumed of the user, the bot or Telegram; faults
  are bounded by `MaxFaults`.
- `Reading`: the polling client asks again. `Feed`: every request is answered or
  fails. The filter is changed finitely often: with ever new changes, "Loading"
  may well stay.
- `Login`: time passes (`GrowOld`) and the sweeper's interval goes off (`Sweep`).
  Nothing is assumed of pages, handlers or Telegram, so that `LoginsEnd` rests on
  the sweeper alone.

Liveness is stated with leads-to of a state and its end, so that a post that
expires, or a source that is removed, counts as an end.

## 5. What is proved

TLAPS checks these for all values of the constants that satisfy the named
assumptions (`RetentionAssumption`, `InitHistoryAssumption`, `FetchLimitAssumption`,
`LeaseAssumption` and so on, in the modules that declare the constants).

**IngestionProofs.** `NoLoss` is not inductive: whether a cursor may move depends
on the page the worker has inserted, that on the page it fetched, and that on
the cursor it copied, perhaps long ago. `IInv` adds, for each worker, that its
copy of a cursor is *covered* (every live post up to it is stored:
`SnapshotsCovered`), that its batch leaves out no post after that copy
(`BatchComplete`), and that at `advance` the batch is stored (`BatchStored`).
`Covered` survives the steps of everyone else since histories grow at the end,
the horizon only advances, and rows are dropped only behind it (lemmas
`StepKeeps`, `CoveredKept`, `Undisturbed`); `Calendar` relates the floor of the
partitions, the cutoffs and the horizon. Then, per action, one lemma for the
worker that moves. Theorems: `Invariance`, `TypeCorrect`, `NothingLost`
(`NoLoss`), `NoHoles` (`NoGap`), `CursorMonotone`, and `Refinement`: every step
is a step of `MessageLog` or a stutter, for which the invariant is needed
twice, at the insert (`Deliver` allows no hole) and at the cursor
(`Acknowledge` needs `Covered`).

**LeasesProofs.** `LeaseExclusive` follows from `LeaseBacked`: as long as a
worker may believe in its lease, the row names it as owner and has at least
`Lease - age` left. That holds because a claim sets the whole lease, because
renewals set it again, and because only the owner's release, or a logout, ends
it early; a row that is inserted after a logout is told from the old one by its
number (`born`). This needs no assumption about ticks: `LeasesBacked`,
`Exclusive`. `LockRefinement` (`Leases` implements `SessionLock`) follows: that
nobody else holds what a claim returns is `LeaseExclusive` of the next state, and
that no other step gives anything needs `BirthsInPast`, for a login that inserts
a row must not revive an old claim. `ClientsBelong` proves `ClientsClaimed`
from two facts about a tick, that what it has still to do is part of its claim and
that a process starts with nothing to do. `WorkIsClaimed` is `SplitInv` for every
length of ticks and leases. `Split` proves `OneSyncer` (until a user logs out, no two workers sync the same session, neither running
nor in the middle of a stop, as long as they have not released their leases) under
what the code does not ensure: `MaxTickLength <= Lease`.
`SplitInv` adds that the users such a tick works on are claimed by it, no
longer ago than a tick may last. The run `overrun` shows what happens without
that assumption; a logout and a login between two steps of a tick give the user
a new row, which another worker may claim while the first still syncs the old
session.

**CatalogProofs.** `TypeCorrect` carries the references between the tables: links
are between rows that exist and names are unique, also in the middle of a
handler. `OrphansExplained` speaks of the time between updates, where handlers
of two and three queries have ended; `OrphansInv` says what holds at each
half: at `link` and `untrack` the channel of the update may be in no category,
and at `ready` only if the update, delivered again, does what is missing
(`Resumes`). `OnlyOrphansUntracked` follows from its clause for `untrack`.
`QuotasHold` needs that the sets are finite (`QuotasInv`), for the quotas are
about cardinalities and the theorem about any `Channel`, and `QuotaAssumption`.
`ScreensAreLive` rests on `ScreenInv`: the screen a handler ends with is about
rows that are there, and `untrack` is never reached with the screen of a channel.

**LoginProofs.** `ClientsOwned` and `LoggedInIsSaved` are inductive only with
what handlers hold (`Handlers`: at which `await` a handler of each kind can be,
and that it has saved what it disconnects), what a page waits for (`Pages`: the
request is about the login of the page, and of the page's stage, so that an
answer cannot take a page to "done" for another login), and that a login which
`startLogin` has not returned is known to nobody else (`Separate`).
Theorems: `TypeCorrect`, `ClientsAreOwned`, `DoneMeansSaved`, `LoggedInMeansSaved`.

**AccountsProofs.** `CursorsOwned` depends on the copy of the row that a worker
works from: `CopiesOwned` says that the copy agrees with the row as long as
the row is the one that was listed (`SameRow`) and no other account has added it
again, and `Births` that a number is not used twice, so that a row which is
removed and added anew in the meantime is not the same. `ClientKnown` (a client is of the
session in the row, or `overtook`) gives `ReauthExplained`. `JoinedIsTracked`
needs `Adding`: a channel is joined only after the quota has let the update pass, and
no row is made until it is handled, so the quota lets the second delivery
pass as well. The run shows less of it, for with two sources and a quota of two
a channel that is not tracked never meets a full quota. Theorems: `TypeCorrect`,
`ReauthIsExplained`, `CursorsAreOwned`, `JoinedMeansTracked`.

**ReadingProofs.** What a page is comes first: that it is not empty if there are
rows, that it has with each row those before it, and that it is all there is when
nothing is left over (`PageByDate`, `PageBySeq`), from facts about cardinalities
and least elements (`LeastElement`, `GreatestElement`). `BrowseComplete` needs that a
message which was there at the start of the browse and is gone cannot come back:
its partition has been dropped, and an INSERT that is under way is above the
dropped partitions (`WriteInv`, `BrowseInv`); and that the cursor is below all that
has been shown, which also gives `PagesDisjoint`. Both hold for any number of
inserters, overlapping or not. So does `OnlyNew`, by `OnceInv`: what has been
pulled has a number that the client has gone past, and keeps it, for a row that
is dropped cannot be inserted again and one that is inserted again in vain
keeps its first number. `NoneSkipped` needs `SerialInv`: everything in flight is
numbered above everything that is committed. That holds until two INSERTs
overlap, whichever workers make them (`PullInv`). `PullImplementsSubscription`
is the refinement: a step of `Reading` changes `After(after)` as `Publish`,
`Expire`, `Deliver` or `Select` says, or not at all (`CommitPublishes`,
`DropExpires`, `PullDelivers`, `ChangeSelects`). It needs both invariants: a
commit publishes into what is due because its numbers are above the cursor
(`SerialInv`), and a channel that joins the category brings nothing back that was
delivered (`OnceInv`). Theorems: `TypeCorrect`, `BrowseIsComplete`,
`PagesAreDisjoint`, `PullSkipsNothing`, `PullsOnlyNew`, `PullImplementsSubscription`.

**FeedProofs.** A page is what `ORDER BY` and `LIMIT` make of the rows, so the
lemmas about it come first (`RowOrder`, `PageOf`): how many rows are newer is
different for each row, an injection of a finite set of N rows into 0..N-1,
which is onto, so each place has its row; no induction over the set is needed.
Then what is left after a page is older than all of it, and there is something
left exactly if there is a cursor. `ListsTheFilter` is inductive only with two more
facts (`ListInv`): while nothing is `mixed`, the cursor is the last of the
messages listed, so that the next page continues them (`Appended`); and no
request for the list is open before the page is ready. That a response of a
superseded request changes nothing rests on `TypeOK`: of the open reloads only the last
is not cancelled, and it is for the filter that is selected. `ExpiryIsExplained`
proves `ExpiryExplained`; it needs besides that
the page exchanges a link only while it is in the address. Theorems:
`TypeCorrect`, `FilterIsListed`, `ExpiryIsExplained`.

**PromiseProofs.** The three abstract specifications, with no regard to what
implements them, say what matters to a user: a `MessageLog` misses no live post
below a cursor or another post (`LogIsComplete`); a `SessionLock` never has two
holders and is handed over by way of nobody (`LockIsExclusive`,
`LockIsHandedOver`); in a `Subscription` nothing is due that was delivered, and
nothing that was due is gone unless it has been delivered, has expired or has left the
category (`DeliveredOnce`, `NothingDropped`). By the refinements this holds of
`Ingestion`, `Leases` and `Reading`. These theorems are about modules of a few actions and are
an argument of their own beside the direct proofs of `NoLoss`,
`NoGap`, `LeaseExclusive`, `NoneSkipped` and `OnlyNew`.

Only model-checked: liveness (`PostsArrive`, `SyncingEnds`, `SessionsServed`,
`ReadAgain`, `WithdrawalShown`, `EveryMessagePulled`, `LoadingEnds`, `LoginsEnd`), because
fairness and ENABLED are beyond the prover. Every other property of a passing run is a theorem.

## 6. Plan

Done, in the order of importance: ingestion, leases, reading, catalog, feed,
login, accounts, and proofs about each.

Next: the rows of `Ingestion` and the clients of `Leases` in one module, so that
the two workers of `overrun`, or of a stop, meet in the same source there.

## 7. What is not modelled

- The signature of the login link, and the login page that `loginRoutes.ts` serves
  as HTML.
- Hashing, signing and encryption: stateless computations on strings. That what
  they protect expires or is revoked is in `Feed` and `Reading`.
- The texts of the bot, the mapper's fields, the formats of the API.
- Configuration, logging, the connection pool, migrations as a process.
- The encoding of cursors, and the filters by channel and dates (see `Reading`).
- `/portal/api/logout`, which no page calls.
- Lists that only read.
