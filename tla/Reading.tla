------------------------------- MODULE Reading -------------------------------
(***************************************************************************)
(* How a client reads the messages of one user while they are written:      *)
(* listMessages (storage/messages.ts) behind GET /v1/messages, the two ways *)
(* of reading it offers, and the clients that follow them.                  *)
(*                                                                          *)
(* A "pull" saves the highest ingest_seq it has seen and asks for what      *)
(* comes after (README, ingest-cli messages --after-seq --all).  A "browse" *)
(* goes from the newest message to the oldest, page by page (ingest-cli     *)
(* messages --all, the feed of the portal).  Both may ask for the channels  *)
(* of a category only, which change in between, and both need an API token, *)
(* which may be revoked (api/auth.ts, storage/tokens.ts).                   *)
(*                                                                          *)
(* An INSERT takes its numbers from messages_ingest_seq when it executes    *)
(* and shows its rows when it commits.  A SELECT sees the rows committed at *)
(* one moment.                                                              *)
(*                                                                          *)
(* Messages are numbered in the order of (published_at, id), in which they  *)
(* are browsed.  They are inserted in any order, because the sources of a   *)
(* user are backfilled one after the other.                                 *)
(***************************************************************************)
EXTENDS Integers, FiniteSets, FiniteSetsExt

CONSTANTS
  Message,     \* the user's messages, numbered by (published_at, id)
  Source,      \* the user's channels
  SourceOf,    \* the channel of each message
  Inserter,    \* the workers that sync this user, as they hold its session
  Limit,       \* the page size, which clampLimit made positive
  MaxSeq,      \* bound: values of messages_ingest_seq
  MaxChanges   \* bound: changes of the category and of the token

ASSUME MessageAssumption == Message \subseteq Nat /\ IsFiniteSet(Message)
ASSUME SourceAssumption == SourceOf \in [Message -> Source]
ASSUME LimitAssumption == Limit \in Nat \ {0}
ASSUME BoundAssumption == MaxSeq \in Nat /\ MaxChanges \in Nat

VARIABLES
  nextSeq,    \* the last value of messages_ingest_seq
  floor,      \* the partitions up to this message have been dropped
  pending,    \* the rows of an INSERT that has executed and not committed
  table,      \* the committed rows
  seqOf,      \* ingest_seq of each row in "pending" or "table"
  overlapped, \* history: two INSERTs for this user have been in flight at once
  selected,   \* the channels of the category that is asked for
  token,      \* whether the client has a token that is not revoked
  changes,
  after,      \* pull: the highest ingest_seq seen
  pulled,     \* pull: the messages received
  late,       \* history: what was gone past when its channel came into the category
  browsing,   \* browse: whether a next page is to be asked for
  last,       \* browse: the cursor, the last message received or NoMessage
  browsed,    \* browse: the messages received
  atStart     \* history: what was there to browse when it began

writeVars == <<nextSeq, floor, pending, table, seqOf, overlapped>>
queryVars == <<selected, token, changes>>
pullVars == <<after, pulled, late>>
browseVars == <<browsing, last, browsed, atStart>>
vars == <<writeVars, queryVars, pullVars, browseVars>>

\* No cursor: greater than every message.
NoMessage == IF Message = {} THEN 0 ELSE Max(Message) + 1

Init ==
  /\ nextSeq = 0
  /\ floor = -1
  /\ pending = [w \in Inserter |-> {}]
  /\ table = {}
  /\ seqOf = [m \in Message |-> 0]
  /\ overlapped = FALSE
  /\ selected = Source
  /\ token = TRUE
  /\ changes = 0
  /\ after = 0
  /\ pulled = {}
  /\ late = {}
  /\ browsing = FALSE
  /\ last = NoMessage
  /\ browsed = {}
  /\ atStart = {}

-----------------------------------------------------------------------------
(* Writers *)

InFlight == UNION {pending[w] : w \in Inserter}

(***************************************************************************)
(* insertMessages: one INSERT, oldest message first.  A message that is in  *)
(* the table already uses up a number (ON CONFLICT DO NOTHING); one that is *)
(* in the uncommitted INSERT of another worker has to wait for it.          *)
(***************************************************************************)
Insert(w, batch) ==
  LET rank(m) == Cardinality({n \in batch : n <= m})
      fresh == batch \ table
  IN /\ pending[w] = {}
     /\ batch # {}
     /\ batch \cap InFlight = {}
     /\ \A m \in batch : m > floor
     /\ nextSeq + Cardinality(batch) <= MaxSeq
     /\ nextSeq' = nextSeq + Cardinality(batch)
     /\ seqOf' = [m \in Message |-> IF m \in fresh THEN nextSeq + rank(m) ELSE seqOf[m]]
     /\ pending' = [pending EXCEPT ![w] = fresh]
     /\ overlapped' = (overlapped \/ InFlight # {})
     /\ UNCHANGED <<floor, table, queryVars, pullVars, browseVars>>

Commit(w) ==
  /\ pending[w] # {}
  /\ table' = table \cup pending[w]
  /\ pending' = [pending EXCEPT ![w] = {}]
  /\ UNCHANGED <<nextSeq, floor, seqOf, overlapped, queryVars, pullVars, browseVars>>

\* The connection is lost, or the worker dies, before the commit.
Rollback(w) ==
  /\ pending[w] # {}
  /\ seqOf' = [m \in Message |-> IF m \in pending[w] THEN 0 ELSE seqOf[m]]
  /\ pending' = [pending EXCEPT ![w] = {}]
  /\ UNCHANGED <<nextSeq, floor, table, overlapped, queryVars, pullVars, browseVars>>

\* Maintenance drops the oldest partition; DROP TABLE waits for writers.
DropPartition(m) ==
  /\ InFlight = {}
  /\ m > floor
  /\ floor' = m
  /\ table' = {n \in table : n > m}
  /\ UNCHANGED <<nextSeq, pending, seqOf, overlapped, queryVars, pullVars, browseVars>>

-----------------------------------------------------------------------------
(* The user, with the bot *)

Change == changes < MaxChanges /\ changes' = changes + 1

Of(s) == {m \in Message : SourceOf[m] = s}

AddSourceToTopic(s) ==
  /\ Change
  /\ s \notin selected
  /\ selected' = selected \cup {s}
  /\ late' = late \cup {m \in Of(s) : seqOf[m] \in 1..after}
  /\ UNCHANGED <<writeVars, token, after, pulled, browseVars>>

RemoveSourceFromTopic(s) ==
  /\ Change
  /\ s \in selected
  /\ selected' = selected \ {s}
  /\ late' = late \ Of(s)
  /\ atStart' = atStart \ Of(s)
  /\ UNCHANGED <<writeVars, token, after, pulled, browsing, last, browsed>>

\* /revoketoken
RevokeApiToken ==
  /\ Change
  /\ token
  /\ token' = FALSE
  /\ UNCHANGED <<writeVars, selected, pullVars, browseVars>>

\* /token, which the client is given
CreateApiToken ==
  /\ Change
  /\ ~ token
  /\ token' = TRUE
  /\ UNCHANGED <<writeVars, selected, pullVars, browseVars>>

-----------------------------------------------------------------------------
(* listMessages *)

\* source_id IN (SELECT source_id FROM topic_sources ...)
Rows == {m \in table : SourceOf[m] \in selected}

\* Wrong: the next Limit numbers, as if none were ever left out.
AfterNext(seq) == {m \in Rows : seqOf[m] \in (seq + 1)..(seq + Limit)}

\* Wrong: ">=".
AfterFrom(seq) == {m \in Rows : seqOf[m] >= seq}

\* WHERE ingest_seq > seq
After(seq) == {m \in Rows : seqOf[m] > seq}

\* Wrong: newest first, whatever is asked for.
FirstNewest(rows) == {m \in rows : Cardinality({n \in rows : n > m}) < Limit}

\* LIMIT Limit of the rows, in the order of ingest_seq
FirstBySeq(rows) ==
  {m \in rows : Cardinality({n \in rows : seqOf[n] < seqOf[m]}) < Limit}

\* Wrong: OFFSET instead of a keyset.
Offset(cursor) == {m \in Rows : Cardinality({n \in Rows : n > m}) >= Cardinality(browsed)}

\* Wrong: the cursor skips the row after it.
BeforeNext(cursor) == {m \in Rows : m < cursor - 1}

\* WHERE (published_at, id) < cursor
Before(cursor) == {m \in Rows : m < cursor}

\* LIMIT Limit of the rows, newest first
FirstByDate(rows) == {m \in rows : Cardinality({n \in rows : n > m}) < Limit}

-----------------------------------------------------------------------------
(* Clients *)

\* requireAuth, authenticateToken
Authenticated == token

\* Wrong: the cursor is the row after the page, which was not shown.
NextSeen(page) == Max({seqOf[m] : m \in page}) + 1

Seen(page) == Max({seqOf[m] : m \in page})

\* One page: next_cursor is the ingest_seq of its last row, so that following
\* it is the same as asking for after_seq again.
Pull ==
  LET page == FirstBySeq(After(after))
  IN /\ Authenticated
     /\ page # {}
     /\ pulled' = pulled \cup page
     /\ after' = Seen(page)
     /\ UNCHANGED <<writeVars, queryVars, late, browseVars>>

\* The rows of the page and, from one row more than the limit, whether there
\* are others.
Show(rows) ==
  /\ browsed' = browsed \cup FirstByDate(rows)
  /\ last' = IF rows = {} THEN last ELSE Min(FirstByDate(rows))
  /\ browsing' = (Cardinality(rows) > Limit)

\* The first page, asked for without a cursor.
StartBrowsing ==
  /\ Authenticated
  /\ ~ browsing
  /\ browsed = {}
  /\ Show(Rows)
  /\ atStart' = Rows
  /\ UNCHANGED <<writeVars, queryVars, pullVars>>

NextPage ==
  /\ Authenticated
  /\ browsing
  /\ Show(Before(last))
  /\ UNCHANGED <<atStart, writeVars, queryVars, pullVars>>

\* The client begins again at the newest message, at the end or, as ingest-cli
\* exits and the feed gives up, after a request that failed or was refused.
Reload ==
  /\ browsed # {}
  /\ browsing' = FALSE
  /\ last' = NoMessage
  /\ browsed' = {}
  /\ atStart' = {}
  /\ UNCHANGED <<writeVars, queryVars, pullVars>>

-----------------------------------------------------------------------------

Next ==
  \/ \E w \in Inserter : \E batch \in SUBSET Message : Insert(w, batch)
  \/ \E w \in Inserter : Commit(w) \/ Rollback(w)
  \/ \E m \in Message : DropPartition(m)
  \/ \E s \in Source : AddSourceToTopic(s) \/ RemoveSourceFromTopic(s)
  \/ RevokeApiToken
  \/ CreateApiToken
  \/ Pull
  \/ StartBrowsing
  \/ NextPage
  \/ Reload

Spec == Init /\ [][Next]_vars

\* A client that polls asks again and again.
FairSpec == Spec /\ WF_vars(Pull)

-----------------------------------------------------------------------------
(* Properties *)

\* Every variable has a value of its kind.
TypeOK ==
  /\ nextSeq \in 0..MaxSeq
  /\ floor \in Message \cup {-1}
  /\ pending \in [Inserter -> SUBSET Message]
  /\ table \subseteq Message
  /\ seqOf \in [Message -> 0..MaxSeq]
  /\ overlapped \in BOOLEAN
  /\ selected \subseteq Source
  /\ token \in BOOLEAN
  /\ changes \in 0..MaxChanges
  /\ after \in 0..MaxSeq
  /\ late \subseteq Message
  /\ pulled \subseteq Message
  /\ browsing \in BOOLEAN
  /\ last \in Message \cup {NoMessage}
  /\ browsed \subseteq Message
  /\ atStart \subseteq Message

(***************************************************************************)
(* "Save the highest ingest_seq you've seen, then poll ?after_seq=<seq> to  *)
(* fetch only new messages" (README): a row with a number the client has    *)
(* gone past is a row the client has.  It holds as long as no two INSERTs   *)
(* of a user are in flight at once, whatever is rolled back or repeated and *)
(* whichever worker has the session: of two, one may commit later than one  *)
(* with higher numbers.  Under ?topic=, what a channel already had when it  *)
(* came into the category does not come after it.                           *)
(***************************************************************************)
Skipped == {m \in Rows : seqOf[m] <= after} \ (pulled \cup late)

NoneSkipped == overlapped \/ Skipped = {}

(***************************************************************************)
(* "Fetch only new messages" (the same): what is to be pulled has not been  *)
(* before, also when INSERTs overlap, repeat rows or are rolled back, and   *)
(* when partitions are dropped.                                             *)
(***************************************************************************)
OnlyNew == After(after) \cap pulled = {}

(***************************************************************************)
(* A client that keeps asking pulls in the end every message that comes     *)
(* after what it has seen, unless its partition is dropped first: rollbacks,*)
(* repeated inserts and messages of other channels leave holes in           *)
(* ingest_seq, which do not stop it, and a token that is revoked and        *)
(* replaced costs it nothing.                                               *)
(***************************************************************************)
Due(m) == token /\ m \in Rows \ pulled /\ seqOf[m] > after

EveryMessagePulled == \A m \in Message : Due(m) ~> (m \in pulled \/ m \notin Rows \/ ~ token)

(***************************************************************************)
(* The pull is a subscription (module Subscription): what is published is   *)
(* due, and what is due is delivered, once, or goes away.                   *)
(***************************************************************************)
Promise == INSTANCE Subscription WITH
  category <- selected, visible <- Rows, due <- After(after), delivered <- pulled,
  disturbed <- overlapped

ImplementsSubscription == Promise!Spec

(***************************************************************************)
(* A browse misses no message that was there when it began and is there     *)
(* still, although rows are inserted on both sides of its cursor and old    *)
(* partitions are dropped between two pages.                                *)
(***************************************************************************)
BrowseComplete ==
  \A m \in atStart \cap table : (browsing => m >= last) => m \in browsed

(***************************************************************************)
(* No message is on two pages of a browse, whatever is inserted in between. *)
(***************************************************************************)
PagesDisjoint ==
  [][NextPage => FirstByDate(Before(last)) \cap browsed = {}]_vars
=============================================================================
