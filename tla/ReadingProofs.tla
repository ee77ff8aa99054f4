---------------------------- MODULE ReadingProofs -----------------------------
(***************************************************************************)
(* Theorems about the reading of messages while they are written (Reading), *)
(* for any messages, channels, page size and bounds: what a browse shows    *)
(* and what a pull gets, that this is the promise of Subscription, and when.*)
(***************************************************************************)
EXTENDS Reading, FiniteSetTheorems, WellFoundedInduction, TLAPS

USE MessageAssumption, SourceAssumption, LimitAssumption, BoundAssumption

-----------------------------------------------------------------------------
(* The inductive invariants *)

\* A row is not in two INSERTs, nor in one and the table; it is above the
\* partitions that have been dropped, and its number has been given.
WriteInv ==
  /\ TypeOK
  /\ \A w \in Inserter : \A m \in pending[w] : m > floor /\ m \notin table
  /\ \A v, w \in Inserter : v # w => pending[v] \cap pending[w] = {}
  /\ \A m \in table \cup InFlight : seqOf[m] \in 1..nextSeq
  /\ after <= nextSeq

\* What was there when the browse began is gone for good, or will be shown by
\* the pages to come; the pages so far end at the cursor.
BrowseInv ==
  /\ BrowseComplete
  /\ \A m \in atStart : SourceOf[m] \in selected
  /\ \A m \in atStart \ table : m <= floor
  /\ browsing => last \in Message /\ \A m \in browsed : m >= last

\* What has been pulled is there and gone past, or gone for good.
OnceInv ==
  /\ \A m \in table : m > floor
  /\ \A m \in pulled : m <= floor \/ (m \in table /\ seqOf[m] <= after)

\* One INSERT at a time: what is to be committed has higher numbers than what is.
SerialInv ==
  /\ Skipped = {}
  /\ \A v, w \in Inserter : v = w \/ pending[v] = {} \/ pending[w] = {}
  /\ \A m \in InFlight : seqOf[m] > after /\ \A n \in table : seqOf[n] < seqOf[m]

PullInv == ~ overlapped => SerialInv

-----------------------------------------------------------------------------
(* Least and greatest elements, and pages *)

LEMMA LeastElement ==
  ASSUME NEW S \in SUBSET Nat, S # {}
  PROVE  Min(S) \in S /\ \A y \in S : Min(S) <= y
<1> DEFINE less == {p \in Nat \X Nat : p[1] < p[2]}
<1>1. IsWellFoundedOn(less, Nat)
  BY NatLessThanWellFounded DEF OpToRel
<1>2. PICK x \in S : \A y \in S : <<y, x>> \notin less
  <2> HIDE DEF less
  <2> QED BY <1>1, WFMin
<1>3. ASSUME NEW y \in S PROVE x <= y
  <2>1. x \in Nat /\ y \in Nat /\ <<y, x>> \notin less
    BY <1>2
  <2>2. ~ (y < x)
    BY <2>1
  <2> QED BY <2>1, <2>2
<1> QED BY <1>3 DEF Min

LEMMA GreatestElement ==
  ASSUME NEW n \in Nat, NEW S \in SUBSET (0..n), S # {}
  PROVE  Max(S) \in S /\ \A y \in S : y <= Max(S)
<1> DEFINE T == {k \in Nat : n - k \in S}
<1>1. PICK x \in S : TRUE
  OBVIOUS
<1>2. n - x \in T
  OBVIOUS
<1>3. Min(T) \in T /\ \A k \in T : Min(T) <= k
  BY <1>2, LeastElement
<1>4. \A y \in S : n - y \in T
  OBVIOUS
<1>5. n - Min(T) \in S /\ \A y \in S : y <= n - Min(T)
  BY <1>3, <1>4
<1> QED BY <1>5 DEF Max

\* A part of the messages
LEMMA FinitePart ==
  ASSUME NEW S \in SUBSET Message
  PROVE  IsFiniteSet(S) /\ Cardinality(S) \in Nat
BY FS_Subset, FS_CardinalityType

LEMMA SmallerPart ==
  ASSUME NEW S \in SUBSET Message, NEW T \in SUBSET S
  PROVE  Cardinality(T) <= Cardinality(S) /\ (T # S => Cardinality(T) < Cardinality(S))
<1>1. IsFiniteSet(S) /\ Cardinality(S) \in Nat /\ Cardinality(T) \in Nat
  BY FinitePart
<1>2. Cardinality(T) <= Cardinality(S) /\ (Cardinality(S) = Cardinality(T) => S = T)
  BY <1>1, FS_Subset
<1> QED BY <1>1, <1>2

\* A page of the newest rows is not empty if there are rows, has with each the
\* newer ones, and is all there is if they are not more than the limit.
LEMMA PageByDate ==
  ASSUME NEW rows \in SUBSET Message
  PROVE  /\ FirstByDate(rows) \subseteq rows
         /\ rows # {} => FirstByDate(rows) # {}
         /\ \A n \in FirstByDate(rows), m \in rows : m >= n => m \in FirstByDate(rows)
         /\ Cardinality(rows) <= Limit => FirstByDate(rows) = rows
<1> DEFINE newer(m) == {n \in rows : n > m}
<1>1. FirstByDate(rows) = {m \in rows : Cardinality(newer(m)) < Limit}
  BY DEF FirstByDate
<1> rows \in SUBSET Nat
  OBVIOUS
<1>2. ASSUME NEW m \in rows
      PROVE  /\ newer(m) \in SUBSET Message /\ newer(m) \in SUBSET rows
             /\ newer(m) # rows
  <2>1. m \notin newer(m)
    OBVIOUS
  <2> QED BY <2>1
<1>3. ASSUME NEW m \in rows, NEW n \in rows, m >= n
      PROVE  newer(m) \in SUBSET newer(n)
  <2>1. \A k \in rows : k > m => k > n
    BY <1>3
  <2> QED BY <2>1
<1>4. ASSUME NEW m \in rows, NEW n \in newer(m)
      PROVE  n \in rows /\ newer(n) \in SUBSET newer(m) /\ newer(n) # newer(m)
  <2>1. n \in rows /\ n > m /\ n \notin newer(n)
    OBVIOUS
  <2>2. newer(n) \in SUBSET newer(m)
    BY <1>3, <2>1
  <2> QED BY <2>1, <2>2
<1> HIDE DEF newer
<1>5. \A m \in rows : Cardinality(newer(m)) \in Nat /\ Cardinality(newer(m)) < Cardinality(rows)
  BY <1>2, FinitePart, SmallerPart
<1>6. ASSUME rows # {} PROVE FirstByDate(rows) # {}
  <2> DEFINE sizes == {Cardinality(newer(m)) : m \in rows}
  <2>1. sizes \in SUBSET Nat /\ sizes # {}
    BY <1>5, <1>6
  <2>2. Min(sizes) \in sizes /\ \A k \in sizes : Min(sizes) <= k
    <3> HIDE DEF sizes
    <3> QED BY <2>1, LeastElement
  <2>3. PICK m \in rows : \A n \in rows : Cardinality(newer(m)) <= Cardinality(newer(n))
    BY <2>2
  <2>4. newer(m) = {}
    <3> SUFFICES ASSUME NEW n \in newer(m) PROVE FALSE
      OBVIOUS
    <3>1. n \in rows /\ Cardinality(newer(n)) < Cardinality(newer(m))
      BY <1>2, <1>4, SmallerPart
    <3> QED BY <1>5, <2>3, <3>1
  <2>5. Cardinality(newer(m)) = 0
    BY <2>4, FS_EmptySet
  <2> QED BY <1>1, <2>5
<1>7. ASSUME NEW n \in FirstByDate(rows), NEW m \in rows, m >= n
      PROVE  m \in FirstByDate(rows)
  <2>1. n \in rows /\ Cardinality(newer(n)) < Limit
    BY <1>1
  <2>2. Cardinality(newer(m)) <= Cardinality(newer(n))
    BY <1>2, <1>3, <1>7, <2>1, SmallerPart
  <2> QED BY <1>1, <1>5, <2>1, <2>2
<1>8. Cardinality(rows) \in Nat
  BY FinitePart
<1>9. ASSUME Cardinality(rows) <= Limit PROVE FirstByDate(rows) = rows
  <2>1. \A m \in rows : Cardinality(newer(m)) < Limit
    BY <1>5, <1>8, <1>9
  <2> QED BY <1>1, <2>1
<1>10. FirstByDate(rows) \subseteq rows
  BY <1>1
<1> QED BY <1>6, <1>7, <1>9, <1>10

\* A page of the rows with the lowest numbers has with each those with lower ones.
LEMMA PageBySeq ==
  ASSUME TypeOK, NEW rows \in SUBSET Message,
         NEW n \in FirstBySeq(rows), NEW m \in rows, seqOf[m] <= seqOf[n]
  PROVE  m \in FirstBySeq(rows)
<1> DEFINE lower(k) == {j \in rows : seqOf[j] < seqOf[k]}
<1>1. seqOf \in [Message -> 0..MaxSeq]
  BY DEF TypeOK
<1>2. FirstBySeq(rows) = {k \in rows : Cardinality(lower(k)) < Limit}
  BY DEF FirstBySeq
<1>3. n \in rows /\ Cardinality(lower(n)) < Limit
  BY <1>2
<1>4. seqOf[m] \in Nat /\ seqOf[n] \in Nat /\ \A j \in rows : seqOf[j] \in Nat
  BY <1>1, <1>3
<1>5. lower(m) \in SUBSET lower(n) /\ lower(n) \in SUBSET Message /\ lower(m) \in SUBSET Message
  <2>1. \A j \in rows : seqOf[j] < seqOf[m] => seqOf[j] < seqOf[n]
    BY <1>4
  <2> QED BY <2>1
<1> HIDE DEF lower
<1>6. Cardinality(lower(m)) <= Cardinality(lower(n)) /\ Cardinality(lower(n)) \in Nat
      /\ Cardinality(lower(m)) \in Nat
  BY <1>5, FinitePart, SmallerPart
<1> QED BY <1>2, <1>3, <1>6

\* What one page does to a browse
LEMMA Shown ==
  ASSUME TypeOK, NEW rows \in SUBSET Message, Show(rows)
  PROVE  /\ browsed' = browsed \cup FirstByDate(rows) /\ FirstByDate(rows) \subseteq rows
         /\ browsing' \in BOOLEAN
         /\ browsing' => rows # {}
         /\ rows = {} => last' = last
         /\ rows # {} => last' \in FirstByDate(rows) /\ \A m \in FirstByDate(rows) : m >= last'
         /\ \A m \in rows : (browsing' => m >= last') => m \in FirstByDate(rows)
<1> DEFINE page == FirstByDate(rows)
<1>1. /\ browsed' = browsed \cup page
      /\ last' = IF rows = {} THEN last ELSE Min(page)
      /\ browsing' = (Cardinality(rows) > Limit)
  BY DEF Show
<1>2. page \subseteq rows /\ page \in SUBSET Nat /\ (rows # {} => page # {})
  BY PageByDate
<1>3. Cardinality(rows) \in Nat
  BY FinitePart
<1>4. browsing' => rows # {}
  <2>1. rows = {} => ~ (Cardinality(rows) > Limit)
    BY FS_EmptySet
  <2> QED BY <1>1, <2>1, Zenon
<1>5. rows # {} => last' \in page /\ \A m \in page : last' <= m
  <2> HIDE DEF page
  <2> QED BY <1>1, <1>2, LeastElement
<1>6. rows # {} => \A m \in page : m >= last'
  BY <1>2, <1>5
<1>7. ASSUME NEW m \in rows, browsing' => m >= last'
      PROVE  m \in page
  <2>1. CASE browsing'
    BY <1>4, <1>5, <1>7, <2>1, PageByDate
  <2>2. CASE ~ browsing'
    <3>1. ~ (Cardinality(rows) > Limit)
      BY <1>1, <2>2, Zenon
    <3>2. Cardinality(rows) <= Limit
      BY <1>3, <3>1
    <3> QED BY <3>2, PageByDate
  <2> QED BY <2>1, <2>2
<1> QED BY <1>1, <1>2, <1>4, <1>5, <1>6, <1>7

LEMMA Pulled ==
  ASSUME WriteInv, NEW page, page = FirstBySeq(After(after)), page # {}
  PROVE  /\ page \subseteq Rows
         /\ \E n \in page : Seen(page) = seqOf[n]
         /\ Seen(page) \in 1..nextSeq /\ Seen(page) > after
         /\ \A m \in Rows : seqOf[m] \in after + 1..Seen(page) => m \in page
<1> DEFINE numbers == {seqOf[m] : m \in page}
<1>1. page \subseteq After(after) /\ After(after) \subseteq Rows /\ Rows \subseteq table /\ table \subseteq Message
  BY DEF FirstBySeq, After, Rows, WriteInv, TypeOK
<1>2. seqOf \in [Message -> 0..MaxSeq] /\ nextSeq \in 0..MaxSeq /\ after \in 0..MaxSeq
  BY DEF WriteInv, TypeOK
<1>3. \A m \in page : seqOf[m] > after /\ seqOf[m] \in 1..nextSeq /\ seqOf[m] \in 0..MaxSeq
  BY <1>1, <1>2 DEF After, WriteInv
<1>4. numbers \in SUBSET (0..MaxSeq) /\ numbers # {}
  BY <1>3
<1>5. Max(numbers) \in numbers
  <2> HIDE DEF numbers
  <2> QED BY <1>4, GreatestElement
<1>6. PICK n \in page : Seen(page) = seqOf[n]
  BY <1>5 DEF Seen
<1>7. Seen(page) \in 1..nextSeq /\ Seen(page) > after
  BY <1>3, <1>6
<1>8. ASSUME NEW m \in Rows, seqOf[m] \in after + 1..Seen(page)
      PROVE  m \in page
  <2>1. m \in After(after)
    BY <1>2, <1>8, <1>7 DEF After
  <2>2. TypeOK /\ After(after) \in SUBSET Message /\ n \in FirstBySeq(After(after))
    BY <1>1, <1>6 DEF WriteInv
  <2>3. seqOf[m] <= seqOf[n]
    BY <1>2, <1>6, <1>7, <1>8
  <2> QED BY <2>1, <2>2, <2>3, PageBySeq
<1> QED BY <1>1, <1>6, <1>7, <1>8

-----------------------------------------------------------------------------
(* Writers *)

LEMMA InsertStep ==
  ASSUME WriteInv, NEW w \in Inserter, NEW batch \in SUBSET Message, Insert(w, batch)
  PROVE  /\ WriteInv'
         /\ BrowseInv => BrowseInv'
         /\ PullInv => PullInv'
<1> DEFINE rank(m) == Cardinality({n \in batch : n <= m})
           fresh == batch \ table
<1>1. /\ pending[w] = {}
      /\ batch \cap InFlight = {}
      /\ \A m \in batch : m > floor
      /\ nextSeq + Cardinality(batch) <= MaxSeq
      /\ nextSeq' = nextSeq + Cardinality(batch)
      /\ seqOf' = [m \in Message |-> IF m \in fresh THEN nextSeq + rank(m) ELSE seqOf[m]]
      /\ pending' = [pending EXCEPT ![w] = fresh]
      /\ overlapped' = (overlapped \/ InFlight # {})
      /\ UNCHANGED <<floor, table, queryVars, pullVars, browseVars>>
  BY DEF Insert
<1>2. /\ Cardinality(batch) \in Nat
      /\ \A m \in batch : rank(m) \in 1..Cardinality(batch)
  <2>1. Cardinality(batch) \in Nat
    BY FinitePart
  <2>2. ASSUME NEW m \in batch PROVE rank(m) \in 1..Cardinality(batch)
    <3> DEFINE upto == {n \in batch : n <= m}
    <3>0. m <= m
      OBVIOUS
    <3>1. upto \in SUBSET batch /\ upto \in SUBSET Message /\ m \in upto
      BY <3>0, Zenon
    <3> HIDE DEF upto
    <3>2. Cardinality(upto) \in Nat /\ Cardinality(upto) <= Cardinality(batch) /\ IsFiniteSet(upto)
      BY <3>1, FinitePart, SmallerPart
    <3>3. Cardinality(upto) # 0
      BY <3>1, <3>2, FS_EmptySet
    <3> QED BY <2>1, <3>2, <3>3 DEF upto
  <2> QED BY <2>1, <2>2
<1> HIDE DEF rank
<1>3. /\ nextSeq \in 0..MaxSeq /\ nextSeq' \in 0..MaxSeq /\ nextSeq <= nextSeq'
      /\ after \in 0..MaxSeq
      /\ pending \in [Inserter -> SUBSET Message] /\ seqOf \in [Message -> 0..MaxSeq]
  BY <1>1, <1>2 DEF WriteInv, TypeOK
<1>4. /\ \A m \in fresh : seqOf'[m] \in nextSeq + 1..nextSeq'
      /\ \A m \in Message \ fresh : seqOf'[m] = seqOf[m]
      /\ seqOf' \in [Message -> 0..MaxSeq]
  <2>1. \A m \in fresh : nextSeq + rank(m) \in nextSeq + 1..nextSeq' /\ nextSeq + rank(m) \in 0..MaxSeq
    BY <1>1, <1>2, <1>3
  <2> QED BY <1>1, <1>3, <2>1
<1>5. /\ pending' \in [Inserter -> SUBSET Message]
      /\ pending'[w] = fresh
      /\ \A v \in Inserter \ {w} : pending'[v] = pending[v]
      /\ InFlight' = InFlight \cup fresh
  <2>1. /\ pending' \in [Inserter -> SUBSET Message]
        /\ pending'[w] = fresh
        /\ \A v \in Inserter \ {w} : pending'[v] = pending[v]
    BY <1>1, <1>3
  <2>2. InFlight' = InFlight \cup fresh
    BY <1>1, <2>1 DEF InFlight
  <2> QED BY <2>1, <2>2
<1>6. \A v \in Inserter : pending[v] \cap batch = {} /\ pending[v] \subseteq InFlight
  BY <1>1 DEF InFlight
<1>7. TypeOK'
  <2>1. overlapped' \in BOOLEAN
    BY <1>1, Zenon DEF WriteInv, TypeOK
  <2> QED BY <1>1, <1>3, <1>4, <1>5, <2>1 DEF WriteInv, TypeOK, queryVars, pullVars, browseVars
<1>8. WriteInv'
  <2>1. \A v \in Inserter : \A m \in pending'[v] : m > floor' /\ m \notin table'
    BY <1>1, <1>5 DEF WriteInv
  <2>2. \A u, v \in Inserter : u # v => pending'[u] \cap pending'[v] = {}
    BY <1>5, <1>6 DEF WriteInv
  <2>3. \A m \in table' \cup InFlight' : seqOf'[m] \in 1..nextSeq'
    <3>1. \A m \in table \cup InFlight : m \in Message \ fresh /\ seqOf[m] \in 1..nextSeq
      <4>1. InFlight \subseteq Message /\ table \subseteq Message
        BY <1>3 DEF WriteInv, TypeOK, InFlight
      <4> QED BY <1>1, <4>1 DEF WriteInv
    <3>2. \A m \in table \cup InFlight : seqOf'[m] \in 1..nextSeq'
      <4>1. 1..nextSeq \subseteq 1..nextSeq'
        BY <1>3
      <4>2. \A m \in table \cup InFlight : seqOf'[m] = seqOf[m]
        BY <1>4, <3>1
      <4> QED BY <3>1, <4>1, <4>2
    <3>3. \A m \in fresh : seqOf'[m] \in 1..nextSeq'
      BY <1>3, <1>4
    <3> QED BY <1>1, <1>5, <3>2, <3>3
  <2> QED BY <1>1, <1>3, <1>7, <2>1, <2>2, <2>3 DEF WriteInv, pullVars
<1>9. BrowseInv => BrowseInv'
  BY <1>1 DEF BrowseInv, BrowseComplete, queryVars, browseVars
<1>10. ASSUME PullInv PROVE PullInv'
  <2> SUFFICES ASSUME ~ overlapped' PROVE SerialInv'
    BY DEF PullInv
  <2>1. ~ overlapped /\ InFlight = {}
    BY <1>1, Zenon
  <2>2. SerialInv /\ InFlight' = fresh
    BY <1>5, <1>10, <2>1 DEF PullInv
  <2>3. \A u, v \in Inserter : u = v \/ pending'[u] = {} \/ pending'[v] = {}
    BY <1>5, <1>6, <2>1
  <2>4. \A m \in table : m \in Message \ fresh /\ seqOf[m] \in 1..nextSeq
    BY DEF WriteInv, TypeOK
  <2>5. Skipped' = {}
    BY <1>1, <1>4, <2>2, <2>4 DEF SerialInv, Skipped, Rows, queryVars, pullVars
  <2>6. \A m \in fresh : seqOf'[m] > after /\ \A n \in table : seqOf'[n] < seqOf'[m]
    <3>1. after <= nextSeq /\ \A n \in table : seqOf'[n] \in 1..nextSeq
      BY <1>4, <2>4 DEF WriteInv
    <3> QED BY <1>3, <1>4, <3>1
  <2> QED BY <1>1, <2>2, <2>3, <2>5, <2>6 DEF SerialInv, pullVars
<1> QED BY <1>8, <1>9, <1>10

LEMMA CommitStep ==
  ASSUME WriteInv, NEW w \in Inserter, Commit(w)
  PROVE  /\ WriteInv'
         /\ BrowseInv => BrowseInv'
         /\ PullInv => PullInv'
<1>1. /\ table' = table \cup pending[w]
      /\ pending' = [pending EXCEPT ![w] = {}]
      /\ UNCHANGED <<nextSeq, floor, seqOf, overlapped, queryVars, pullVars, browseVars>>
  BY DEF Commit
<1>2. /\ pending \in [Inserter -> SUBSET Message] /\ pending' \in [Inserter -> SUBSET Message]
      /\ pending'[w] = {}
      /\ \A v \in Inserter \ {w} : pending'[v] = pending[v]
  BY <1>1 DEF WriteInv, TypeOK
<1>3. InFlight' \subseteq InFlight /\ pending[w] \subseteq InFlight
  BY <1>2 DEF InFlight
<1>4. TypeOK'
  BY <1>1, <1>2 DEF WriteInv, TypeOK, queryVars, pullVars, browseVars
<1>5. WriteInv'
  <2>1. \A v \in Inserter : \A m \in pending'[v] : m > floor' /\ m \notin table'
    BY <1>1, <1>2 DEF WriteInv
  <2>2. \A u, v \in Inserter : u # v => pending'[u] \cap pending'[v] = {}
    BY <1>2 DEF WriteInv
  <2>3. \A m \in table' \cup InFlight' : seqOf'[m] \in 1..nextSeq'
    BY <1>1, <1>3 DEF WriteInv
  <2> QED BY <1>1, <1>4, <2>1, <2>2, <2>3 DEF WriteInv, pullVars
<1>6. ASSUME BrowseInv PROVE BrowseInv'
  <2>1. \A m \in atStart : m \notin pending[w]
    <3> SUFFICES ASSUME NEW m \in atStart, m \in pending[w] PROVE FALSE
      OBVIOUS
    <3>1. m > floor /\ m \notin table
      BY DEF WriteInv
    <3>2. m <= floor
      BY <1>6, <3>1 DEF BrowseInv
    <3>3. m \in Int /\ floor \in Int
      BY DEF WriteInv, TypeOK
    <3> QED BY <3>1, <3>2, <3>3
  <2>2. BrowseComplete'
    BY <1>1, <1>6, <2>1 DEF BrowseInv, BrowseComplete, browseVars
  <2> QED BY <1>1, <1>6, <2>2 DEF BrowseInv, queryVars, browseVars
<1>7. ASSUME PullInv PROVE PullInv'
  <2> SUFFICES ASSUME ~ overlapped PROVE SerialInv'
    BY <1>1 DEF PullInv
  <2>1. SerialInv
    BY <1>7 DEF PullInv
  <2>2. \A v \in Inserter : pending'[v] = {}
    BY <1>2, <2>1 DEF SerialInv, Commit
  <2>3. InFlight' = {}
    BY <2>2 DEF InFlight
  <2>4. ASSUME NEW m \in Rows', seqOf[m] <= after PROVE m \in pulled \cup late
    <3>1. m \notin pending[w]
      <4> SUFFICES ASSUME m \in pending[w] PROVE FALSE
        OBVIOUS
      <4>1. seqOf[m] > after /\ seqOf[m] \in Int /\ after \in Int
        BY <1>2, <1>3, <2>1 DEF SerialInv, WriteInv, TypeOK
      <4> QED BY <2>4, <4>1
    <3> QED BY <1>1, <2>1, <2>4, <3>1 DEF SerialInv, Skipped, Rows, queryVars
  <2>5. Skipped' = {}
    BY <1>1, <2>4 DEF Skipped, pullVars
  <2> QED BY <2>2, <2>3, <2>5 DEF SerialInv
<1> QED BY <1>5, <1>6, <1>7

LEMMA RollbackStep ==
  ASSUME WriteInv, NEW w \in Inserter, Rollback(w)
  PROVE  /\ WriteInv'
         /\ BrowseInv => BrowseInv'
         /\ PullInv => PullInv'
<1>1. /\ seqOf' = [m \in Message |-> IF m \in pending[w] THEN 0 ELSE seqOf[m]]
      /\ pending' = [pending EXCEPT ![w] = {}]
      /\ UNCHANGED <<nextSeq, floor, table, overlapped, queryVars, pullVars, browseVars>>
  BY DEF Rollback
<1>2. /\ pending \in [Inserter -> SUBSET Message] /\ pending' \in [Inserter -> SUBSET Message]
      /\ pending'[w] = {}
      /\ \A v \in Inserter \ {w} : pending'[v] = pending[v]
      /\ table \subseteq Message
  BY <1>1 DEF WriteInv, TypeOK
<1>3. InFlight' \subseteq InFlight /\ InFlight \subseteq Message /\ InFlight' \cap pending[w] = {}
  BY <1>2 DEF InFlight, WriteInv
<1>4. \A m \in table \cup InFlight' : m \in Message /\ m \notin pending[w]
  BY <1>2, <1>3 DEF WriteInv
<1>5. \A m \in table \cup InFlight' : seqOf'[m] = seqOf[m]
  BY <1>1, <1>4
<1>6. TypeOK'
  <2>1. seqOf' \in [Message -> 0..MaxSeq]
    BY <1>1 DEF WriteInv, TypeOK
  <2> QED BY <1>1, <1>2, <2>1 DEF WriteInv, TypeOK, queryVars, pullVars, browseVars
<1>7. WriteInv'
  <2>1. \A v \in Inserter : \A m \in pending'[v] : m > floor' /\ m \notin table'
    BY <1>1, <1>2 DEF WriteInv
  <2>2. \A u, v \in Inserter : u # v => pending'[u] \cap pending'[v] = {}
    BY <1>2 DEF WriteInv
  <2>3. \A m \in table' \cup InFlight' : seqOf'[m] \in 1..nextSeq'
    BY <1>1, <1>3, <1>5 DEF WriteInv
  <2> QED BY <1>1, <1>6, <2>1, <2>2, <2>3 DEF WriteInv, pullVars
<1>8. BrowseInv => BrowseInv'
  BY <1>1 DEF BrowseInv, BrowseComplete, queryVars, browseVars
<1>9. ASSUME PullInv PROVE PullInv'
  <2> SUFFICES ASSUME ~ overlapped PROVE SerialInv'
    BY <1>1 DEF PullInv
  <2>1. SerialInv
    BY <1>9 DEF PullInv
  <2>2. \A v \in Inserter : pending'[v] = {}
    BY <1>2, <2>1 DEF SerialInv, Rollback
  <2>3. InFlight' = {}
    BY <2>2 DEF InFlight
  <2>4. Skipped' = {}
    BY <1>1, <1>5, <2>1 DEF SerialInv, Skipped, Rows, queryVars, pullVars
  <2> QED BY <2>2, <2>3, <2>4 DEF SerialInv
<1> QED BY <1>7, <1>8, <1>9

LEMMA DropPartitionStep ==
  ASSUME WriteInv, NEW m \in Message, DropPartition(m)
  PROVE  /\ WriteInv'
         /\ BrowseInv => BrowseInv'
         /\ PullInv => PullInv'
<1>1. /\ InFlight = {}
      /\ m > floor
      /\ floor' = m
      /\ table' = {n \in table : n > m}
      /\ UNCHANGED <<nextSeq, pending, seqOf, overlapped, queryVars, pullVars, browseVars>>
  BY DEF DropPartition
<1>2. InFlight' = {} /\ \A w \in Inserter : pending'[w] = {}
  BY <1>1 DEF InFlight
<1>3. TypeOK'
  BY <1>1 DEF WriteInv, TypeOK, queryVars, pullVars, browseVars
<1>4. WriteInv'
  BY <1>1, <1>2, <1>3 DEF WriteInv, pullVars
<1>5. ASSUME BrowseInv PROVE BrowseInv'
  <2>1. ASSUME NEW n \in atStart, n \notin table' PROVE n <= m
    <3>1. n \in Nat /\ m \in Nat /\ floor \in Int
      BY DEF WriteInv, TypeOK
    <3>2. CASE n \in table
      BY <1>1, <2>1, <3>1, <3>2
    <3>3. CASE n \notin table
      BY <1>1, <1>5, <3>1, <3>3 DEF BrowseInv
    <3> QED BY <3>2, <3>3
  <2> QED BY <1>1, <1>5, <2>1 DEF BrowseInv, BrowseComplete, queryVars, browseVars
<1>6. PullInv => PullInv'
  BY <1>1, <1>2 DEF PullInv, SerialInv, Skipped, Rows, queryVars, pullVars
<1> QED BY <1>4, <1>5, <1>6

-----------------------------------------------------------------------------
(* The user *)

LEMMA AddSourceStep ==
  ASSUME WriteInv, NEW s \in Source, AddSourceToTopic(s)
  PROVE  /\ WriteInv'
         /\ BrowseInv => BrowseInv'
         /\ PullInv => PullInv'
<1>1. /\ changes < MaxChanges /\ changes' = changes + 1
      /\ selected' = selected \cup {s}
      /\ late' = late \cup {m \in Of(s) : seqOf[m] \in 1..after}
      /\ UNCHANGED <<nextSeq, floor, pending, table, seqOf, overlapped, token, after, pulled, browseVars>>
  BY DEF AddSourceToTopic, Change, writeVars
<1>2. Of(s) \subseteq Message /\ InFlight' = InFlight
  BY <1>1 DEF Of, InFlight
<1>3. changes' \in 0..MaxChanges
  BY <1>1 DEF WriteInv, TypeOK
<1>4. TypeOK'
  BY <1>1, <1>2, <1>3 DEF WriteInv, TypeOK, browseVars
<1>5. WriteInv'
  BY <1>1, <1>2, <1>4 DEF WriteInv
<1>6. BrowseInv => BrowseInv'
  BY <1>1 DEF BrowseInv, BrowseComplete, browseVars
<1>7. ASSUME PullInv PROVE PullInv'
  <2> SUFFICES ASSUME SerialInv PROVE SerialInv'
    BY <1>1, <1>7 DEF PullInv
  <2>1. ASSUME NEW m \in Rows', seqOf[m] <= after PROVE m \in pulled \cup late'
    <3>1. m \in Message /\ m \in table /\ SourceOf[m] \in selected \cup {s}
      BY <1>1 DEF Rows, WriteInv, TypeOK
    <3>2. CASE SourceOf[m] \in selected
      BY <1>1, <2>1, <3>1, <3>2 DEF SerialInv, Skipped, Rows
    <3>3. CASE SourceOf[m] = s
      <4>1. seqOf[m] \in 1..after
        BY <2>1, <3>1 DEF WriteInv, TypeOK
      <4> QED BY <1>1, <3>1, <3>3, <4>1 DEF Of
    <3> QED BY <3>1, <3>2, <3>3
  <2>2. Skipped' = {}
    BY <1>1, <2>1 DEF Skipped
  <2> QED BY <1>1, <1>2, <2>2 DEF SerialInv
<1> QED BY <1>5, <1>6, <1>7

LEMMA RemoveSourceStep ==
  ASSUME WriteInv, NEW s \in Source, RemoveSourceFromTopic(s)
  PROVE  /\ WriteInv'
         /\ BrowseInv => BrowseInv'
         /\ PullInv => PullInv'
<1>1. /\ changes < MaxChanges /\ changes' = changes + 1
      /\ selected' = selected \ {s}
      /\ late' = late \ Of(s)
      /\ atStart' = atStart \ Of(s)
      /\ UNCHANGED <<nextSeq, floor, pending, table, seqOf, overlapped, token, after, pulled, browsing, last, browsed>>
  BY DEF RemoveSourceFromTopic, Change, writeVars
<1>2. InFlight' = InFlight
  BY <1>1 DEF InFlight
<1>3. changes' \in 0..MaxChanges
  BY <1>1 DEF WriteInv, TypeOK
<1>4. TypeOK'
  BY <1>1, <1>3 DEF WriteInv, TypeOK
<1>5. WriteInv'
  BY <1>1, <1>2, <1>4 DEF WriteInv
<1>6. ASSUME BrowseInv PROVE BrowseInv'
  <2>1. \A m \in atStart' : SourceOf[m] \in selected'
    BY <1>1, <1>6 DEF BrowseInv, Of, WriteInv, TypeOK
  <2> QED BY <1>1, <1>6, <2>1 DEF BrowseInv, BrowseComplete
<1>7. ASSUME PullInv PROVE PullInv'
  <2> SUFFICES ASSUME SerialInv PROVE SerialInv'
    BY <1>1, <1>7 DEF PullInv
  <2>1. ASSUME NEW m \in Rows', seqOf[m] <= after PROVE m \in pulled \cup late'
    <3>1. m \in Rows /\ m \notin Of(s)
      BY <1>1 DEF Rows, Of
    <3> QED BY <1>1, <2>1, <3>1 DEF SerialInv, Skipped
  <2>2. Skipped' = {}
    BY <1>1, <2>1 DEF Skipped
  <2> QED BY <1>1, <1>2, <2>2 DEF SerialInv
<1> QED BY <1>5, <1>6, <1>7

LEMMA TokenStep ==
  ASSUME WriteInv, RevokeApiToken \/ CreateApiToken
  PROVE  /\ WriteInv'
         /\ BrowseInv => BrowseInv'
         /\ PullInv => PullInv'
<1>1. /\ changes < MaxChanges /\ changes' = changes + 1
      /\ token' \in BOOLEAN
      /\ UNCHANGED <<nextSeq, floor, pending, table, seqOf, overlapped, selected, after, pulled, late>>
      /\ UNCHANGED <<browsing, last, browsed, atStart>>
  BY DEF RevokeApiToken, CreateApiToken, Change, writeVars, pullVars, browseVars
<1>2. InFlight' = InFlight
  BY <1>1 DEF InFlight
<1>3. changes' \in 0..MaxChanges
  BY <1>1 DEF WriteInv, TypeOK
<1>4. TypeOK'
  BY <1>1, <1>3 DEF WriteInv, TypeOK
<1>5. WriteInv'
  BY <1>1, <1>2, <1>4 DEF WriteInv
<1>6. BrowseInv => BrowseInv'
  BY <1>1 DEF BrowseInv, BrowseComplete
<1>7. PullInv => PullInv'
  BY <1>1, <1>2 DEF PullInv, SerialInv, Skipped, Rows
<1> QED BY <1>5, <1>6, <1>7

-----------------------------------------------------------------------------
(* Clients *)

LEMMA PullStep ==
  ASSUME WriteInv, Pull
  PROVE  /\ WriteInv'
         /\ BrowseInv => BrowseInv'
         /\ PullInv => PullInv'
<1> DEFINE page == FirstBySeq(After(after))
<1>1. /\ page # {}
      /\ pulled' = pulled \cup page
      /\ after' = Seen(page)
      /\ UNCHANGED <<nextSeq, floor, pending, table, seqOf, overlapped, selected, token, changes, late, browseVars>>
  BY DEF Pull, writeVars, queryVars
<1>2. /\ page \subseteq Rows
      /\ \E n \in page : Seen(page) = seqOf[n]
      /\ Seen(page) \in 1..nextSeq /\ Seen(page) > after
      /\ \A m \in Rows : seqOf[m] \in after + 1..Seen(page) => m \in page
  BY <1>1, Pulled
<1> HIDE DEF page
<1>3. Rows \subseteq table /\ Rows' = Rows /\ InFlight' = InFlight
  BY <1>1 DEF Rows, InFlight
<1>4. /\ table \subseteq Message /\ seqOf \in [Message -> 0..MaxSeq]
      /\ nextSeq \in 0..MaxSeq /\ after \in 0..MaxSeq
  BY DEF WriteInv, TypeOK
<1>5. after' \in 0..MaxSeq /\ after' <= nextSeq
  BY <1>1, <1>2, <1>4
<1>6. TypeOK'
  BY <1>1, <1>2, <1>3, <1>4, <1>5 DEF WriteInv, TypeOK, browseVars
<1>7. WriteInv'
  BY <1>1, <1>3, <1>5, <1>6 DEF WriteInv
<1>8. BrowseInv => BrowseInv'
  BY <1>1 DEF BrowseInv, BrowseComplete, browseVars
<1>9. ASSUME PullInv PROVE PullInv'
  <2> SUFFICES ASSUME SerialInv PROVE SerialInv'
    BY <1>1, <1>9 DEF PullInv
  <2>1. ASSUME NEW m \in Rows, seqOf[m] <= after' PROVE m \in pulled' \cup late
    <3>1. seqOf[m] \in Nat
      BY <1>3, <1>4
    <3>2. CASE seqOf[m] <= after
      BY <1>1, <3>2 DEF SerialInv, Skipped
    <3>3. CASE ~ (seqOf[m] <= after)
      <4>1. seqOf[m] \in after + 1..Seen(page)
        BY <1>1, <1>2, <1>4, <2>1, <3>1, <3>3
      <4> QED BY <1>1, <1>2, <4>1
    <3> QED BY <3>2, <3>3
  <2>2. \A m \in InFlight : seqOf[m] > after'
    BY <1>1, <1>2, <1>3 DEF SerialInv, WriteInv
  <2>3. Skipped' = {}
    BY <1>1, <1>3, <2>1 DEF Skipped
  <2> QED BY <1>1, <1>3, <2>2, <2>3 DEF SerialInv
<1> QED BY <1>7, <1>8, <1>9

\* What the steps of a browse leave alone
LEMMA BrowsingKeeps ==
  ASSUME WriteInv, TypeOK', UNCHANGED <<writeVars, queryVars, pullVars>>
  PROVE  WriteInv' /\ (PullInv => PullInv')
<1>1. /\ UNCHANGED <<nextSeq, floor, pending, table, seqOf, overlapped, selected, after, pulled, late>>
      /\ InFlight' = InFlight
  BY DEF writeVars, queryVars, pullVars, InFlight
<1> QED BY <1>1 DEF WriteInv, PullInv, SerialInv, Skipped, Rows

LEMMA StartBrowsingStep ==
  ASSUME WriteInv, StartBrowsing
  PROVE  /\ WriteInv'
         /\ BrowseInv'
         /\ PullInv => PullInv'
<1>1. /\ browsed = {}
      /\ Show(Rows)
      /\ atStart' = Rows
      /\ UNCHANGED <<writeVars, queryVars, pullVars>>
  BY DEF StartBrowsing
<1>2. UNCHANGED <<nextSeq, floor, pending, table, seqOf, overlapped, selected, token, changes, after, pulled, late>>
  BY <1>1 DEF writeVars, queryVars, pullVars
<1>3. TypeOK /\ Rows \in SUBSET Message /\ Rows \subseteq table
  BY DEF WriteInv, TypeOK, Rows
<1>4. /\ browsed' = FirstByDate(Rows) /\ FirstByDate(Rows) \subseteq Rows
      /\ browsing' \in BOOLEAN
      /\ browsing' => Rows # {}
      /\ Rows = {} => last' = last
      /\ Rows # {} => last' \in FirstByDate(Rows) /\ \A m \in FirstByDate(Rows) : m >= last'
      /\ \A m \in Rows : (browsing' => m >= last') => m \in FirstByDate(Rows)
  BY <1>1, <1>3, Shown
<1>5. TypeOK'
  BY <1>1, <1>2, <1>3, <1>4 DEF TypeOK
<1>6. BrowseInv'
  BY <1>1, <1>2, <1>3, <1>4 DEF BrowseInv, BrowseComplete, Rows
<1> QED BY <1>1, <1>5, <1>6, BrowsingKeeps

LEMMA NextPageStep ==
  ASSUME WriteInv, BrowseInv, NextPage
  PROVE  /\ WriteInv' /\ BrowseInv' /\ (PullInv => PullInv')
         /\ FirstByDate(Before(last)) \cap browsed = {}
<1> DEFINE rows == Before(last)
<1>1. /\ browsing
      /\ Show(rows)
      /\ UNCHANGED <<atStart, writeVars, queryVars, pullVars>>
  BY DEF NextPage
<1>2. UNCHANGED <<nextSeq, floor, pending, table, seqOf, overlapped, selected, token, changes, after, pulled, late>>
  BY <1>1 DEF writeVars, queryVars, pullVars
<1>3. TypeOK /\ table \subseteq Message /\ rows \in SUBSET Message /\ rows \subseteq table
  BY DEF WriteInv, TypeOK, Rows, Before
<1>4. last \in Message /\ last \in Nat /\ \A m \in browsed : m >= last /\ m \in Nat
  BY <1>1 DEF BrowseInv, WriteInv, TypeOK
<1>5. \A m \in rows : m < last
  BY DEF Before
<1>6. \A m \in atStart \cap table : m < last => m \in rows
  BY <1>3 DEF BrowseInv, Before, Rows
<1> HIDE DEF rows
<1>7. /\ browsed' = browsed \cup FirstByDate(rows) /\ FirstByDate(rows) \subseteq rows
      /\ browsing' \in BOOLEAN
      /\ browsing' => rows # {}
      /\ rows = {} => last' = last
      /\ rows # {} => last' \in FirstByDate(rows) /\ \A m \in FirstByDate(rows) : m >= last'
      /\ \A m \in rows : (browsing' => m >= last') => m \in FirstByDate(rows)
  BY <1>1, <1>3, Shown
<1>8. FirstByDate(rows) \cap browsed = {}
  <2>1. ASSUME NEW m \in rows, m \in browsed PROVE FALSE
    <3>1. m < last /\ m >= last /\ m \in Nat
      BY <1>4, <1>5, <2>1
    <3> QED BY <1>4, <3>1
  <2> QED BY <1>7, <2>1
<1>9. TypeOK'
  BY <1>1, <1>2, <1>3, <1>7 DEF TypeOK
<1>10. BrowseComplete'
  <2> SUFFICES ASSUME NEW m \in atStart, m \in table, browsing' => m >= last'
               PROVE  m \in browsed'
    BY <1>1, <1>2 DEF BrowseComplete
  <2>1. m \in Nat
    BY <1>3
  <2>2. CASE m >= last
    BY <1>7, <2>2 DEF BrowseInv, BrowseComplete
  <2>3. CASE m < last
    BY <1>6, <1>7, <2>3
  <2> QED BY <1>4, <2>1, <2>2, <2>3
<1>11. ASSUME browsing' PROVE last' \in Message /\ \A m \in browsed' : m >= last'
  <2>1. last' \in rows /\ last' \in Message /\ last' < last /\ last' \in Nat
    BY <1>3, <1>5, <1>7, <1>11
  <2>2. \A m \in browsed : m >= last'
    BY <1>4, <2>1
  <2> QED BY <1>7, <1>11, <2>1, <2>2
<1>12. BrowseInv'
  BY <1>1, <1>2, <1>10, <1>11 DEF BrowseInv
<1> QED BY <1>1, <1>8, <1>9, <1>12, BrowsingKeeps DEF rows

LEMMA ReloadStep ==
  ASSUME WriteInv, Reload
  PROVE  /\ WriteInv'
         /\ BrowseInv'
         /\ PullInv => PullInv'
<1>1. /\ browsing' = FALSE /\ last' = NoMessage /\ browsed' = {} /\ atStart' = {}
      /\ UNCHANGED <<writeVars, queryVars, pullVars>>
  BY DEF Reload
<1>2. TypeOK'
  BY <1>1 DEF WriteInv, TypeOK, writeVars, queryVars, pullVars
<1>3. BrowseInv'
  BY <1>1 DEF BrowseInv, BrowseComplete
<1> QED BY <1>1, <1>2, <1>3, BrowsingKeeps

-----------------------------------------------------------------------------
(* The theorems *)

LEMMA Initially ==
  ASSUME Init
  PROVE  WriteInv /\ BrowseInv /\ PullInv
<1>1. InFlight = {} /\ Rows = {}
  BY DEF Init, InFlight, Rows
<1>2. TypeOK
  <2>1. 0 \in 0..MaxSeq /\ 0 \in 0..MaxChanges
    OBVIOUS
  <2>2. /\ nextSeq = 0 /\ changes = 0 /\ after = 0 /\ floor = -1 /\ overlapped = FALSE
        /\ seqOf \in [Message -> 0..MaxSeq] /\ pending \in [Inserter -> SUBSET Message]
    BY <2>1 DEF Init
  <2>3. /\ table = {} /\ selected = Source /\ token = TRUE /\ pulled = {} /\ late = {}
        /\ browsing = FALSE /\ last = NoMessage /\ browsed = {} /\ atStart = {}
    BY DEF Init
  <2> QED BY <2>1, <2>2, <2>3 DEF TypeOK
<1>3. WriteInv
  BY <1>1, <1>2 DEF Init, WriteInv
<1>4. BrowseInv /\ PullInv
  BY <1>1 DEF Init, BrowseInv, BrowseComplete, PullInv, SerialInv, Skipped
<1> QED BY <1>3, <1>4

LEMMA Stuttering ==
  ASSUME WriteInv, UNCHANGED vars
  PROVE  /\ WriteInv'
         /\ BrowseInv => BrowseInv'
         /\ PullInv => PullInv'
<1>1. /\ UNCHANGED <<nextSeq, floor, pending, table, seqOf, overlapped, selected, token, changes, after, pulled, late>>
      /\ UNCHANGED <<browsing, last, browsed, atStart>>
  BY DEF vars, writeVars, queryVars, pullVars, browseVars
<1>2. InFlight' = InFlight
  BY <1>1 DEF InFlight
<1>3. TypeOK'
  BY <1>1 DEF WriteInv, TypeOK
<1>4. WriteInv'
  BY <1>1, <1>2, <1>3 DEF WriteInv
<1>5. BrowseInv => BrowseInv'
  BY <1>1 DEF BrowseInv, BrowseComplete
<1>6. PullInv => PullInv'
  BY <1>1, <1>2 DEF PullInv, SerialInv, Skipped, Rows
<1> QED BY <1>4, <1>5, <1>6

LEMMA Invariance == Spec => [](WriteInv /\ BrowseInv)
<1>1. Init => WriteInv /\ BrowseInv
  BY Initially
<1>2. WriteInv /\ BrowseInv /\ [Next]_vars => (WriteInv /\ BrowseInv)'
  BY InsertStep, CommitStep, RollbackStep, DropPartitionStep, AddSourceStep, RemoveSourceStep,
     TokenStep, PullStep, StartBrowsingStep, NextPageStep, ReloadStep, Stuttering DEF Next
<1> QED BY <1>1, <1>2, PTL DEF Spec

\* Every variable has a value of its kind (TypeOK).
THEOREM TypeCorrect == Spec => []TypeOK
<1>1. WriteInv => TypeOK
  BY DEF WriteInv
<1> QED BY <1>1, Invariance, PTL

\* A browse misses no message that was there when it began and is there still
\* (listMessages with a cursor of (published_at, id)).
THEOREM BrowseIsComplete == Spec => []BrowseComplete
<1>1. BrowseInv => BrowseComplete
  BY DEF BrowseInv
<1> QED BY <1>1, Invariance, PTL

\* No message is on two pages of a browse (the same).
THEOREM PagesAreDisjoint == Spec => PagesDisjoint
<1>1. WriteInv /\ BrowseInv /\ [Next]_vars =>
        [NextPage => FirstByDate(Before(last)) \cap browsed = {}]_vars
  BY NextPageStep
<1> QED BY <1>1, Invariance, PTL DEF Spec, PagesDisjoint

LEMMA PullInvariance == Spec => []PullInv
<1>1. Init => PullInv
  BY Initially
<1>2. WriteInv /\ BrowseInv /\ PullInv /\ [Next]_vars => PullInv'
  BY InsertStep, CommitStep, RollbackStep, DropPartitionStep, AddSourceStep, RemoveSourceStep,
     TokenStep, PullStep, StartBrowsingStep, NextPageStep, ReloadStep, Stuttering DEF Next
<1> QED BY <1>1, <1>2, Invariance, PTL DEF Spec

\* A client that polls with the highest number it has seen misses nothing, until
\* two INSERTs of one user are in flight at once (listMessages with after_seq,
\* insertMessages).
THEOREM PullSkipsNothing == Spec => []NoneSkipped
<1>1. PullInv => NoneSkipped
  BY DEF PullInv, SerialInv, NoneSkipped
<1> QED BY <1>1, PullInvariance, PTL

-----------------------------------------------------------------------------
(* The pull as a subscription *)

LEMMA SamePulled ==
  ASSUME WriteInv, OnceInv, UNCHANGED <<floor, pulled, after>>, table \subseteq table',
         \A m \in table' : m > floor, \A m \in table : seqOf'[m] = seqOf[m]
  PROVE  OnceInv'
BY DEF OnceInv

\* The rows that are committed keep their numbers.
LEMMA NumbersKept ==
  ASSUME WriteInv, \/ \E w \in Inserter, batch \in SUBSET Message : Insert(w, batch)
                   \/ \E w \in Inserter : Rollback(w)
  PROVE  /\ UNCHANGED <<floor, table, selected, after, pulled>>
         /\ \A m \in table : seqOf'[m] = seqOf[m]
<1>1. table \subseteq Message /\ pending \in [Inserter -> SUBSET Message]
  BY DEF WriteInv, TypeOK
<1>2. CASE \E w \in Inserter, batch \in SUBSET Message : Insert(w, batch)
  BY <1>1, <1>2 DEF Insert, queryVars, pullVars
<1>3. CASE \E w \in Inserter : Rollback(w)
  <2>1. PICK w \in Inserter : Rollback(w)
    BY <1>3
  <2>2. \A m \in table : m \notin pending[w]
    BY DEF WriteInv
  <2> QED BY <1>1, <2>1, <2>2 DEF Rollback, queryVars, pullVars
<1> QED BY <1>2, <1>3

LEMMA PulledPage ==
  ASSUME WriteInv, Pull
  PROVE  /\ UNCHANGED <<floor, table, seqOf, selected, overlapped>>
         /\ pulled' = pulled \cup FirstBySeq(After(after))
         /\ FirstBySeq(After(after)) \subseteq Rows
         /\ after' > after
         /\ \A m \in After(after) : m \in FirstBySeq(After(after)) <=> ~ (seqOf[m] > after')
         /\ \A m \in Rows : seqOf[m] > after' => m \in After(after)
<1> DEFINE page == FirstBySeq(After(after))
           numbers == {seqOf[m] : m \in page}
<1>1. /\ page # {} /\ after' = Seen(page) /\ pulled' = pulled \cup page
      /\ UNCHANGED <<floor, table, seqOf, selected, overlapped>>
  BY DEF Pull, writeVars, queryVars
<1>2. /\ page \subseteq Rows
      /\ Seen(page) \in 1..nextSeq /\ Seen(page) > after
      /\ \A m \in Rows : seqOf[m] \in after + 1..Seen(page) => m \in page
  BY <1>1, Pulled
<1>3. /\ Rows \subseteq table /\ table \subseteq Message /\ seqOf \in [Message -> 0..MaxSeq]
      /\ after \in 0..MaxSeq /\ nextSeq \in 0..MaxSeq
  BY DEF Rows, WriteInv, TypeOK
<1>4. \A m \in Rows : seqOf[m] \in 0..MaxSeq
  BY <1>3
<1>5. After(after) = {m \in Rows : seqOf[m] > after}
  BY DEF After
<1> HIDE DEF page
<1>6. ASSUME NEW m \in page PROVE seqOf[m] <= Seen(page)
  <2>1. numbers \in SUBSET (0..MaxSeq) /\ seqOf[m] \in numbers
    BY <1>2, <1>4
  <2>2. \A k \in numbers : k <= Max(numbers)
    <3> HIDE DEF numbers
    <3> QED BY <2>1, GreatestElement
  <2> QED BY <2>1, <2>2 DEF Seen
<1>7. ASSUME NEW m \in After(after) PROVE m \in page <=> ~ (seqOf[m] > after')
  <2>1. m \in Rows /\ seqOf[m] > after /\ seqOf[m] \in Nat /\ Seen(page) \in Nat
    BY <1>2, <1>4, <1>5
  <2>2. CASE m \in page
    BY <1>1, <1>6, <2>1, <2>2
  <2>3. CASE m \notin page
    <3>1. ~ (seqOf[m] \in after + 1..Seen(page))
      BY <1>2, <2>1, <2>3
    <3> QED BY <1>1, <1>3, <2>1, <2>3, <3>1
  <2> QED BY <2>2, <2>3
<1>8. ASSUME NEW m \in Rows, seqOf[m] > after' PROVE m \in After(after)
  <2>1. seqOf[m] > after
    BY <1>1, <1>2, <1>3, <1>4, <1>8
  <2> QED BY <1>5, <2>1
<1> QED BY <1>1, <1>2, <1>7, <1>8 DEF page

LEMMA OnceStep ==
  ASSUME WriteInv, OnceInv, [Next]_vars
  PROVE  OnceInv'
<1>1. ASSUME UNCHANGED <<floor, table, seqOf, after, pulled>> PROVE OnceInv'
  BY <1>1 DEF OnceInv
<1>2. ASSUME \/ \E w \in Inserter, batch \in SUBSET Message : Insert(w, batch)
             \/ \E w \in Inserter : Rollback(w)
      PROVE  OnceInv'
  BY <1>2, NumbersKept, SamePulled DEF OnceInv
<1>3. ASSUME NEW w \in Inserter, Commit(w) PROVE OnceInv'
  <2>1. /\ UNCHANGED <<floor, seqOf, after, pulled>> /\ table' = table \cup pending[w]
    BY <1>3 DEF Commit, queryVars, pullVars
  <2>2. \A m \in table' : m > floor
    BY <2>1 DEF WriteInv, OnceInv
  <2> QED BY <2>1, <2>2, SamePulled
<1>4. ASSUME NEW m \in Message, DropPartition(m) PROVE OnceInv'
  <2>1. /\ m > floor /\ floor' = m /\ table' = {n \in table : n > m}
        /\ UNCHANGED <<seqOf, after, pulled>>
    BY <1>4 DEF DropPartition, pullVars
  <2>2. m \in Nat /\ floor \in Int /\ table \subseteq Nat /\ pulled \subseteq Nat
    BY DEF WriteInv, TypeOK
  <2>3. ASSUME NEW n \in pulled PROVE n <= m \/ (n \in table' /\ seqOf[n] <= after)
    <3>1. n \in Nat /\ (n <= floor \/ (n \in table /\ seqOf[n] <= after))
      BY <2>2 DEF OnceInv
    <3> QED BY <2>1, <2>2, <3>1
  <2> QED BY <2>1, <2>3 DEF OnceInv
<1>5. ASSUME Pull PROVE OnceInv'
  <2>1. /\ UNCHANGED <<floor, table, seqOf>> /\ pulled' = pulled \cup FirstBySeq(After(after))
        /\ FirstBySeq(After(after)) \subseteq Rows /\ after' > after
        /\ \A m \in After(after) : m \in FirstBySeq(After(after)) <=> ~ (seqOf[m] > after')
    BY <1>5, PulledPage
  <2>2. /\ FirstBySeq(After(after)) \subseteq After(after) /\ Rows \subseteq table
        /\ table \subseteq Message /\ seqOf \in [Message -> 0..MaxSeq] /\ after \in 0..MaxSeq
    BY DEF FirstBySeq, Rows, WriteInv, TypeOK
  <2>3. after' \in Nat
    BY <1>5, PullStep DEF WriteInv, TypeOK
  <2>4. ASSUME NEW m \in pulled' PROVE m <= floor \/ (m \in table /\ seqOf[m] <= after')
    <3>1. CASE m \in FirstBySeq(After(after))
      <4>1. m \in table /\ m \in Message /\ ~ (seqOf[m] > after')
        BY <2>1, <2>2, <3>1
      <4> QED BY <2>2, <2>3, <4>1
    <3>2. CASE m \in pulled
      <4>1. m <= floor \/ (m \in table /\ m \in Message /\ seqOf[m] <= after)
        BY <2>2, <3>2 DEF OnceInv
      <4>2. ASSUME m \in table, m \in Message, seqOf[m] <= after PROVE seqOf[m] <= after'
        <5>1. seqOf[m] \in Nat /\ after \in Nat /\ after' > after
          BY <2>1, <2>2, <4>2
        <5> QED BY <2>3, <4>2, <5>1
      <4> QED BY <4>1, <4>2
    <3> QED BY <2>1, <3>1, <3>2
  <2> QED BY <2>1, <2>4 DEF OnceInv
<1>6. ASSUME NEW s \in Source, AddSourceToTopic(s) \/ RemoveSourceFromTopic(s) PROVE OnceInv'
  BY <1>1, <1>6 DEF AddSourceToTopic, RemoveSourceFromTopic, writeVars
<1>7. ASSUME RevokeApiToken \/ CreateApiToken PROVE OnceInv'
  BY <1>1, <1>7 DEF RevokeApiToken, CreateApiToken, writeVars, pullVars
<1>8. ASSUME StartBrowsing \/ NextPage \/ Reload PROVE OnceInv'
  BY <1>1, <1>8 DEF StartBrowsing, NextPage, Reload, writeVars, pullVars
<1>9. ASSUME UNCHANGED vars PROVE OnceInv'
  BY <1>1, <1>9 DEF vars, writeVars, pullVars
<1> QED BY <1>2, <1>3, <1>4, <1>5, <1>6, <1>7, <1>8, <1>9 DEF Next

LEMMA OnceInvariance == Spec => []OnceInv
<1>1. Init => OnceInv
  BY DEF Init, OnceInv
<1> QED BY <1>1, OnceStep, Invariance, PTL DEF Spec

\* "Fetch only new messages" (README, ?after_seq): nothing is pulled twice, also
\* when INSERTs overlap (OnlyNew).
THEOREM PullsOnlyNew == Spec => []OnlyNew
<1>1. WriteInv /\ OnceInv => OnlyNew
  <2> SUFFICES ASSUME WriteInv, OnceInv, NEW m \in After(after), m \in pulled PROVE FALSE
    BY DEF OnlyNew
  <2>1. m \in table /\ seqOf[m] > after
    BY DEF After, Rows
  <2>2. m \in Int /\ seqOf[m] \in Int /\ after \in Int /\ floor \in Int
    BY <2>1 DEF WriteInv, TypeOK
  <2>3. m > floor /\ (m <= floor \/ seqOf[m] <= after)
    BY <2>1 DEF OnceInv
  <2> QED BY <2>1, <2>2, <2>3
<1> QED BY <1>1, Invariance, OnceInvariance, PTL

\* Nothing that a client can see has changed.
LEMMA Unseen ==
  ASSUME UNCHANGED <<table, selected, after, pulled>>, \A m \in table : seqOf'[m] = seqOf[m]
  PROVE  UNCHANGED <<selected, Rows, After(after), pulled>>
BY DEF Rows, After

\* The rows that are committed come after everything that has been seen.
LEMMA CommitPublishes ==
  ASSUME WriteInv, OnceInv, PullInv, ~ overlapped, NEW w \in Inserter, Commit(w)
  PROVE  Promise!Publish
<1>1. /\ table' = table \cup pending[w]
      /\ UNCHANGED <<seqOf, floor, selected, after, pulled, overlapped>>
  BY DEF Commit, queryVars, pullVars
<1>2. Rows' = Rows \cup {m \in pending[w] : SourceOf[m] \in selected}
  BY <1>1 DEF Rows
<1>3. \A m \in pending[w] : seqOf[m] > after /\ m \in InFlight
  BY DEF PullInv, SerialInv, InFlight
<1>4. \A m \in pending[w] : m \notin pulled /\ m \notin table
  <2> SUFFICES ASSUME NEW m \in pending[w], m \in pulled PROVE FALSE
    BY DEF WriteInv
  <2>1. m > floor /\ m \notin table /\ m \in Int /\ floor \in Int
    BY DEF WriteInv, TypeOK
  <2> QED BY <2>1 DEF OnceInv
<1>5. After(after)' = After(after) \cup (Rows' \ Rows)
  BY <1>1, <1>2, <1>3, <1>4 DEF After, Rows
<1> QED BY <1>1, <1>2, <1>4, <1>5 DEF Promise!Publish, Rows

LEMMA DropExpires ==
  ASSUME NEW m \in Message, DropPartition(m)
  PROVE  Promise!Expire /\ UNCHANGED overlapped
<1>1. /\ table' \subseteq table /\ UNCHANGED <<seqOf, selected, after, pulled, overlapped>>
  BY DEF DropPartition, queryVars, pullVars
<1>2. Rows' \subseteq Rows /\ After(after)' = After(after) \cap Rows'
  BY <1>1 DEF Rows, After
<1> QED BY <1>1, <1>2 DEF Promise!Expire

LEMMA ChangeSelects ==
  ASSUME WriteInv, OnceInv, TypeOK', OnceInv', NEW s \in Source,
         AddSourceToTopic(s) \/ RemoveSourceFromTopic(s)
  PROVE  Promise!Select /\ UNCHANGED overlapped
<1>1. UNCHANGED <<floor, table, seqOf, after, pulled, overlapped>>
  BY DEF AddSourceToTopic, RemoveSourceFromTopic, writeVars
<1>2. After(after)' = {m \in Rows' : seqOf[m] > after}
  BY <1>1 DEF After
<1>3. ASSUME NEW m \in Rows', seqOf[m] > after PROVE m \notin pulled
  <2>1. m \in table /\ m \in Message
    BY <1>1 DEF Rows, WriteInv, TypeOK
  <2>2. m > floor /\ m \in Int /\ floor \in Int /\ seqOf[m] \in Int /\ after \in Int
    BY <2>1 DEF OnceInv, WriteInv, TypeOK
  <2> QED BY <1>3, <2>1, <2>2 DEF OnceInv
<1>4. \A m : SourceOf[m] \in selected \cap selected' =>
         (m \in Rows <=> m \in Rows') /\ (m \in After(after) <=> m \in After(after)')
  BY <1>1 DEF Rows, After
<1>5. After(after)' \subseteq Rows' \ pulled
  BY <1>2, <1>3
<1> QED BY <1>1, <1>4, <1>5 DEF Promise!Select

LEMMA PullDelivers ==
  ASSUME WriteInv, Pull
  PROVE  Promise!Deliver /\ UNCHANGED overlapped
<1>1. /\ UNCHANGED <<table, seqOf, selected, overlapped>>
      /\ pulled' = pulled \cup FirstBySeq(After(after))
      /\ \A m \in After(after) : m \in FirstBySeq(After(after)) <=> ~ (seqOf[m] > after')
      /\ \A m \in Rows : seqOf[m] > after' => m \in After(after)
  BY PulledPage
<1>2. UNCHANGED Rows /\ After(after)' = {m \in Rows : seqOf[m] > after'}
  BY <1>1 DEF Rows, After
<1>3. FirstBySeq(After(after)) \subseteq After(after) /\ After(after) \subseteq Rows
  BY DEF FirstBySeq, After
<1>4. /\ After(after)' \subseteq After(after)
      /\ FirstBySeq(After(after)) = After(after) \ After(after)'
  BY <1>1, <1>2, <1>3
<1> QED BY <1>1, <1>2, <1>4 DEF Promise!Deliver

LEMMA StepImplements ==
  ASSUME WriteInv, BrowseInv, OnceInv, PullInv, [Next]_vars
  PROVE  [Promise!Next]_(Promise!vars)
<1>1. WriteInv' /\ OnceInv' /\ TypeOK'
  <2>1. WriteInv'
    BY InsertStep, CommitStep, RollbackStep, DropPartitionStep, AddSourceStep, RemoveSourceStep,
       TokenStep, PullStep, StartBrowsingStep, NextPageStep, ReloadStep, Stuttering DEF Next
  <2> QED BY <2>1, OnceStep DEF WriteInv
<1>2. Rows' \subseteq {m \in Message : SourceOf[m] \in selected'}
  BY <1>1 DEF Rows, TypeOK
<1>3. CASE overlapped'
  BY <1>3 DEF Promise!Next
<1>4. CASE ~ overlapped'
  <2>1. ASSUME UNCHANGED overlapped,
               Promise!Publish \/ Promise!Expire \/ Promise!Deliver \/ Promise!Select
        PROVE  Promise!Next
    BY <1>2, <2>1 DEF Promise!Next, Promise!Step
  <2>2. ASSUME UNCHANGED <<table, selected, after, pulled, overlapped>>,
               \A m \in table : seqOf'[m] = seqOf[m]
        PROVE  UNCHANGED Promise!vars
    BY <2>2, Unseen DEF Promise!vars
  <2>3. CASE \E w \in Inserter, batch \in SUBSET Message : Insert(w, batch)
    <3>1. overlapped' = overlapped
      <4>1. overlapped' = (overlapped \/ InFlight # {})
        BY <2>3 DEF Insert
      <4>2. overlapped = FALSE /\ overlapped' = FALSE
        BY <1>1, <1>4, <4>1, Zenon DEF WriteInv, TypeOK
      <4> QED BY <4>2
    <3> QED BY <2>2, <2>3, <3>1, NumbersKept
  <2>4. CASE \E w \in Inserter : Rollback(w)
    <3>1. UNCHANGED overlapped
      BY <2>4 DEF Rollback
    <3> QED BY <2>2, <2>4, <3>1, NumbersKept
  <2>5. CASE \E w \in Inserter : Commit(w)
    <3>1. UNCHANGED overlapped
      BY <2>5 DEF Commit
    <3> QED BY <1>4, <2>1, <2>5, <3>1, CommitPublishes
  <2>6. CASE \E m \in Message : DropPartition(m)
    BY <2>1, <2>6, DropExpires
  <2>7. CASE \E s \in Source : AddSourceToTopic(s) \/ RemoveSourceFromTopic(s)
    BY <1>1, <2>1, <2>7, ChangeSelects
  <2>8. CASE Pull
    BY <2>1, <2>8, PullDelivers
  <2>9. CASE RevokeApiToken \/ CreateApiToken \/ StartBrowsing \/ NextPage \/ Reload \/ UNCHANGED vars
    <3>1. UNCHANGED <<table, seqOf, selected, after, pulled, overlapped>>
      BY <2>9 DEF RevokeApiToken, CreateApiToken, StartBrowsing, NextPage, Reload, vars,
                  writeVars, queryVars, pullVars
    <3> QED BY <2>2, <3>1
  <2> QED BY <2>3, <2>4, <2>5, <2>6, <2>7, <2>8, <2>9 DEF Next
<1> QED BY <1>3, <1>4

\* The pull is a subscription: while no two INSERTs of the user have been in
\* flight at once, what is published in the category is due, and what is due is
\* delivered, once, or expires or leaves with its channel (listMessages with
\* after_seq, insertMessages, maintenance, topics).
THEOREM PullImplementsSubscription == Spec => ImplementsSubscription
<1>1. Init => Promise!Init
  BY DEF Init, Promise!Init, Rows, After
<1>2. WriteInv /\ BrowseInv /\ OnceInv /\ PullInv /\ [Next]_vars => [Promise!Next]_(Promise!vars)
  BY StepImplements
<1> QED BY <1>1, <1>2, Invariance, OnceInvariance, PullInvariance, PTL
        DEF Spec, ImplementsSubscription, Promise!Spec
=============================================================================
