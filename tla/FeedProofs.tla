------------------------------ MODULE FeedProofs ------------------------------
(***************************************************************************)
(* Theorems about what the portal lists and who is told that the session    *)
(* has expired (Feed), for any filters, messages, page size, visits and     *)
(* failures.                                                                *)
(***************************************************************************)
EXTENDS Feed, FiniteSetTheorems, SequenceTheorems, TLAPS

USE MatchesAssumption, PageAssumption, BoundAssumption

-----------------------------------------------------------------------------
(* Rows in the order of their listing, and pages *)

LEMMA FinitePart ==
  ASSUME NEW S \in SUBSET Message
  PROVE  IsFiniteSet(S) /\ Cardinality(S) \in Nat
BY FS_Subset, FS_CardinalityType

LEMMA SmallerPart ==
  ASSUME NEW S \in SUBSET Message, NEW T \in SUBSET S, T # S
  PROVE  Cardinality(T) < Cardinality(S)
<1>1. IsFiniteSet(S) /\ Cardinality(S) \in Nat /\ Cardinality(T) \in Nat
  BY FinitePart
<1>2. Cardinality(T) <= Cardinality(S) /\ (Cardinality(S) = Cardinality(T) => S = T)
  BY <1>1, FS_Subset
<1> QED BY <1>1, <1>2

\* Every row has one place, the newer one the earlier.
LEMMA RowOrder ==
  ASSUME NEW rows \in SUBSET Message
  PROVE  /\ \A i \in 1..Cardinality(rows) : Row(rows, i) \in rows
         /\ \A m \in rows : \E i \in 1..Cardinality(rows) : m = Row(rows, i)
         /\ \A i, j \in 1..Cardinality(rows) : i < j => Row(rows, i) > Row(rows, j)
<1> DEFINE newer(m) == {n \in rows : n > m}
           N == Cardinality(rows)
<1>1. rows \in SUBSET Nat
  OBVIOUS
<1>2. ASSUME NEW m \in rows
      PROVE  newer(m) \in SUBSET Message /\ newer(m) \in SUBSET rows /\ newer(m) # rows
  <2>1. m \notin newer(m)
    BY <1>1
  <2> QED BY <2>1
<1>3. ASSUME NEW m \in rows, NEW n \in rows, n > m
      PROVE  newer(n) \in SUBSET newer(m) /\ newer(n) # newer(m)
  <2>1. n \in newer(m) /\ n \notin newer(n)
    BY <1>1, <1>3
  <2>2. \A k \in rows : k > n => k > m
    BY <1>1, <1>3
  <2> QED BY <2>1, <2>2
<1>4. \A i : Row(rows, i) = CHOOSE m \in rows : Cardinality(newer(m)) = i - 1
  BY DEF Row
<1> HIDE DEF newer
<1> DEFINE rank == [m \in rows |-> Cardinality(newer(m))]
<1>5. IsFiniteSet(rows) /\ N \in Nat /\ \A m \in rows : rank[m] \in 0..N - 1
  <2>1. ASSUME NEW m \in rows PROVE Cardinality(newer(m)) \in Nat /\ Cardinality(newer(m)) < N
    BY <1>2, FinitePart, SmallerPart
  <2> QED BY <2>1, FinitePart
<1>6. ASSUME NEW m \in rows, NEW n \in rows, n > m PROVE rank[n] < rank[m]
  BY <1>2, <1>3, <1>6, SmallerPart
<1>7. ASSUME NEW m \in rows, NEW n \in rows, m # n PROVE rank[m] # rank[n]
  <2>1. CASE m > n
    BY <1>5, <1>6, <2>1
  <2>2. CASE n > m
    BY <1>5, <1>6, <2>2
  <2> QED BY <1>1, <1>7, <2>1, <2>2
<1> HIDE DEF N
<1>8. IsFiniteSet(0..N - 1) /\ Cardinality(0..N - 1) = N
  BY <1>5, FS_Interval
<1>9. rank \in [rows -> 0..N - 1]
  BY <1>5
<1>10. \A m \in rows : rank[m] = Cardinality(newer(m))
  OBVIOUS
<1> HIDE DEF rank
<1>11. rank \in Surjection(rows, 0..N - 1)
  <2>1. rank \in Injection(rows, 0..N - 1)
    BY <1>7, <1>9 DEF Injection, IsInjective
  <2> QED BY <1>8, <2>1, FS_Injection DEF N
<1>12. ASSUME NEW i \in 1..N PROVE Row(rows, i) \in rows /\ rank[Row(rows, i)] = i - 1
  <2>1. i - 1 \in 0..N - 1
    BY <1>5
  <2>2. \E m \in rows : rank[m] = i - 1
    BY <1>11, <2>1 DEF Surjection
  <2> QED BY <1>4, <1>10, <2>2
<1>13. ASSUME NEW m \in rows PROVE \E i \in 1..N : m = Row(rows, i)
  <2>1. PICK i \in 1..N : i - 1 = rank[m]
    <3>1. \A k \in 0..N - 1 : \E i \in 1..N : i - 1 = k
      <4> SUFFICES ASSUME NEW k \in 0..N - 1 PROVE \E i \in 1..N : i - 1 = k
        OBVIOUS
      <4>1. k + 1 \in 1..N /\ (k + 1) - 1 = k
        BY <1>5
      <4> QED BY <4>1
    <3>2. rank[m] \in 0..N - 1
      BY <1>5
    <3> QED BY <3>1, <3>2
  <2>2. Row(rows, i) \in rows /\ rank[Row(rows, i)] = rank[m]
    BY <1>12, <2>1
  <2> QED BY <1>7, <2>1, <2>2
<1>14. ASSUME NEW i \in 1..N, NEW j \in 1..N, i < j PROVE Row(rows, i) > Row(rows, j)
  <2>1. /\ Row(rows, i) \in rows /\ rank[Row(rows, i)] = i - 1
        /\ Row(rows, j) \in rows /\ rank[Row(rows, j)] = j - 1
        /\ Row(rows, i) \in Nat /\ Row(rows, j) \in Nat
    BY <1>1, <1>12
  <2>2. ~ (Row(rows, j) > Row(rows, i))
    <3> SUFFICES ASSUME Row(rows, j) > Row(rows, i) PROVE FALSE
      OBVIOUS
    <3>1. rank[Row(rows, j)] < rank[Row(rows, i)]
      BY <1>6, <2>1
    <3> QED BY <1>5, <1>14, <2>1, <3>1
  <2>3. Row(rows, i) # Row(rows, j)
    BY <1>5, <1>14, <2>1
  <2> QED BY <2>1, <2>2, <2>3
<1> QED BY <1>12, <1>13, <1>14 DEF N

\* A page has the newest rows in their order, and is all there is just when they
\* are not more than the limit.
LEMMA PageOf ==
  ASSUME NEW f \in Filter, NEW after \in Message \cup {NoCursor}
  PROVE  LET page == Page(f, after)
             rows == Listed(f, after)
         IN /\ page \in Seq(Message) /\ ToSet(page) \subseteq rows /\ rows \subseteq Matches[f]
            /\ \A i, j \in DOMAIN page : i < j => page[i] > page[j]
            /\ \A m \in rows \ ToSet(page) : \A n \in ToSet(page) : m < n
            /\ NextCursor(f, after) \in Message \cup {NoCursor}
            /\ NextCursor(f, after) # NoCursor =>
                 /\ page # <<>> /\ NextCursor(f, after) = Last(page)
                 /\ Listed(f, Last(page)) # {}
            /\ NextCursor(f, after) = NoCursor => ToSet(page) = rows
<1> DEFINE page == Page(f, after)
           rows == Listed(f, after)
           N == Cardinality(rows)
           L == Min({PageSize, N})
<1>1. rows \in SUBSET Message /\ rows \in SUBSET Nat /\ rows \subseteq Matches[f]
  BY DEF Listed
<1>2. ASSUME NEW m \in Message, NEW k \in rows, k < m PROVE Listed(f, m) # {}
  <2>1. k \in Listed(f, m)
    BY <1>1, <1>2 DEF Listed
  <2> QED BY <2>1
<1>3. page = [i \in 1..L |-> Row(rows, i)]
  BY DEF Page
<1>4. NextCursor(f, after) = IF N > PageSize THEN Last(page) ELSE NoCursor
  BY DEF NextCursor
<1> HIDE DEF rows, page
<1>5. N \in Nat
  BY <1>1, FinitePart
<1>6. L \in Nat /\ L <= N /\ (N > PageSize => L = PageSize) /\ (~ (N > PageSize) => L = N)
  BY <1>5 DEF Min
<1>7. /\ \A i \in 1..N : Row(rows, i) \in rows
      /\ \A m \in rows : \E i \in 1..N : m = Row(rows, i)
      /\ \A i, j \in 1..N : i < j => Row(rows, i) > Row(rows, j)
  BY <1>1, RowOrder
<1> HIDE DEF N, L
<1>8. /\ page \in Seq(Message) /\ Len(page) = L /\ DOMAIN page = 1..L
      /\ \A i \in 1..L : page[i] = Row(rows, i) /\ i \in 1..N
  <2>1. ASSUME NEW i \in 1..L PROVE i \in 1..N /\ Row(rows, i) \in Message
    <3>1. i \in 1..N
      BY <1>5, <1>6
    <3> QED BY <1>1, <1>7, <3>1
  <2>2. page \in [1..L -> Message]
    BY <1>3, <2>1
  <2>3. page \in Seq(Message)
    BY <1>6, <2>2, SeqDef, Zenon
  <2>4. Len(page) = L /\ DOMAIN page = 1..L
    BY <1>6, <2>2, <2>3
  <2> QED BY <1>3, <2>1, <2>3, <2>4
<1>9. ToSet(page) \subseteq rows
  BY <1>7, <1>8 DEF ToSet
<1>10. \A i, j \in DOMAIN page : i < j => page[i] > page[j]
  BY <1>7, <1>8
<1>11. ASSUME NEW m \in rows, m \notin ToSet(page), NEW n \in ToSet(page) PROVE m < n
  <2>1. PICK i \in 1..N : m = Row(rows, i)
    BY <1>7
  <2>2. PICK j \in 1..L : n = page[j]
    BY <1>8 DEF ToSet
  <2>3. i \notin 1..L
    BY <1>8, <1>11, <2>1 DEF ToSet
  <2>4. j < i /\ n = Row(rows, j) /\ j \in 1..N
    BY <1>5, <1>6, <1>8, <2>2, <2>3
  <2>5. n > m /\ n \in Nat /\ m \in Nat
    BY <1>1, <1>7, <2>1, <2>4
  <2> QED BY <2>5
<1>12. ASSUME N > PageSize
       PROVE  page # <<>> /\ Last(page) \in Message /\ Listed(f, Last(page)) # {}
  <2>1. L = PageSize /\ L \in 1..N /\ L + 1 \in 1..N /\ L < L + 1
    BY <1>5, <1>6, <1>12
  <2>2. page # <<>> /\ Last(page) = Row(rows, L)
    BY <1>8, <2>1 DEF Last
  <2>3. Row(rows, L) \in rows /\ Row(rows, L + 1) \in rows /\ Row(rows, L) > Row(rows, L + 1)
    BY <1>7, <2>1
  <2>4. Row(rows, L + 1) < Row(rows, L)
    BY <1>1, <2>3
  <2> QED BY <1>1, <1>2, <2>2, <2>3, <2>4
<1>13. ASSUME ~ (N > PageSize) PROVE rows \subseteq ToSet(page)
  BY <1>6, <1>7, <1>8, <1>13 DEF ToSet
<1>14. CASE N > PageSize
  <2>1. Last(page) # NoCursor
    BY <1>12, <1>14 DEF NoCursor
  <2> QED BY <1>1, <1>4, <1>8, <1>9, <1>10, <1>11, <1>12, <1>14, <2>1 DEF rows, page
<1>15. CASE ~ (N > PageSize)
  BY <1>1, <1>4, <1>8, <1>9, <1>10, <1>11, <1>13, <1>15 DEF rows, page
<1> QED BY <1>14, <1>15

\* The responses are taken out of the requests in flight.
LEMMA Removed ==
  ASSUME NEW S, NEW s \in Seq(S), NEW i \in DOMAIN s
  PROVE  /\ RemoveAt(s, i) \in Seq(S) /\ Len(RemoveAt(s, i)) = Len(s) - 1
         /\ \A j \in DOMAIN RemoveAt(s, i) : RemoveAt(s, i)[j] = IF j < i THEN s[j] ELSE s[j + 1]
<1>1. i \in 1..Len(s) /\ Len(s) \in Nat
  OBVIOUS
<1>2. /\ SubSeq(s, 1, i - 1) \in Seq(S) /\ Len(SubSeq(s, 1, i - 1)) = i - 1
      /\ \A j \in 1..i - 1 : SubSeq(s, 1, i - 1)[j] = s[j]
  BY <1>1
<1>3. /\ SubSeq(s, i + 1, Len(s)) \in Seq(S) /\ Len(SubSeq(s, i + 1, Len(s))) = Len(s) - i
      /\ \A j \in 1..Len(s) - i : SubSeq(s, i + 1, Len(s))[j] = s[i + j]
  BY <1>1
<1> DEFINE a == SubSeq(s, 1, i - 1)
           b == SubSeq(s, i + 1, Len(s))
<1> HIDE DEF a, b
<1>4. /\ a \o b \in Seq(S) /\ Len(a \o b) = Len(a) + Len(b)
      /\ \A j \in 1..Len(a) + Len(b) : (a \o b)[j] = IF j <= Len(a) THEN a[j] ELSE b[j - Len(a)]
  <2>1. a \in Seq(S) /\ b \in Seq(S)
    BY <1>2, <1>3 DEF a, b
  <2> QED BY <2>1, ConcatProperties
<1>5. Len(a) = i - 1 /\ Len(b) = Len(s) - i /\ Len(a) + Len(b) = Len(s) - 1
  <2>1. Len(a) = i - 1
    BY <1>2 DEF a
  <2>2. Len(b) = Len(s) - i
    BY <1>3 DEF b
  <2> QED BY <1>1, <2>1, <2>2
<1>6. ASSUME NEW j \in 1..Len(s) - 1 PROVE (a \o b)[j] = IF j < i THEN s[j] ELSE s[j + 1]
  <2>1. CASE j < i
    <3>1. j \in 1..i - 1 /\ j <= Len(a)
      BY <1>1, <1>5, <2>1
    <3> QED BY <1>2, <1>4, <1>5, <2>1, <3>1 DEF a
  <2>2. CASE ~ (j < i)
    <3>1. /\ j - Len(a) \in 1..Len(s) - i /\ i + (j - Len(a)) = j + 1 /\ ~ (j <= Len(a))
      <4>1. /\ i \in Nat /\ Len(s) \in Nat /\ j \in Nat /\ Len(a) \in Nat
            /\ 1 <= j /\ j <= Len(s) - 1 /\ i <= j /\ Len(a) = i - 1
        BY <1>1, <1>5, <2>2
      <4> QED BY <4>1
    <3>2. (a \o b)[j] = b[j - Len(a)] /\ b[j - Len(a)] = s[i + (j - Len(a))]
      <4>1. (a \o b)[j] = b[j - Len(a)]
        BY <1>4, <1>5, <3>1
      <4>2. b[j - Len(a)] = s[i + (j - Len(a))]
        BY <1>3, <3>1 DEF b
      <4> QED BY <4>1, <4>2
    <3> QED BY <2>2, <3>1, <3>2
  <2> QED BY <2>1, <2>2
<1>7. DOMAIN (a \o b) = 1..Len(s) - 1
  BY <1>4, <1>5
<1> QED BY <1>4, <1>5, <1>6, <1>7 DEF RemoveAt, a, b

-----------------------------------------------------------------------------
(* What is listed *)

\* A request of the effect waits only for a page that is ready.  While the list
\* has not been mixed, its cursor is its last message.
ListInv ==
  /\ TypeOK
  /\ phase # "ready" => reloads = <<>>
  /\ ListsTheFilter
  /\ phase = "ready" /\ ~ mixed /\ cursor # NoCursor => messages # <<>> /\ cursor = Last(messages)

LEMMA FunctionIsSeq ==
  ASSUME NEW S, NEW n \in Nat, NEW s \in [1..n -> S]
  PROVE  s \in Seq(S)
BY SeqDef, Zenon

\* The response of a reload is looked at only if it is the last one's.
LatestReload(requests) ==
  /\ requests \in Seq(Reload)
  /\ \A i \in DOMAIN requests :
       requests[i].cancelled \/ (i = Len(requests) /\ requests[i].filter = filter')

LEMMA CancelAll ==
  ASSUME NEW requests \in Seq(Reload)
  PROVE  /\ Cancelled(requests) \in Seq(Reload)
         /\ \A i \in DOMAIN Cancelled(requests) : Cancelled(requests)[i].cancelled
<1>1. Len(requests) \in Nat /\ \A i \in 1..Len(requests) : requests[i] \in Reload
  OBVIOUS
<1>2. \A i \in 1..Len(requests) :
        /\ [requests[i] EXCEPT !.cancelled = TRUE] \in Reload
        /\ [requests[i] EXCEPT !.cancelled = TRUE].cancelled
  BY <1>1 DEF Reload
<1>3. Cancelled(requests) = [i \in 1..Len(requests) |-> [requests[i] EXCEPT !.cancelled = TRUE]]
  BY DEF Cancelled
<1>4. Cancelled(requests) \in [1..Len(requests) -> Reload]
  BY <1>2, <1>3
<1>5. Cancelled(requests) \in Seq(Reload)
  BY <1>1, <1>4, FunctionIsSeq
<1>6. DOMAIN Cancelled(requests) = 1..Len(requests)
  BY <1>3
<1> QED BY <1>2, <1>3, <1>5, <1>6

\* One response less
LEMMA OneLess ==
  ASSUME TypeOK, UNCHANGED filter, NEW i \in DOMAIN reloads
  PROVE  LatestReload(RemoveAt(reloads, i)) /\ (~ reloads[i].cancelled => reloads[i].filter = filter)
<1> DEFINE s == RemoveAt(reloads, i)
<1>1. /\ s \in Seq(Reload) /\ Len(s) = Len(reloads) - 1
      /\ \A j \in DOMAIN s : s[j] = IF j < i THEN reloads[j] ELSE reloads[j + 1]
  BY Removed DEF TypeOK
<1>2. /\ reloads \in Seq(Reload) /\ i \in 1..Len(reloads) /\ Len(reloads) \in Nat
      /\ \A j \in 1..Len(reloads) :
           reloads[j].cancelled \/ (j = Len(reloads) /\ reloads[j].filter = filter)
  BY DEF TypeOK
<1> HIDE DEF s
<1>3. ASSUME NEW j \in DOMAIN s PROVE s[j].cancelled \/ (j = Len(s) /\ s[j].filter = filter')
  <2>1. j \in 1..Len(s) /\ j \in 1..Len(reloads) - 1 /\ j \in 1..Len(reloads)
        /\ j + 1 \in 1..Len(reloads)
    BY <1>1, <1>2
  <2>2. CASE j < i
    BY <1>1, <1>2, <2>1, <2>2
  <2>3. CASE ~ (j < i)
    <3>1. s[j] = reloads[j + 1]
      BY <1>1, <2>3
    <3>2. j + 1 = Len(reloads) => j = Len(s)
      BY <1>1, <1>2, <2>1
    <3> QED BY <1>2, <2>1, <3>1, <3>2
  <2> QED BY <2>2, <2>3
<1> QED BY <1>1, <1>2, <1>3 DEF LatestReload, s

LEMMA StartStep ==
  ASSUME NEW requests \in Seq(Reload), filter' \in Filter, Start(filter', requests),
         \A i \in DOMAIN requests : requests[i].cancelled
  PROVE  /\ LatestReload(reloads')
         /\ messages' = <<>> /\ messages' \in Seq(Message) /\ cursor' = NoCursor
         /\ loading' /\ listError' = FALSE /\ mixed' = FALSE /\ loading' \in BOOLEAN
         /\ ListIsRight'
<1>1. /\ messages' = <<>> /\ cursor' = NoCursor /\ loading' = TRUE /\ listError' = FALSE
      /\ reloads' = Append(requests, [filter |-> filter', cancelled |-> FALSE])
      /\ mixed' = FALSE
  BY DEF Start
<1> DEFINE r == [filter |-> filter', cancelled |-> FALSE]
<1>2. r \in Reload /\ r.filter = filter'
  BY DEF Reload
<1> HIDE DEF r
<1>3. /\ Append(requests, r) \in Seq(Reload) /\ Len(Append(requests, r)) = Len(requests) + 1
      /\ \A i \in 1..Len(requests) : Append(requests, r)[i] = requests[i]
      /\ Append(requests, r)[Len(requests) + 1] = r
  BY <1>2
<1>4. LatestReload(Append(requests, r))
  <2> SUFFICES ASSUME NEW i \in DOMAIN Append(requests, r)
               PROVE  Append(requests, r)[i].cancelled
                      \/ (i = Len(Append(requests, r)) /\ Append(requests, r)[i].filter = filter')
    BY <1>3 DEF LatestReload
  <2>1. i \in 1..Len(requests) \/ i = Len(requests) + 1
    BY <1>3
  <2> QED BY <1>2, <1>3, <2>1
<1>5. ListIsRight'
  <2>1. ToSet(messages') = {} /\ DOMAIN messages' = {}
    BY <1>1 DEF ToSet
  <2> QED BY <1>1, <2>1 DEF ListIsRight, ToSet
<1> QED BY <1>1, <1>4, <1>5 DEF r

\* Nothing is listed anew, and the list is not made to look complete.
LEMMA SameList ==
  ASSUME ListInv, TypeOK', UNCHANGED <<phase, filter, messages, cursor, mixed>>,
         phase # "ready" => reloads' = <<>>,
         cursor # NoCursor \/ loading' \/ listError' \/ (~ loading /\ ~ listError)
  PROVE  ListInv'
<1>1. ListIsRight => ListIsRight'
  BY DEF ListIsRight, Listed
<1> QED BY <1>1 DEF ListInv, ListsTheFilter

\* Nothing is listed before the page is ready.
LEMMA NoList ==
  ASSUME TypeOK', phase' # "ready", reloads' = <<>>
  PROVE  ListInv'
BY DEF ListInv, ListsTheFilter

-----------------------------------------------------------------------------

LEMMA LinkStep ==
  ASSUME ListInv, LinkExpires \/ CookieExpires
  PROVE  ListInv'
<1>1. /\ link' \in {"good", "old"} /\ cookie' \in {"none", "good", "old"}
      /\ UNCHANGED <<phase, inUrl, awaited, visits, listVars, errors>>
  BY DEF LinkExpires, CookieExpires, ListInv, TypeOK
<1>2. TypeOK'
  BY <1>1 DEF ListInv, TypeOK, listVars
<1> QED BY <1>1, <1>2, SameList DEF ListInv, listVars

LEMMA AccessStep ==
  ASSUME ListInv, Exchanged \/ ExchangeFails \/ MetadataFails
  PROVE  ListInv'
<1>1. /\ phase # "ready" /\ phase' \in {"metadata", "expired", "failed"}
      /\ cookie' \in {"none", "good", "old"} /\ inUrl' \in BOOLEAN
      /\ errors' \in 0..MaxErrors
      /\ UNCHANGED <<link, awaited, visits, listVars>>
  <2>1. TypeOK
    BY DEF ListInv
  <2>2. CASE Exchanged
    BY <2>1, <2>2 DEF Exchanged, TypeOK
  <2>3. CASE ExchangeFails
    BY <2>1, <2>3 DEF ExchangeFails, Fails, TypeOK
  <2>4. CASE MetadataFails
    BY <2>1, <2>4 DEF MetadataFails, OtherStatus, Fails, TypeOK
  <2> QED BY <2>2, <2>3, <2>4
<1>2. TypeOK'
  BY <1>1 DEF ListInv, TypeOK, listVars
<1> QED BY <1>1, <1>2, NoList DEF ListInv, listVars

LEMMA MetadataStep ==
  ASSUME ListInv, NEW x \in Metadata, MetadataArrives(x)
  PROVE  ListInv'
<1>1. /\ phase = "metadata" /\ awaited' = awaited \ {x}
      /\ UNCHANGED <<link, inUrl, cookie, visits, errors>>
  BY DEF MetadataArrives
<1>2. CASE awaited = {x}
  <2>1. phase' = "ready" /\ Start(filter, reloads) /\ UNCHANGED <<filter, mores, changes>>
    BY <1>2 DEF MetadataArrives
  <2>2. reloads = <<>> /\ reloads \in Seq(Reload) /\ filter' \in Filter /\ Start(filter', reloads)
    BY <1>1, <2>1 DEF ListInv, TypeOK
  <2>3. \A i \in DOMAIN reloads : reloads[i].cancelled
    BY <2>2
  <2>4. /\ LatestReload(reloads')
        /\ messages' = <<>> /\ messages' \in Seq(Message) /\ cursor' = NoCursor
        /\ loading' /\ listError' = FALSE /\ mixed' = FALSE /\ loading' \in BOOLEAN
        /\ ListIsRight'
    BY <2>2, <2>3, StartStep
  <2>5. TypeOK'
    BY <1>1, <1>2, <2>1, <2>2, <2>4 DEF ListInv, TypeOK, LatestReload
  <2> QED BY <2>1, <2>4, <2>5 DEF ListInv, ListsTheFilter
<1>3. CASE awaited # {x}
  <2>1. UNCHANGED <<phase, listVars>>
    BY <1>3 DEF MetadataArrives
  <2>2. TypeOK'
    BY <1>1, <2>1 DEF ListInv, TypeOK, listVars
  <2> QED BY <1>1, <2>1, <2>2, NoList DEF ListInv, listVars
<1> QED BY <1>2, <1>3

LEMMA VisitStep ==
  ASSUME ListInv, NEW fresh \in BOOLEAN, Visit(fresh)
  PROVE  ListInv'
<1>1. /\ phase' \in {"exchange", "metadata"} /\ awaited' = Metadata /\ filter' \in Filter
      /\ messages' = <<>> /\ cursor' = NoCursor /\ loading' = FALSE /\ listError' = FALSE
      /\ reloads' = <<>> /\ mores' = <<>> /\ mixed' = FALSE
      /\ UNCHANGED <<cookie, changes, errors>>
  BY DEF Visit, AtStart
<1>2. link' \in {"good", "old"} /\ inUrl' \in BOOLEAN /\ visits' \in 1..MaxVisits
  BY DEF Visit, ListInv, TypeOK
<1>3. /\ messages' \in Seq(Message) /\ reloads' \in Seq(Reload) /\ mores' \in Seq(More)
      /\ DOMAIN reloads' = {} /\ phase' # "ready"
  BY <1>1
<1>4. TypeOK'
  BY <1>1, <1>2, <1>3 DEF ListInv, TypeOK
<1> QED BY <1>1, <1>3, <1>4, NoList

LEMMA ChangeFilterStep ==
  ASSUME ListInv, NEW f \in Filter, ChangeFilter(f)
  PROVE  ListInv'
<1>1. /\ phase = "ready" /\ filter' = f /\ Start(f, Cancelled(reloads))
      /\ UNCHANGED <<phase, link, inUrl, cookie, awaited, visits, mores, errors>>
  BY DEF ChangeFilter, accessVars
<1>2. changes' \in 0..MaxChanges
  BY DEF ChangeFilter, ListInv, TypeOK
<1>3. /\ Cancelled(reloads) \in Seq(Reload)
      /\ \A i \in DOMAIN Cancelled(reloads) : Cancelled(reloads)[i].cancelled
  BY CancelAll DEF ListInv, TypeOK
<1>4. /\ LatestReload(reloads')
      /\ messages' = <<>> /\ messages' \in Seq(Message) /\ cursor' = NoCursor
      /\ loading' /\ listError' = FALSE /\ mixed' = FALSE /\ loading' \in BOOLEAN
      /\ ListIsRight'
  BY <1>1, <1>3, StartStep
<1>5. TypeOK'
  BY <1>1, <1>2, <1>4 DEF ListInv, TypeOK, LatestReload
<1> QED BY <1>1, <1>4, <1>5 DEF ListInv, ListsTheFilter

LEMMA ReloadedStep ==
  ASSUME ListInv, NEW i \in DOMAIN reloads, Reloaded(i)
  PROVE  ListInv'
<1>1. /\ reloads' = RemoveAt(reloads, i)
      /\ UNCHANGED <<phase, link, inUrl, cookie, awaited, visits>>
      /\ UNCHANGED <<filter, listError, mores, changes, errors>>
  BY DEF Reloaded, accessVars
<1>2. LatestReload(reloads') /\ (~ reloads[i].cancelled => reloads[i].filter = filter)
  BY <1>1, OneLess DEF ListInv
<1>3. phase = "ready"
  BY DEF ListInv
<1>4. CASE reloads[i].cancelled
  <2>1. UNCHANGED <<messages, cursor, loading, mixed>>
    BY <1>4 DEF Reloaded
  <2>2. TypeOK'
    BY <1>1, <1>2, <2>1 DEF ListInv, TypeOK, LatestReload
  <2> QED BY <1>1, <1>3, <2>1, <2>2, SameList
<1>5. CASE ~ reloads[i].cancelled
  <2> DEFINE page == Page(filter, NoCursor)
  <2>1. /\ messages' = page /\ cursor' = NextCursor(filter, NoCursor)
        /\ loading' = FALSE /\ mixed' = FALSE
    BY <1>2, <1>5 DEF Reloaded
  <2>2. filter \in Filter /\ Listed(filter, NoCursor) = Matches[filter]
    BY DEF ListInv, TypeOK, Listed
  <2>3. /\ page \in Seq(Message) /\ ToSet(page) \subseteq Matches[filter]
        /\ \A j, k \in DOMAIN page : j < k => page[j] > page[k]
        /\ \A m \in Matches[filter] \ ToSet(page) : \A n \in ToSet(page) : m < n
        /\ cursor' \in Message \cup {NoCursor}
        /\ cursor' # NoCursor =>
             page # <<>> /\ cursor' = Last(page) /\ Listed(filter, Last(page)) # {}
        /\ cursor' = NoCursor => ToSet(page) = Matches[filter]
    BY <2>1, <2>2, PageOf
  <2> HIDE DEF page
  <2>4. TypeOK'
    BY <1>1, <1>2, <2>1, <2>3 DEF ListInv, TypeOK, LatestReload
  <2>5. ListIsRight'
    <3>1. cursor' # NoCursor => Listed(filter, cursor)' # {}
      BY <1>1, <2>3 DEF Listed
    <3> QED BY <1>1, <2>1, <2>3, <3>1 DEF ListIsRight
  <2> QED BY <1>1, <1>3, <2>1, <2>3, <2>4, <2>5 DEF ListInv, ListsTheFilter
<1> QED BY <1>4, <1>5

LEMMA ReloadFailsStep ==
  ASSUME ListInv, NEW i \in DOMAIN reloads, ReloadFails(i)
  PROVE  ListInv'
<1>1. /\ reloads' = RemoveAt(reloads, i)
      /\ listError' = (listError \/ ~ reloads[i].cancelled)
      /\ loading' = (loading /\ reloads[i].cancelled)
      /\ UNCHANGED <<phase, link, inUrl, cookie, awaited, visits>>
      /\ UNCHANGED <<filter, messages, cursor, mores, mixed, changes>>
  BY DEF ReloadFails, accessVars
<1>2. errors' \in 0..MaxErrors
  BY DEF ReloadFails, Denied, Fails, ListInv, TypeOK
<1>3. LatestReload(reloads')
  BY <1>1, OneLess DEF ListInv
<1>4. loading' \in BOOLEAN /\ listError' \in BOOLEAN
  BY <1>1, Zenon
<1>5. TypeOK'
  BY <1>1, <1>2, <1>3, <1>4 DEF ListInv, TypeOK, LatestReload
<1>6. phase = "ready"
  BY DEF ListInv
<1>7. loading' \/ listError' \/ (~ loading /\ ~ listError)
  BY <1>1, Zenon
<1> QED BY <1>1, <1>5, <1>6, <1>7, SameList

LEMMA LoadMoreStep ==
  ASSUME ListInv, LoadMore
  PROVE  ListInv'
<1>1. /\ cursor # NoCursor /\ loading' = TRUE
      /\ mores' = Append(mores, [filter |-> filter, cursor |-> cursor])
      /\ UNCHANGED <<phase, link, inUrl, cookie, awaited, visits>>
      /\ UNCHANGED <<filter, messages, cursor, listError, reloads, mixed, changes, errors>>
  BY DEF LoadMore, CanLoadMore, accessVars
<1>2. [filter |-> filter, cursor |-> cursor] \in More
  BY <1>1 DEF More, ListInv, TypeOK
<1>3. mores' \in Seq(More)
  BY <1>1, <1>2 DEF ListInv, TypeOK
<1>4. TypeOK'
  BY <1>1, <1>3 DEF ListInv, TypeOK
<1> QED BY <1>1, <1>4, SameList DEF ListInv

\* A page appended to the list it continues
LEMMA Appended ==
  ASSUME ListInv, phase = "ready", ~ mixed, cursor # NoCursor, UNCHANGED filter,
         messages' = messages \o Page(filter, cursor), cursor' = NextCursor(filter, cursor)
  PROVE  ListIsRight' /\ (cursor' # NoCursor => messages' # <<>> /\ cursor' = Last(messages'))
<1> DEFINE page == Page(filter, cursor)
           rest == Listed(filter, cursor)
<1>1. /\ page \in Seq(Message) /\ ToSet(page) \subseteq rest /\ rest \subseteq Matches[filter]
      /\ \A j, k \in DOMAIN page : j < k => page[j] > page[k]
      /\ \A m \in rest \ ToSet(page) : \A n \in ToSet(page) : m < n
      /\ cursor' \in Message \cup {NoCursor}
      /\ cursor' # NoCursor => page # <<>> /\ cursor' = Last(page) /\ Listed(filter, Last(page)) # {}
      /\ cursor' = NoCursor => ToSet(page) = rest
  BY PageOf DEF ListInv, TypeOK
<1>2. rest = {m \in Matches[filter] : m < cursor}
  BY DEF Listed
<1>3. /\ messages \in Seq(Message) /\ messages # <<>> /\ cursor = Last(messages)
      /\ cursor \in Message /\ Matches[filter] \subseteq Message /\ Message \subseteq Nat
      /\ ToSet(messages) \subseteq Matches[filter]
      /\ \A i, j \in DOMAIN messages : i < j => messages[i] > messages[j]
      /\ \A m \in Matches[filter] \ ToSet(messages) : \A n \in ToSet(messages) : m < n
  BY DEF ListInv, TypeOK, ListsTheFilter, ListIsRight
<1> HIDE DEF page, rest
<1> DEFINE K == Len(messages)
           L == Len(page)
           list == messages \o page
<1>4. /\ K \in Nat /\ L \in Nat /\ K >= 1 /\ K \in DOMAIN messages /\ cursor = messages[K]
      /\ DOMAIN messages = 1..K /\ DOMAIN page = 1..L
      /\ \A i \in 1..K : messages[i] \in Nat
      /\ \A i \in 1..L : page[i] \in Nat
  <2>1. /\ K \in Nat /\ L \in Nat /\ DOMAIN messages = 1..K /\ DOMAIN page = 1..L
        /\ \A i \in 1..K : messages[i] \in Message
        /\ \A i \in 1..L : page[i] \in Message
    BY <1>1, <1>3
  <2>2. K # 0
    BY <1>3
  <2>3. cursor = messages[K]
    BY <1>3 DEF Last
  <2> HIDE DEF K, L
  <2>4. K >= 1 /\ K \in 1..K
    BY <2>1, <2>2
  <2> QED BY <1>3, <2>1, <2>3, <2>4
<1>5. /\ list \in Seq(Message) /\ Len(list) = K + L
      /\ \A i \in 1..K + L : list[i] = IF i <= K THEN messages[i] ELSE page[i - K]
  BY <1>1, <1>3, ConcatProperties
<1> HIDE DEF K, L, list
<1>6. DOMAIN list = 1..K + L
  BY <1>5
<1>7. ToSet(list) = ToSet(messages) \cup ToSet(page)
  <2>1. ASSUME NEW i \in 1..K + L PROVE list[i] \in ToSet(messages) \cup ToSet(page)
    <3>1. CASE i <= K
      <4>1. i \in 1..K
        BY <1>4, <3>1
      <4> QED BY <1>4, <1>5, <3>1, <4>1 DEF ToSet
    <3>2. CASE ~ (i <= K)
      <4>1. i - K \in 1..L
        BY <1>4, <3>2
      <4> QED BY <1>4, <1>5, <3>2, <4>1 DEF ToSet
    <3> QED BY <3>1, <3>2
  <2>2. ASSUME NEW i \in 1..K PROVE \E j \in 1..K + L : list[j] = messages[i]
    <3>1. i \in 1..K + L /\ i <= K
      BY <1>4
    <3> QED BY <1>5, <3>1
  <2>3. ASSUME NEW i \in 1..L PROVE \E j \in 1..K + L : list[j] = page[i]
    <3>1. K + i \in 1..K + L /\ ~ (K + i <= K) /\ (K + i) - K = i
      BY <1>4
    <3> QED BY <1>5, <3>1
  <2>4. /\ ToSet(list) = {list[i] : i \in 1..K + L}
        /\ ToSet(messages) = {messages[i] : i \in 1..K} /\ ToSet(page) = {page[i] : i \in 1..L}
    BY <1>4, <1>6 DEF ToSet
  <2> QED BY <2>1, <2>2, <2>3, <2>4
\* the messages that are listed are at the cursor or newer
<1>8. \A i \in 1..K : messages[i] >= cursor
  <2> SUFFICES ASSUME NEW i \in 1..K PROVE messages[i] >= cursor
    OBVIOUS
  <2>1. CASE i = K
    BY <1>4, <2>1
  <2>2. CASE i < K
    <3>1. messages[i] > messages[K]
      BY <1>3, <1>4, <2>2
    <3> QED BY <1>4, <3>1
  <2> QED BY <1>4, <2>1, <2>2
<1>9. \A i \in 1..L : page[i] < cursor
  BY <1>1, <1>2, <1>4 DEF ToSet
<1>10. \A i, j \in DOMAIN list : i < j => list[i] > list[j]
  <2> SUFFICES ASSUME NEW i \in 1..K + L, NEW j \in 1..K + L, i < j PROVE list[i] > list[j]
    BY <1>6
  <2>1. CASE j <= K
    <3>1. i <= K /\ i \in 1..K /\ j \in 1..K
      BY <1>4, <2>1
    <3> QED BY <1>3, <1>4, <1>5, <2>1, <3>1
  <2>2. CASE i <= K /\ ~ (j <= K)
    <3>1. i \in 1..K /\ j - K \in 1..L
      BY <1>4, <2>2
    <3>2. list[i] = messages[i] /\ list[j] = page[j - K]
      BY <1>5, <2>2
    <3> QED BY <1>3, <1>4, <1>8, <1>9, <3>1, <3>2
  <2>3. CASE ~ (i <= K)
    <3>1. i - K \in 1..L /\ j - K \in 1..L /\ i - K < j - K /\ ~ (j <= K)
      BY <1>4, <2>3
    <3>2. list[i] = page[i - K] /\ list[j] = page[j - K]
      BY <1>5, <2>3, <3>1
    <3> QED BY <1>1, <1>4, <3>1, <3>2
  <2> QED BY <2>1, <2>2, <2>3
<1>11. ASSUME NEW m \in Matches[filter], m \notin ToSet(list), NEW n \in ToSet(list) PROVE m < n
  <2>1. \A k \in ToSet(messages) : m < k
    BY <1>3, <1>7, <1>11
  <2>2. m < cursor
    BY <1>4, <2>1 DEF ToSet
  <2>3. m \in rest \ ToSet(page)
    BY <1>2, <1>7, <1>11, <2>2
  <2> QED BY <1>1, <1>7, <2>1, <2>3
<1>12. ASSUME cursor' = NoCursor PROVE Matches[filter] \subseteq ToSet(list)
  <2> SUFFICES ASSUME NEW m \in Matches[filter], m \notin ToSet(messages)
               PROVE  m \in ToSet(page)
    BY <1>7
  <2>1. m < cursor
    BY <1>3, <1>4 DEF ToSet
  <2> QED BY <1>1, <1>2, <1>12, <2>1
<1>13. ASSUME cursor' # NoCursor PROVE list # <<>> /\ cursor' = Last(list)
  <2>1. page # <<>> /\ cursor' = page[L]
    BY <1>1, <1>13 DEF Last, L
  <2>2. L \in 1..L
    BY <1>1, <1>4, <2>1 DEF L
  <2>3. K + L \in 1..K + L /\ ~ (K + L <= K) /\ (K + L) - K = L
    BY <1>4, <2>2
  <2> QED BY <1>5, <2>1, <2>3 DEF Last
<1>14. ToSet(list) \subseteq Matches[filter]
  BY <1>1, <1>3, <1>7
<1>15. ListIsRight'
  <2>1. messages' = list /\ filter' = filter
    BY DEF list, page
  <2>2. cursor' # NoCursor => Listed(filter, cursor)' # {}
    BY <1>1, <2>1 DEF Listed
  <2> QED BY <1>10, <1>11, <1>12, <1>14, <2>1, <2>2 DEF ListIsRight
<1> QED BY <1>13, <1>15 DEF list, page

LEMMA LoadedMoreStep ==
  ASSUME ListInv, NEW i \in DOMAIN mores, LoadedMore(i)
  PROVE  ListInv'
<1> DEFINE f == mores[i].filter
           c == mores[i].cursor
<1>1. /\ mores' = RemoveAt(mores, i)
      /\ messages' = messages \o Page(f, c)
      /\ cursor' = NextCursor(f, c)
      /\ loading' = FALSE
      /\ mixed' = (mixed \/ ~ Continues(i))
      /\ UNCHANGED <<phase, link, inUrl, cookie, awaited, visits>>
      /\ UNCHANGED <<filter, listError, reloads, changes, errors>>
  BY DEF LoadedMore, accessVars
<1>2. mores[i] \in More /\ mores' \in Seq(More)
  BY <1>1, Removed DEF ListInv, TypeOK
<1>3. f \in Filter /\ c \in Message
  BY <1>2 DEF More
<1>4. Page(f, c) \in Seq(Message) /\ cursor' \in Message \cup {NoCursor}
  BY <1>1, <1>3, PageOf
<1>5. messages' \in Seq(Message)
  BY <1>1, <1>4 DEF ListInv, TypeOK
<1>6. mixed' \in BOOLEAN
  BY <1>1, Zenon DEF ListInv, TypeOK
<1>7. TypeOK'
  BY <1>1, <1>2, <1>4, <1>5, <1>6 DEF ListInv, TypeOK
<1>8. ASSUME phase = "ready", ~ mixed'
      PROVE  ListIsRight' /\ (cursor' # NoCursor => messages' # <<>> /\ cursor' = Last(messages'))
  <2>1. ~ mixed /\ Continues(i)
    BY <1>1, <1>8, Zenon
  <2>2. f = filter /\ c = cursor /\ cursor # NoCursor
    BY <1>3, <2>1 DEF Continues, NoCursor
  <2> QED BY <1>1, <1>8, <2>1, <2>2, Appended
<1> QED BY <1>1, <1>7, <1>8 DEF ListInv, ListsTheFilter

LEMMA LoadMoreFailsStep ==
  ASSUME ListInv, NEW i \in DOMAIN mores, LoadMoreFails(i)
  PROVE  ListInv'
<1>1. /\ mores' = RemoveAt(mores, i) /\ listError' = TRUE /\ loading' = FALSE
      /\ UNCHANGED <<phase, link, inUrl, cookie, awaited, visits>>
      /\ UNCHANGED <<filter, messages, cursor, reloads, mixed, changes>>
  BY DEF LoadMoreFails, LoadingAfterError, accessVars
<1>2. errors' \in 0..MaxErrors
  BY DEF LoadMoreFails, Denied, Fails, ListInv, TypeOK
<1>3. mores' \in Seq(More)
  BY <1>1, Removed DEF ListInv, TypeOK
<1>4. TypeOK'
  BY <1>1, <1>2, <1>3 DEF ListInv, TypeOK
<1> QED BY <1>1, <1>4, SameList DEF ListInv

LEMMA ListInvariance == Spec => []ListInv
<1>1. Init => ListInv
  <2>1. ASSUME Init PROVE TypeOK
    <3>1. /\ inUrl \in BOOLEAN /\ phase \in {"exchange", "metadata"} /\ link \in {"good", "old"}
          /\ cookie \in {"none", "good", "old"} /\ awaited = Metadata /\ filter \in Filter
      BY <2>1 DEF Init, AtStart
    <3>2. /\ messages = <<>> /\ cursor = NoCursor /\ loading = FALSE /\ listError = FALSE
          /\ reloads = <<>> /\ mores = <<>> /\ mixed = FALSE
      BY <2>1 DEF Init
    <3>3. changes \in 0..MaxChanges /\ errors \in 0..MaxErrors /\ visits \in 1..MaxVisits
      BY <2>1 DEF Init
    <3>4. /\ messages \in Seq(Message) /\ reloads \in Seq(Reload) /\ mores \in Seq(More)
          /\ DOMAIN reloads = {} /\ phase # "ready"
      BY <3>1, <3>2
    <3> QED BY <3>1, <3>2, <3>3, <3>4 DEF TypeOK
  <2> QED BY <2>1 DEF Init, AtStart, ListInv, ListsTheFilter
<1>2. ListInv /\ UNCHANGED vars => ListInv'
  <2> SUFFICES ASSUME ListInv, UNCHANGED vars PROVE ListInv'
    OBVIOUS
  <2>1. TypeOK'
    BY DEF vars, accessVars, listVars, ListInv, TypeOK
  <2> QED BY <2>1, SameList DEF vars, accessVars, listVars, ListInv
<1>3. ListInv /\ Next => ListInv'
  BY LinkStep, AccessStep, MetadataStep, VisitStep, ChangeFilterStep, ReloadedStep, ReloadFailsStep,
     LoadMoreStep, LoadedMoreStep, LoadMoreFailsStep DEF Next, Responds
<1> QED BY <1>1, <1>2, <1>3, PTL DEF Spec

\* Every variable has a value of its kind, and no reload but the last is looked
\* at (TypeOK).
THEOREM TypeCorrect == Spec => []TypeOK
<1>1. ListInv => TypeOK
  BY DEF ListInv
<1> QED BY <1>1, ListInvariance, PTL

\* "Reload messages whenever any filter changes" (Feed.tsx): whatever order the
\* responses come in, what is listed is the messages of the filter, newest first,
\* with none left out and none twice, until loadMore appends a page of another
\* list (ListsTheFilter).
THEOREM FilterIsListed == Spec => []ListsTheFilter
<1>1. ListInv => ListsTheFilter
  BY DEF ListInv
<1> QED BY <1>1, ListInvariance, PTL

-----------------------------------------------------------------------------
(* Who is told that the session has expired *)

\* The link that is exchanged is the one in the address.
ExpiryInv ==
  /\ link \in {"good", "old"}
  /\ inUrl \in BOOLEAN
  /\ phase = "exchange" => inUrl
  /\ ExpiryExplained

\* A session that has been over stays so until a link is exchanged, and a link
\* that has expired is not good again before the bot sends another.
LEMMA ExpiryStep ==
  ASSUME ExpiryInv, [Next]_vars
  PROVE  ExpiryInv'
<1> USE DEF ExpiryInv, ExpiryExplained
<1>1. ASSUME UNCHANGED accessVars PROVE ExpiryInv'
  BY <1>1 DEF accessVars
<1>2. ASSUME UNCHANGED vars PROVE ExpiryInv'
  BY <1>1, <1>2 DEF vars
<1>3. ASSUME NEW f \in Filter, ChangeFilter(f) PROVE ExpiryInv'
  BY <1>1, <1>3 DEF ChangeFilter
<1>4. ASSUME LoadMore PROVE ExpiryInv'
  BY <1>1, <1>4 DEF LoadMore
<1>5. ASSUME LinkExpires PROVE ExpiryInv'
  BY <1>5 DEF LinkExpires
<1>6. ASSUME CookieExpires PROVE ExpiryInv'
  BY <1>6 DEF CookieExpires
<1>7. ASSUME NEW fresh \in BOOLEAN, Visit(fresh) PROVE ExpiryInv'
  <2>1. /\ inUrl' \in BOOLEAN /\ link' \in {"good", "old"}
        /\ phase' = IF inUrl' THEN "exchange" ELSE "metadata"
    BY <1>7 DEF Visit, AtStart
  <2> QED BY <2>1
<1>8. ASSUME Exchanged PROVE ExpiryInv'
  BY <1>8 DEF Exchanged
<1>9. ASSUME ExchangeFails PROVE ExpiryInv'
  BY <1>9 DEF ExchangeFails
<1>10. ASSUME NEW x \in Metadata, MetadataArrives(x) PROVE ExpiryInv'
  <2>1. /\ UNCHANGED <<link, inUrl, cookie>>
        /\ phase = "metadata" /\ phase' \in {"metadata", "ready"}
    BY <1>10 DEF MetadataArrives
  <2> QED BY <2>1
<1>11. ASSUME MetadataFails PROVE ExpiryInv'
  BY <1>11 DEF MetadataFails, OtherStatus
<1>12. ASSUME NEW i \in DOMAIN reloads, Reloaded(i) \/ ReloadFails(i) PROVE ExpiryInv'
  BY <1>1, <1>12 DEF Reloaded, ReloadFails
<1>13. ASSUME NEW i \in DOMAIN mores, LoadedMore(i) \/ LoadMoreFails(i) PROVE ExpiryInv'
  BY <1>1, <1>13 DEF LoadedMore, LoadMoreFails
<1> QED BY <1>2, <1>3, <1>4, <1>5, <1>6, <1>7, <1>8, <1>9, <1>10, <1>11, <1>12, <1>13
        DEF Next, Responds

\* "Your session has expired" (Feed.tsx) is said only when the session, or the
\* link in the address, is over (ExpiryExplained).
THEOREM ExpiryIsExplained == Spec => []ExpiryExplained
<1>1. Init => ExpiryInv
  BY DEF Init, AtStart, ExpiryInv, ExpiryExplained
<1>2. ExpiryInv => ExpiryExplained
  BY DEF ExpiryInv
<1> QED BY <1>1, <1>2, ExpiryStep, PTL DEF Spec
===============================================================================
