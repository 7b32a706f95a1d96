--------------------------- MODULE ListingProofs ----------------------------
(***************************************************************************)
(* A walk along cursors is exact, and what a walk along offsets misses and *)
(* repeats is bounded by what changed beside it: for every page size, and  *)
(* every number of rows and changes.                                       *)
(***************************************************************************)
EXTENDS Listing, FiniteSetTheorems, TLAPS

-----------------------------------------------------------------------------
(* Rows one set has beyond another *)

\* A set with at most one element that another lacks is at most one larger.
LEMMA AtMostOneMore ==
    ASSUME NEW S, NEW T, IsFiniteSet(S), IsFiniteSet(T),
           \A x, y \in T \ S : x = y
    PROVE  Cardinality(T) <= Cardinality(S) + 1
<1>1. Cardinality(S) \in Nat /\ Cardinality(T) \in Nat
  BY FS_CardinalityType
<1>2. CASE T \ S = {}
  <2>1. T \subseteq S
    BY <1>2
  <2>2. Cardinality(T) <= Cardinality(S)
    BY <2>1, FS_Subset
  <2> QED
    BY <1>1, <2>2
<1>3. CASE T \ S # {}
  <2>1. PICK x : x \in T \ S
    BY <1>3
  <2>2. T \subseteq S \cup {x}
    BY <2>1
  <2>3. IsFiniteSet(S \cup {x}) /\ Cardinality(S \cup {x}) = Cardinality(S) + 1
    BY <2>1, FS_AddElement
  <2>4. Cardinality(T) <= Cardinality(S \cup {x})
    BY <2>2, <2>3, FS_Subset
  <2> QED
    BY <2>3, <2>4
<1> QED
  BY <1>2, <1>3

\* There are k numbers from 1 to k.
LEMMA UpTo == \A k \in Nat : IsFiniteSet(1..k) /\ Cardinality(1..k) = k
BY FS_Interval

\* Numbers from a to b are told apart by at most b - a + 1 values.
LEMMA NoMoreThan ==
    ASSUME NEW S, NEW f, NEW a \in Nat, NEW b \in Nat, a <= b,
           \A x \in S : f[x] \in Nat /\ a <= f[x] /\ f[x] < b,
           \A x, y \in S : f[x] = f[y] => x = y
    PROVE  IsFiniteSet(S) /\ Cardinality(S) <= b - a
<1> DEFINE g == [x \in S |-> f[x]]
<1>1. g \in Injection(S, a..b-1)
  BY DEF Injection, IsInjective
<1>2. /\ IsFiniteSet(a..b-1)
      /\ Cardinality(a..b-1) = IF a > b-1 THEN 0 ELSE b-1-a+1
  BY FS_Interval
<1>3. Cardinality(a..b-1) = b - a
  BY <1>2
<1>4. IsFiniteSet(S) /\ Cardinality(S) <= Cardinality(a..b-1)
  BY <1>1, <1>2, FS_Injection
<1> QED
  BY <1>3, <1>4

-----------------------------------------------------------------------------
(* Pages *)

\* A sequence over a set is one over every larger set.
LEMMA SeqOfMore == \A S, T : S \subseteq T => \A s \in Seq(S) : s \in Seq(T)
OBVIOUS

\* The smaller of two numbers.
LEMMA MinOfTwo ==
    ASSUME NEW a \in Nat, NEW b \in Nat
    PROVE  Min({a, b}) = IF a <= b THEN a ELSE b
<1>1. \E x \in {a, b} : \A y \in {a, b} : x <= y
  OBVIOUS
<1>2. Min({a, b}) \in {a, b} /\ \A y \in {a, b} : Min({a, b}) <= y
  BY <1>1 DEF Min
<1> QED
  BY <1>2

\* How often a page has a row.
Times(t, r) == Cardinality({i \in DOMAIN t : t[i] = r})
\* The rows of an answer are all different.
Different(s) == \A i, j \in 1..Len(s) : s[i] = s[j] => i = j
\* A row is among those from k + 1 to last.
Within(s, r, k, last) == \E i \in 1..Len(s) : s[i] = r /\ k < i /\ i <= last

\* A slice of rows that are all different holds each of them at most once.
LEMMA SliceHolds ==
    ASSUME NEW S, NEW s \in Seq(S), Different(s),
           NEW k \in Nat, NEW last \in Nat, k <= last,
           NEW first, first = k + 1, NEW t, t = Slice(s, first, last)
    PROVE  /\ t \in Seq(S)
           /\ \A r : Times(t, r) = IF Within(s, r, k, last) THEN 1 ELSE 0
<1> USE DEF Times, Within, Different
<1> DEFINE m == Min({last, Len(s)})
<1>1. Len(s) \in Nat /\ \A i \in 1..Len(s) : s[i] \in S
  OBVIOUS
<1>2. m = IF last <= Len(s) THEN last ELSE Len(s)
  BY <1>1, MinOfTwo
<1>3. t = SubSeq(s, k + 1, m)
  BY DEF Slice
<1> HIDE DEF m
<1>4. m \in Nat /\ m <= Len(s) /\ m <= last /\ (m = last \/ m = Len(s))
  BY <1>1, <1>2
<1>5. /\ t \in Seq(S)
      /\ DOMAIN t = 1..m-k
      /\ \A i \in 1..m-k : t[i] = s[k + i]
  <2>1. CASE k + 1 <= m
    <3>1. k + 1 \in 1..Len(s) /\ m \in 1..Len(s)
      BY <1>1, <1>4, <2>1
    <3>2. /\ SubSeq(s, k + 1, m) \in Seq(S)
          /\ Len(SubSeq(s, k + 1, m)) = m - k
          /\ \A i \in 1..m-k : SubSeq(s, k + 1, m)[i] = s[k + i]
      BY <1>1, <1>4, <2>1, <3>1
    <3>3. t \in Seq(S) /\ Len(t) = m - k /\ \A i \in 1..m-k : t[i] = s[k + i]
      BY <1>3, <3>2
    <3>4. DOMAIN t = 1..Len(t)
      BY <3>3
    <3> QED
      BY <3>3, <3>4
  <2>2. CASE ~ (k + 1 <= m)
    <3>1. SubSeq(s, k + 1, m) = <<>>
      BY <1>4, <2>2
    <3>2. 1..m-k = {}
      BY <1>4, <2>2
    <3>3. t = <<>>
      BY <1>3, <3>1
    <3>4. <<>> \in Seq(S) /\ DOMAIN <<>> = {}
      OBVIOUS
    <3> QED
      BY <3>2, <3>3, <3>4
  <2> QED
    BY <2>1, <2>2
<1> HIDE DEF Slice
<1>6. ASSUME NEW r
      PROVE  Times(t, r) = IF Within(s, r, k, last) THEN 1 ELSE 0
  <2>1. CASE \E i \in 1..Len(s) : s[i] = r /\ k < i /\ i <= last
    <3>1. PICK i \in 1..Len(s) : s[i] = r /\ k < i /\ i <= last
      BY <2>1
    <3>2. i - k \in 1..m-k /\ t[i - k] = r
      <4>1. i - k \in 1..m-k /\ k + (i - k) = i
        BY <1>1, <1>4, <3>1
      <4> QED
        BY <1>5, <3>1, <4>1
    <3>3. ASSUME NEW j \in 1..m-k, t[j] = r
          PROVE  j = i - k
      <4>1. k + j \in 1..Len(s) /\ s[k + j] = r
        BY <1>1, <1>4, <1>5, <3>3
      <4>2. k + j = i
        BY <3>1, <4>1
      <4> QED
        BY <4>2
    <3>4. {j \in DOMAIN t : t[j] = r} = {i - k}
      BY <1>5, <3>2, <3>3
    <3>5. Cardinality({i - k}) = 1
      BY FS_Singleton
    <3> QED
      BY <2>1, <3>4, <3>5
  <2>2. CASE ~ \E i \in 1..Len(s) : s[i] = r /\ k < i /\ i <= last
    <3>1. ASSUME NEW j \in 1..m-k
          PROVE  t[j] # r
      <4>1. k + j \in 1..Len(s) /\ k < k + j /\ k + j <= last
        BY <1>1, <1>4
      <4> QED
        BY <1>5, <2>2, <4>1
    <3>2. {j \in DOMAIN t : t[j] = r} = {}
      BY <1>5, <3>1
    <3> QED
      BY <2>2, <3>2, FS_EmptySet
  <2> QED
    BY <2>1, <2>2
<1> QED
  BY <1>5, <1>6

-----------------------------------------------------------------------------
(* What a walk has shown *)

\* The types of the state of a walk; rows shown throughout are shown now.
ListTypes ==
    /\ list \in Lists
    /\ order \in list.given \cup {list.default}
    /\ born \in 0..MaxRows
    /\ stamp \in [Ids -> Nat]
    /\ shown \subseteq 1..born
    /\ page \in Nat
    /\ cursor \in Nat
    /\ pending \subseteq {"items", "count", "answer"}
    /\ answer \in Seq(1..born)
    /\ total \in Nat
    /\ returned \in [Ids -> Nat]
    /\ throughout \subseteq shown
    /\ entered \in Nat
    /\ left \in Nat

\* The page that the client has asked for is there, and he has not taken it.
OnItsWay == "answer" \in pending /\ "items" \notin pending

\* How often the page at hand has a row.
Held(r) == Times(answer, r)
\* How often the walk has shown a row, the page on its way included.
Given(r) == returned[r] + IF OnItsWay THEN Held(r) ELSE 0

\* Pages are asked for and taken one by one; rows not born yet have not been shown.
Paging ==
    /\ pending # {} => "answer" \in pending
    /\ page = 0 => pending = {} /\ ~ ended /\ cursor = 0 /\ \A r \in Ids : returned[r] = 0
    /\ \A r \in Ids : r > born => returned[r] = 0

-----------------------------------------------------------------------------
(* Cursors *)

\* A row that the next page leaves out.
Passed(r) == ~ AfterCursor(r)

\* Rows up to the cursor have been shown once, later rows never; without a cursor
\* the walk is at its beginning or at its end.
CursorTracked ==
    list.paging = "cursor" /\ order # NoOrder =>
      /\ "count" \notin pending
      /\ \A r \in 1..born : Given(r) <= 1
      /\ cursor = 0 /\ "items" \in pending => \A r \in 1..born : Given(r) = 0
      /\ cursor = 0 /\ "items" \notin pending /\ page > 0 =>
           /\ \A r \in throughout : Given(r) = 1
           /\ pending = {} => ended
      /\ cursor # 0 =>
           /\ ~ ended
           /\ \A r \in 1..born : Given(r) = 1 => Passed(r)
           /\ \A r \in throughout : Passed(r) => Given(r) = 1
      /\ ended => pending = {} /\ page > 0

-----------------------------------------------------------------------------
(* Offsets *)

\* The rows that the pages asked for so far have gone past.
Skipped == IF "items" \in pending THEN (page - 1) * PageSize ELSE page * PageSize

\* The rows before a row.
Ahead(r) == {s \in shown : Before(s, r)}
\* The place of a row, counted from 0.
Rank(r) == Cardinality(Ahead(r))

\* Rows the walk has gone past without showing them.
Missed == {r \in Placed \cap throughout : Given(r) = 0 /\ Rank(r) < Skipped}

\* Rows the walk has shown twice, or has shown and will meet again.
Again == {r \in Placed : Given(r) > 1 \/ (r \in shown /\ Given(r) >= 1 /\ Rank(r) >= Skipped)}

\* A missed row answers for one that left, a repeated one for one that entered, and
\* a count that is too small for rows that entered since.
OffsetTracked ==
    list.paging = "offset" =>
      /\ Cardinality(Missed) <= left
      /\ Cardinality(Again) <= entered
      /\ page > 0 /\ "count" \notin pending => Cardinality(shown) <= total + entered
      /\ ended => pending = {} /\ page > 0 /\ page * PageSize >= total

\* The invariant of the walks.
ListInv == ListTypes /\ Paging /\ CursorTracked /\ OffsetTracked

-----------------------------------------------------------------------------
(* The order of rows *)

\* What the thirteen lists have in common.
LEMMA ListsKnown ==
    ASSUME NEW l \in Lists
    PROVE  /\ l.paging \in {"offset", "cursor"}
           /\ l.paging = "cursor" => l.key = "id"
           /\ l.given \cup {l.default} \subseteq {"asc", "desc", NoOrder}
<1> USE DEF List, Orders
<1>1. CASE l = PostsOffset \/ l = PostsCursor
  BY <1>1 DEF PostsOffset, PostsCursor
<1>2. CASE l = AdminPosts \/ l = AdminUsers \/ l = AdminNotifications \/ l = UserEndpoints \/ l = AdminEndpoints
  BY <1>2 DEF AdminPosts, AdminUsers, AdminNotifications, UserEndpoints, AdminEndpoints
<1>3. CASE l = NotificationsCursor
  BY <1>3 DEF NotificationsCursor
<1>4. CASE l = EndpointLogs \/ l = AdminLogs \/ l = ChannelLogs \/ l = AdminChannelLogs \/ l = AdminChannels
  BY <1>4 DEF EndpointLogs, AdminLogs, ChannelLogs, AdminChannelLogs, AdminChannels
<1> QED
  BY <1>1, <1>2, <1>3, <1>4 DEF Lists

\* A walk goes by offsets or cursors, in one order, in the other or in none.
LEMMA OrderKnown ==
    ASSUME ListTypes
    PROVE  /\ list.paging \in {"offset", "cursor"}
           /\ list.paging = "cursor" => list.key = "id"
           /\ order \in {"asc", "desc", NoOrder}
BY ListsKnown DEF ListTypes

\* Rows are ordered by their keys, one way or the other, or not at all.
LEMMA KeyOrder ==
    ASSUME ListTypes
    PROVE  /\ \A r \in 1..born : r \in Ids /\ KeyOf(r) \in Nat
           /\ order = "asc" => \A r, s : Before(r, s) <=> KeyOf(r) < KeyOf(s)
           /\ order = "desc" => \A r, s : Before(r, s) <=> KeyOf(r) > KeyOf(s)
           /\ order = NoOrder => \A r, s : ~ Before(r, s)
<1>1. \A r \in 1..born : r \in Ids /\ KeyOf(r) \in Nat
  BY ListingAssumption DEF ListTypes, KeyOf, Ids
<1>2. "asc" # "desc" /\ NoOrder # "asc" /\ NoOrder # "desc"
  BY DEF NoOrder
<1> QED
  BY <1>1, <1>2, OrderKnown DEF Before

\* Before is an order, and tells rows of different keys apart.
LEMMA BeforeOrder ==
    ASSUME ListTypes
    PROVE  /\ \A r \in 1..born : ~ Before(r, r)
           /\ \A r, s, t \in 1..born : Before(r, s) /\ Before(s, t) => Before(r, t)
           /\ order # NoOrder => \A r, s \in 1..born : KeyOf(r) # KeyOf(s) => Before(r, s) \/ Before(s, r)
<1>1. CASE order = "asc"
  BY <1>1, KeyOrder
<1>2. CASE order = "desc"
  BY <1>2, KeyOrder
<1>3. CASE order = NoOrder
  BY <1>3, KeyOrder
<1> QED
  BY <1>1, <1>2, <1>3, OrderKnown

\* A row with a place of its own comes before or after every other row.
LEMMA PlacedOrder ==
    ASSUME ListTypes, NEW r \in Placed, NEW s \in 1..born, s # r
    PROVE  r \in 1..born /\ (Before(r, s) \/ Before(s, r))
BY BeforeOrder DEF Placed

\* There are finitely many rows.
LEMMA RowsFinite ==
    ASSUME ListTypes, NEW S, S \subseteq 1..born
    PROVE  IsFiniteSet(S) /\ Cardinality(S) \in Nat
<1>1. IsFiniteSet(1..born)
  BY FS_Interval DEF ListTypes
<1> QED
  BY <1>1, FS_Subset, FS_CardinalityType

\* An answer lists all rows of the query, each once, none before an earlier one.
LEMMA SortedRows ==
    ASSUME ListTypes, NEW S, S \subseteq 1..born, NEW s \in Sorted(S)
    PROVE  /\ s \in Seq(S) /\ Len(s) \in Nat
           /\ \A i \in 1..Len(s) : s[i] \in S
           /\ Different(s)
           /\ \A r \in S : \E i \in 1..Len(s) : s[i] = r
           /\ \A i, j \in 1..Len(s) : i < j => ~ Before(s[j], s[i])
<1> DEFINE n == Cardinality(S)
<1>1. IsFiniteSet(S) /\ n \in Nat
  BY RowsFinite
<1>2. /\ s \in [1..n -> S]
      /\ \A i, j \in 1..n : i # j => s[i] # s[j]
      /\ \A i, j \in DOMAIN s : i < j => ~ Before(s[j], s[i])
  BY DEF Sorted, SetToSeqs
<1>3. IsFiniteSet(1..n) /\ Cardinality(1..n) = n
  BY <1>1, UpTo
<1>4. s \in Injection(1..n, S)
  BY <1>2 DEF Injection, IsInjective
<1>5. s \in Surjection(1..n, S)
  BY <1>1, <1>3, <1>4, FS_Injection
<1>6. \A r \in S : \E i \in 1..n : s[i] = r
  BY <1>5 DEF Surjection
<1> HIDE DEF n
<1>7. s \in Seq(S) /\ Len(s) = n /\ DOMAIN s = 1..n
  BY <1>1, <1>2
<1> QED
  BY <1>1, <1>2, <1>6, <1>7 DEF Different

-----------------------------------------------------------------------------
(* Type correctness *)

\* Before the first row is born there is nothing to account for.
LEMMA ListInitOK == ListingInit => ListInv
<1> SUFFICES ASSUME ListingInit
             PROVE  ListInv
  OBVIOUS
<1>1. ListTypes
  <2>1. born \in 0..MaxRows /\ stamp \in [Ids -> Nat] /\ returned \in [Ids -> Nat]
    BY ListingAssumption DEF ListingInit
  <2>2. answer \in Seq(1..born)
    BY DEF ListingInit
  <2> QED
    BY <2>1, <2>2 DEF ListingInit, ListTypes
<1>2. Paging /\ CursorTracked
  BY DEF ListingInit, Paging, CursorTracked, Given, OnItsWay
<1>3. OffsetTracked
  <2>1. Missed = {} /\ Again = {}
    BY DEF ListingInit, Missed, Again, Placed
  <2> QED
    BY <2>1, FS_EmptySet DEF ListingInit, OffsetTracked
<1> QED
  BY <1>1, <1>2, <1>3 DEF ListInv

\* What the first rows and their stamps are does not change when one is born.
LEMMA InsertRowFacts ==
    ASSUME ListTypes, InsertRow
    PROVE  /\ born' = born + 1 /\ born' \in Ids
           /\ born \in Nat
           /\ stamp' \in [Ids -> Nat]
           /\ \A r \in 1..born : stamp'[r] = stamp[r]
           /\ (shown' = shown \cup {born + 1} \/ shown' = shown)
<1>1. born \in Nat /\ born' = born + 1 /\ born' \in Ids
  BY DEF InsertRow, ListTypes
<1>2. PICK later \in IF born = 0 \/ list.key = "id" THEN {1} ELSE {0, 1} :
        stamp' = [stamp EXCEPT ![born + 1] = later + IF born = 0 THEN 0 ELSE stamp[born]]
  BY DEF InsertRow
<1>3. later \in Nat
  BY <1>2
<1>4. born # 0 => born \in Ids
  BY <1>1, ListingAssumption DEF Ids
<1>5. (later + IF born = 0 THEN 0 ELSE stamp[born]) \in Nat
  BY <1>3, <1>4 DEF ListTypes
<1>6. stamp' \in [Ids -> Nat]
  BY <1>1, <1>2, <1>5 DEF ListTypes
<1>7. \A r \in 1..born : stamp'[r] = stamp[r]
  BY <1>1, <1>2 DEF ListTypes, Ids
<1> QED
  BY <1>1, <1>6, <1>7 DEF InsertRow

\* A page ends where the next one begins.
LEMMA Pages ==
    ASSUME ListTypes
    PROVE  /\ PageSize \in Nat /\ PageSize >= 1
           /\ page * PageSize \in Nat
           /\ page > 0 => /\ (page - 1) * PageSize \in Nat
                          /\ page * PageSize = (page - 1) * PageSize + PageSize
           /\ page = 0 => page * PageSize = 0
<1>1. page \in Nat /\ PageSize \in Nat /\ PageSize >= 1
  BY ListingAssumption DEF ListTypes
<1>2. \A m, n \in Nat : m * n \in Nat
  OBVIOUS
<1>3. \A m, n \in Nat : m > 0 => m * n = (m - 1) * n + n /\ m - 1 \in Nat
  OBVIOUS
<1>4. \A n \in Nat : 0 * n = 0
  OBVIOUS
<1> QED
  BY <1>1, <1>2, <1>3, <1>4

\* What a page of an offset list holds: the rows at its places.
LEMMA OffsetAnswer ==
    ASSUME ListTypes, Paging, FindManyOffset
    PROVE  /\ page > 0
           /\ answer' \in Seq(shown)
           /\ \E s \in Sorted(shown) :
                \A r : Held(r)' = IF Within(s, r, (page - 1) * PageSize, page * PageSize) THEN 1 ELSE 0
<1>1. page > 0
  BY DEF FindManyOffset, Paging, ListTypes
<1>2. PICK s \in Sorted(shown) : answer' = Slice(s, (page - 1) * PageSize + 1, page * PageSize)
  BY DEF FindManyOffset
<1>3. s \in Seq(shown) /\ Different(s)
  BY SortedRows DEF ListTypes
<1> DEFINE k == (page - 1) * PageSize
           last == page * PageSize
<1>4. k \in Nat /\ last \in Nat /\ k <= last
  BY <1>1, Pages
<1>5. PICK t : t = answer'
  OBVIOUS
<1>6. PICK first : first = k + 1 /\ t = Slice(s, first, last)
  BY <1>2, <1>5
<1> HIDE DEF k, last
<1>7. /\ t \in Seq(shown)
      /\ \A r : Times(t, r) = IF Within(s, r, k, last) THEN 1 ELSE 0
  BY <1>3, <1>4, <1>6, SliceHolds
<1>8. \A r : Held(r)' = Times(t, r)
  BY <1>5 DEF Held
<1> QED
  BY <1>1, <1>5, <1>7, <1>8 DEF k, last

\* What a page of a cursor list holds: the first of the rows after the cursor.
LEMMA CursorAnswer ==
    ASSUME ListTypes, FindManyCursor
    PROVE  \E s \in Sorted({r \in shown : AfterCursor(r)}) :
             /\ answer' \in Seq(shown)
             /\ \A r : Held(r)' = IF Within(s, r, 0, PageSize) THEN 1 ELSE 0
             /\ cursor' = IF Len(s) > PageSize THEN s[PageSize] ELSE 0
             /\ cursor' \in Nat
<1> DEFINE S == {r \in shown : AfterCursor(r)}
<1>1. PICK s \in Sorted(S) :
        /\ answer' = Slice(s, 1, PageSize)
        /\ cursor' = IF Len(s) > PageSize THEN s[PageSize] ELSE 0
  BY DEF FindManyCursor
<1>2. S \subseteq shown /\ S \subseteq 1..born
  BY DEF ListTypes
<1> HIDE DEF S
<1>3. /\ s \in Seq(S) /\ Len(s) \in Nat
      /\ \A i \in 1..Len(s) : s[i] \in S
      /\ Different(s)
  BY <1>2, SortedRows
<1>4. PageSize \in Nat /\ PageSize >= 1
  BY ListingAssumption
<1>5. PICK t : t = answer'
  OBVIOUS
<1>0. PICK k \in Nat : k = 0
  OBVIOUS
<1>6. PICK first : first = k + 1 /\ t = Slice(s, first, PageSize) /\ k <= PageSize
  BY <1>0, <1>1, <1>4, <1>5
<1>7. /\ t \in Seq(S)
      /\ \A r : Times(t, r) = IF Within(s, r, k, PageSize) THEN 1 ELSE 0
  <2>1. s \in Seq(S) /\ Different(s)
    BY <1>3
  <2> QED
    BY <2>1, <1>4, <1>6, SliceHolds
<1>8. \A r : Held(r)' = Times(t, r)
  BY <1>5 DEF Held
<1>10. answer' \in Seq(shown)
  BY <1>2, <1>5, <1>7, SeqOfMore
<1>11. cursor' \in Nat
  <2>1. Len(s) > PageSize => PageSize \in 1..Len(s)
    BY <1>3, <1>4
  <2>2. \A x \in 1..born : x \in Nat
    BY DEF ListTypes
  <2> QED
    BY <1>1, <1>2, <1>3, <2>1, <2>2
<1>12. \A r : Held(r)' = IF Within(s, r, 0, PageSize) THEN 1 ELSE 0
  BY <1>0, <1>7, <1>8
<1> QED
  BY <1>1, <1>10, <1>11, <1>12 DEF S

\* Every step keeps the types.
LEMMA ListTypesStep ==
    ASSUME ListTypes, Paging, [ListingNext]_listVars
    PROVE  ListTypes'
<1> USE DEF table, history
<1>1. CASE InsertRow
  <2>0. born \in Nat /\ born' = born + 1 /\ born' \in 1..MaxRows
    BY <1>1, InsertRowFacts DEF Ids
  <2>1. born' \in 0..MaxRows /\ 1..born \subseteq 1..born' /\ born' \in 1..born'
    BY <2>0, ListingAssumption
  <2>2. shown' \subseteq 1..born'
    BY <1>1, <2>0, <2>1, InsertRowFacts DEF ListTypes
  <2>3. answer \in Seq(1..born')
    BY <2>1, SeqOfMore DEF ListTypes
  <2>4. throughout \subseteq shown'
    BY <1>1, InsertRowFacts DEF ListTypes
  <2>5. entered' \in Nat
    BY <1>1 DEF ListTypes, InsertRow
  <2> QED
    BY <1>1, <2>1, <2>2, <2>3, <2>4, <2>5, InsertRowFacts DEF ListTypes, InsertRow
<1>2. CASE EditIn
  <2>1. shown' \subseteq 1..born /\ throughout \subseteq shown'
    BY <1>2 DEF ListTypes, EditIn
  <2> QED
    BY <1>2, <2>1 DEF ListTypes, EditIn
<1>3. CASE RowLeaves
  <2>1. shown' \subseteq 1..born /\ throughout' \subseteq shown'
    BY <1>3 DEF ListTypes, RowLeaves
  <2> QED
    BY <1>3, <2>1 DEF ListTypes, RowLeaves
<1>4. CASE AskPage
  <2>1. throughout' \subseteq shown
    BY <1>4 DEF ListTypes, AskPage
  <2> QED
    BY <1>4, <2>1 DEF ListTypes, AskPage
<1>0. \A s \in Seq(shown) : s \in Seq(1..born)
  BY SeqOfMore DEF ListTypes
<1>5. CASE FindManyOffset
  <2>1. answer' \in Seq(1..born)
    BY <1>0, <1>5, OffsetAnswer
  <2> QED
    BY <1>5, <2>1 DEF ListTypes, FindManyOffset
<1>6. CASE Count
  <2>1. total' \in Nat
    BY <1>6, RowsFinite DEF ListTypes, Count
  <2> QED
    BY <1>6, <2>1 DEF ListTypes, Count
<1>7. CASE FindManyCursor
  <2>1. answer' \in Seq(1..born) /\ cursor' \in Nat
    BY <1>0, <1>7, CursorAnswer
  <2> QED
    BY <1>7, <2>1 DEF ListTypes, FindManyCursor
<1>8. CASE AnswerPage
  <2>1. \A r : Held(r) \in Nat
    <3>1. Len(answer) \in Nat /\ DOMAIN answer = 1..Len(answer)
      BY DEF ListTypes
    <3>2. IsFiniteSet(1..Len(answer))
      BY <3>1, FS_Interval
    <3> QED
      BY <3>1, <3>2, FS_Subset, FS_CardinalityType DEF Held, Times
  <2>2. returned' = [r \in Ids |-> returned[r] + Held(r)]
    BY <1>8 DEF AnswerPage, Held, Times
  <2>3. returned' \in [Ids -> Nat]
    BY <2>1, <2>2 DEF ListTypes
  <2> QED
    BY <1>8, <2>3 DEF ListTypes, AnswerPage
<1>9. CASE UNCHANGED listVars
  BY <1>9 DEF ListTypes, listVars
<1> QED
  BY <1>1, <1>2, <1>3, <1>4, <1>5, <1>6, <1>7, <1>8, <1>9 DEF ListingNext

\* A page holds rows that exist.
LEMMA HeldRows ==
    ASSUME ListTypes
    PROVE  \A r : Held(r) \in Nat /\ (r \notin 1..born => Held(r) = 0)
<1>1. /\ Len(answer) \in Nat /\ DOMAIN answer = 1..Len(answer)
      /\ \A i \in DOMAIN answer : answer[i] \in 1..born
  BY DEF ListTypes
<1>2. IsFiniteSet(1..Len(answer))
  BY <1>1, FS_Interval
<1>3. \A r : Held(r) \in Nat
  BY <1>1, <1>2, FS_Subset, FS_CardinalityType DEF Held, Times
<1>4. ASSUME NEW r, r \notin 1..born
      PROVE  Held(r) = 0
  <2>1. {i \in DOMAIN answer : answer[i] = r} = {}
    BY <1>1, <1>4
  <2> QED
    BY <2>1, FS_EmptySet DEF Held, Times
<1> QED
  BY <1>3, <1>4

\* How often the walk has shown a row is a number.
LEMMA GivenNumber ==
    ASSUME ListTypes
    PROVE  \A r \in 1..born : Given(r) \in Nat /\ returned[r] \in Nat /\ Held(r) \in Nat
<1>1. \A r \in 1..born : returned[r] \in Nat
  BY KeyOrder DEF ListTypes
<1> QED
  BY <1>1, HeldRows DEF Given

\* The list that is walked and its order are those of the request.
LEMMA SameRequest == [ListingNext]_listVars => UNCHANGED <<list, order>>
BY DEF ListingNext, InsertRow, EditIn, RowLeaves, AskPage, FindManyOffset, Count,
       FindManyCursor, AnswerPage, table, listVars

\* A page that is taken is counted as given.
LEMMA TakenIsGiven ==
    ASSUME ListTypes, Paging, AnswerPage
    PROVE  /\ page > 0
           /\ \A r \in Ids : returned'[r] = returned[r] + Held(r)
           /\ \A r \in 1..born : Given(r)' = Given(r)
<1>1. page > 0
  BY DEF AnswerPage, Paging, ListTypes
<1>2. \A r \in Ids : returned'[r] = returned[r] + Held(r)
  BY DEF AnswerPage, Held, Times
<1>3. OnItsWay /\ ~ OnItsWay'
  BY DEF AnswerPage, OnItsWay
<1>4. \A r \in Ids : returned'[r] \in Nat
  BY <1>2, HeldRows DEF ListTypes
<1>5. \A r \in 1..born : Given(r)' = Given(r)
  BY <1>2, <1>3, <1>4, KeyOrder DEF Given
<1> QED
  BY <1>1, <1>2, <1>5

\* While the page on its way stays the same, so does what the walk has shown.
LEMMA GivenStays ==
    ASSUME OnItsWay' = OnItsWay, UNCHANGED <<answer, returned>>
    PROVE  \A r : Given(r)' = Given(r)
BY DEF Given, Held

\* A row that is born during a walk has not been shown.
LEMMA NewRowNotGiven ==
    ASSUME ListTypes, Paging, InsertRow
    PROVE  Given(born + 1) = 0
<1>1. born + 1 \in Ids /\ born + 1 > born /\ born + 1 \notin 1..born
  BY InsertRowFacts
<1>2. returned[born + 1] = 0 /\ Held(born + 1) = 0
  BY <1>1, HeldRows DEF Paging
<1> QED
  BY <1>2 DEF Given

\* Every step keeps the order of questions and answers.
LEMMA PagingStep ==
    ASSUME ListTypes, Paging, [ListingNext]_listVars
    PROVE  Paging'
<1> USE DEF table, history
<1>1. CASE InsertRow
  <2>1. born' = born + 1 /\ born \in Nat
    BY <1>1, InsertRowFacts
  <2>2. \A r \in Ids : r > born' => r > born
    BY <2>1 DEF Ids
  <2> QED
    BY <1>1, <2>2 DEF Paging, InsertRow
<1>2. CASE EditIn \/ RowLeaves
  BY <1>2 DEF Paging, EditIn, RowLeaves
<1>3. CASE AskPage
  <2>1. page' # 0
    BY <1>3 DEF AskPage, ListTypes
  <2> QED
    BY <1>3, <2>1 DEF Paging, AskPage
<1>4. CASE FindManyOffset \/ Count \/ FindManyCursor
  <2>1. page' = page /\ page # 0 /\ born' = born /\ returned' = returned
    BY <1>4 DEF Paging, FindManyOffset, Count, FindManyCursor
  <2>2. "answer" \in pending'
    BY <1>4 DEF Paging, FindManyOffset, Count, FindManyCursor
  <2> QED
    BY <2>1, <2>2 DEF Paging
<1>5. CASE AnswerPage
  <2>1. page' = page /\ page # 0 /\ born' = born /\ pending' = {}
    BY <1>5 DEF Paging, AnswerPage
  <2>2. \A r \in Ids : r > born => returned'[r] = 0
    <3>1. \A r \in Ids : r > born => r \notin 1..born
      BY DEF Ids, ListTypes
    <3> QED
      BY <1>5, <3>1, TakenIsGiven, HeldRows DEF Paging
  <2> QED
    BY <2>1, <2>2 DEF Paging
<1>6. CASE UNCHANGED listVars
  BY <1>6 DEF Paging, listVars
<1> QED
  BY <1>1, <1>2, <1>3, <1>4, <1>5, <1>6 DEF ListingNext

\* Every step keeps what the cursor says of the rows: a page starts behind the cursor,
\* and where it ends the new cursor is.
LEMMA CursorStep ==
    ASSUME ListTypes, Paging, CursorTracked, [ListingNext]_listVars
    PROVE  CursorTracked'
<1> USE DEF table, history
<1> SUFFICES ASSUME list.paging = "cursor", order # NoOrder
             PROVE  CursorTracked'
  BY SameRequest DEF CursorTracked
<1>0. /\ "count" \notin pending
      /\ \A r \in 1..born : Given(r) <= 1
      /\ cursor = 0 /\ "items" \in pending => \A r \in 1..born : Given(r) = 0
      /\ cursor = 0 /\ "items" \notin pending /\ page > 0 =>
           /\ \A r \in throughout : Given(r) = 1
           /\ pending = {} => ended
      /\ cursor # 0 =>
           /\ ~ ended
           /\ \A r \in 1..born : Given(r) = 1 => Passed(r)
           /\ \A r \in throughout : Passed(r) => Given(r) = 1
      /\ ended => pending = {} /\ page > 0
  BY DEF CursorTracked
<1>k. throughout \subseteq 1..born /\ \A r \in 1..born : Given(r) \in Nat
  BY GivenNumber DEF ListTypes
<1>n. /\ \A r \in 1..born : r \in Nat /\ r # 0
      /\ \A r, s \in 1..born : Before(r, s) <=> IF order = "asc" THEN r < s ELSE r > s
  BY KeyOrder, OrderKnown DEF KeyOf, ListTypes
<1>1. CASE InsertRow
  <2>1. \A r : Given(r)' = Given(r) /\ Passed(r)' = Passed(r)
    BY <1>1, GivenStays DEF InsertRow, OnItsWay, Passed, AfterCursor
  <2>2. Given(born + 1) = 0 /\ 1..born' = 1..born \cup {born + 1}
    BY <1>1, NewRowNotGiven, InsertRowFacts
  <2> QED
    BY <1>0, <1>1, <2>1, <2>2 DEF CursorTracked, InsertRow
<1>2. CASE EditIn
  <2>1. \A r : Given(r)' = Given(r) /\ Passed(r)' = Passed(r)
    BY <1>2, GivenStays DEF EditIn, OnItsWay, Passed, AfterCursor
  <2> QED
    BY <1>0, <1>2, <2>1 DEF CursorTracked, EditIn
<1>3. CASE RowLeaves
  <2>1. \A r : Given(r)' = Given(r) /\ Passed(r)' = Passed(r)
    BY <1>3, GivenStays DEF RowLeaves, OnItsWay, Passed, AfterCursor
  <2>2. throughout' \subseteq throughout
    BY <1>3 DEF RowLeaves
  <2> QED
    BY <1>0, <1>3, <2>1, <2>2 DEF CursorTracked, RowLeaves
<1>4. CASE AskPage
  <2>1. OnItsWay' = OnItsWay
    BY <1>4 DEF AskPage, OnItsWay
  <2>2. \A r : Given(r)' = Given(r) /\ Passed(r)' = Passed(r)
    BY <1>4, <2>1, GivenStays DEF AskPage, Passed, AfterCursor
  <2>3. pending' = {"items", "answer"} /\ cursor' = cursor /\ ~ ended' /\ ~ ended /\ born' = born /\ pending = {}
    BY <1>4 DEF AskPage
  <2>4. CASE page = 0
    <3>1. cursor = 0 /\ \A r \in 1..born : Given(r) = 0
      BY <2>3, <2>4, KeyOrder DEF Paging, Given, OnItsWay
    <3> QED
      BY <1>0, <2>2, <2>3, <3>1 DEF CursorTracked
  <2>5. CASE page # 0
    <3>1. cursor # 0 /\ throughout' = throughout
      BY <1>0, <1>4, <2>3, <2>5 DEF AskPage, ListTypes
    <3> QED
      BY <1>0, <2>2, <2>3, <3>1 DEF CursorTracked
  <2> QED
    BY <2>4, <2>5
<1>5. CASE FindManyCursor
  <2>1. PICK s \in Sorted({r \in shown : AfterCursor(r)}) :
          /\ \A r : Held(r)' = IF Within(s, r, 0, PageSize) THEN 1 ELSE 0
          /\ cursor' = IF Len(s) > PageSize THEN s[PageSize] ELSE 0
    BY <1>5, CursorAnswer
  <2> DEFINE S == {r \in shown : AfterCursor(r)}
  <2>2. S \subseteq 1..born
    BY DEF ListTypes
  <2>3. /\ Len(s) \in Nat
        /\ \A i \in 1..Len(s) : s[i] \in S
        /\ Different(s)
        /\ \A r \in S : \E i \in 1..Len(s) : s[i] = r
        /\ \A i, j \in 1..Len(s) : i < j => ~ Before(s[j], s[i])
    BY <2>1, <2>2, SortedRows
  <2>4. \A r : r \in S <=> r \in shown /\ AfterCursor(r)
    OBVIOUS
  <2> HIDE DEF S
  <2>5. ~ OnItsWay /\ OnItsWay' /\ "items" \in pending /\ "items" \notin pending' /\ pending' # {}
    BY <1>5 DEF FindManyCursor, OnItsWay, Paging
  <2>6. \A r \in 1..born : Given(r) = returned[r] /\ Given(r)' = returned[r] + Held(r)'
    <3>1. returned' = returned
      BY <1>5 DEF FindManyCursor
    <3>2. \A r \in 1..born : Given(r) = returned[r]
      BY <2>5, GivenNumber DEF Given
    <3>3. \A r : Given(r)' = returned[r] + Held(r)'
      BY <2>5, <3>1 DEF Given
    <3> QED
      BY <3>2, <3>3
  <2>7. PageSize \in Nat /\ PageSize >= 1
    BY ListingAssumption
  <2>8. \A r \in 1..born : Held(r)' # 0 => Held(r)' = 1 /\ AfterCursor(r) /\ returned[r] = 0
    <3>1. \A r \in 1..born : Held(r)' # 0 => Held(r)' = 1 /\ AfterCursor(r)
      BY <2>1, <2>3, <2>4 DEF Within
    <3>2. \A r \in 1..born : AfterCursor(r) => Given(r) = 0
      <4>1. \A r \in 1..born : Given(r) = 0 \/ Given(r) = 1
        BY <1>0, <1>k
      <4> QED
        BY <1>0, <2>5, <4>1 DEF Passed
    <3> QED
      BY <2>6, <3>1, <3>2
  <2>9. \A r \in 1..born : Held(r)' \in {0, 1} /\ Given(r)' \in {0, 1}
    <3>1. \A r : Held(r)' \in {0, 1}
      BY <2>1
    <3>2. \A r \in 1..born : Given(r) \in {0, 1}
      BY <1>0, <1>k
    <3> QED
      BY <2>6, <2>8, <3>1, <3>2
  <2>10. /\ born' = born /\ throughout' = throughout /\ ended' = ended /\ ~ ended /\ page' = page
         /\ "count" \notin pending' /\ list' = list /\ order' = order
    BY <1>0, <1>5, <2>5 DEF FindManyCursor
  <2>11. CASE Len(s) > PageSize
    <3>1. PageSize \in 1..Len(s) /\ cursor' = s[PageSize]
      BY <2>1, <2>3, <2>7, <2>11
    <3>2. cursor' \in 1..born /\ AfterCursor(cursor') /\ cursor' # 0
      <4>1. cursor' \in S /\ \A r \in 1..born : r # 0
        BY <2>3, <3>1
      <4> QED
        BY <2>2, <2>4, <4>1
    <3>3. \A r \in 1..born : Passed(r)' <=> IF order = "asc" THEN r <= cursor' ELSE r >= cursor'
      BY <1>n, <2>10, <3>2 DEF Passed, AfterCursor
    <3>4. ASSUME NEW r \in 1..born, Given(r)' = 1
          PROVE  Passed(r)'
      <4>1. CASE Held(r)' = 0
        <5>1. Given(r) = 1 /\ returned[r] = 1
          BY <2>6, <3>4, <4>1, GivenNumber
        <5>2. cursor # 0 /\ Passed(r)
          BY <1>0, <2>5, <5>1
        <5>3. IF order = "asc" THEN r <= cursor /\ cursor < cursor' ELSE r >= cursor /\ cursor > cursor'
          BY <1>n, <3>2, <5>2 DEF Passed, AfterCursor, ListTypes
        <5> QED
          BY <1>n, <3>2, <3>3, <5>3 DEF ListTypes
      <4>2. CASE Held(r)' # 0
        <5>1. PICK i \in 1..Len(s) : s[i] = r /\ i <= PageSize
          BY <2>1, <4>2 DEF Within
        <5>2. i < PageSize \/ i = PageSize
          BY <2>7, <5>1
        <5>3. ~ Before(cursor', r)
          <6>1. i = PageSize => r = cursor'
            BY <3>1, <5>1
          <6>2. ~ Before(r, r)
            BY BeforeOrder
          <6> QED
            BY <2>3, <3>1, <5>1, <5>2, <6>1, <6>2
        <5> QED
          BY <1>n, <3>2, <3>3, <5>3
      <4> QED
        BY <4>1, <4>2
    <3>5. ASSUME NEW r \in throughout, Passed(r)'
          PROVE  Given(r)' = 1
      <4>1. r \in 1..born /\ r \in shown
        BY DEF ListTypes
      <4>2. CASE r \in S
        <5>1. PICK i \in 1..Len(s) : s[i] = r
          BY <2>3, <4>2
        <5>2. i <= PageSize
          <6>1. SUFFICES ASSUME ~ (i <= PageSize)
                         PROVE  FALSE
            OBVIOUS
          <6>2. PageSize < i
            BY <2>7, <6>1
          <6>3. ~ Before(r, cursor') /\ r # cursor'
            BY <2>3, <3>1, <5>1, <6>2 DEF Different
          <6> QED
            BY <1>n, <3>2, <3>3, <3>5, <4>1, <6>3
        <5>3. Held(r)' = 1
          <6>1. 0 < i
            BY <2>3
          <6> QED
            BY <2>1, <5>1, <5>2, <6>1 DEF Within
        <5> QED
          BY <2>6, <2>8, <4>1, <5>3
      <4>3. CASE r \notin S
        <5>1. cursor # 0 /\ Passed(r)
          BY <2>4, <4>1, <4>3 DEF Passed, AfterCursor
        <5>2. Given(r) = 1 /\ Held(r)' = 0
          BY <1>0, <2>8, <2>4, <4>1, <4>3, <5>1
        <5> QED
          BY <2>6, <4>1, <5>2
      <4> QED
        BY <4>2, <4>3
    <3> QED
      BY <1>k, <2>5, <2>9, <2>10, <3>2, <3>4, <3>5 DEF CursorTracked
  <2>12. CASE ~ (Len(s) > PageSize)
    <3>1. cursor' = 0
      BY <2>1, <2>12
    <3>2. ASSUME NEW r \in throughout
          PROVE  Given(r)' = 1
      <4>1. r \in 1..born /\ r \in shown
        BY DEF ListTypes
      <4>2. CASE r \in S
        <5>1. PICK i \in 1..Len(s) : s[i] = r
          BY <2>3, <4>2
        <5>2. 0 < i /\ i <= PageSize
          BY <2>3, <2>7, <2>12
        <5>3. Held(r)' = 1
          BY <2>1, <5>1, <5>2 DEF Within
        <5> QED
          BY <2>6, <2>8, <4>1, <5>3
      <4>3. CASE r \notin S
        <5>1. cursor # 0 /\ Passed(r)
          BY <2>4, <4>1, <4>3 DEF Passed, AfterCursor
        <5>2. Given(r) = 1 /\ Held(r)' = 0
          BY <1>0, <2>8, <2>4, <4>1, <4>3, <5>1
        <5> QED
          BY <2>6, <4>1, <5>2
      <4> QED
        BY <4>2, <4>3
    <3> QED
      BY <2>5, <2>9, <2>10, <3>1, <3>2 DEF CursorTracked
  <2> QED
    BY <2>11, <2>12
<1>6. CASE AnswerPage
  <2>1. \A r \in 1..born : Given(r)' = Given(r)
    BY <1>6, TakenIsGiven
  <2>2. \A r : Passed(r)' = Passed(r)
    BY <1>6 DEF AnswerPage, Passed, AfterCursor
  <2>3. /\ pending' = {} /\ pending = {"answer"} /\ ended' = (cursor = 0) /\ cursor' = cursor
        /\ page' = page /\ page > 0 /\ throughout' = throughout /\ born' = born
    BY <1>6, TakenIsGiven DEF AnswerPage
  <2> QED
    BY <1>0, <1>k, <2>1, <2>2, <2>3 DEF CursorTracked
<1>7. CASE FindManyOffset \/ Count
  BY <1>0, <1>7 DEF FindManyOffset, Count
<1>8. CASE UNCHANGED listVars
  <2>1. \A r : Given(r)' = Given(r) /\ Passed(r)' = Passed(r)
    BY <1>8, GivenStays DEF listVars, OnItsWay, Passed, AfterCursor
  <2> QED
    BY <1>0, <1>8, <2>1 DEF CursorTracked, listVars
<1> QED
  BY <1>1, <1>2, <1>3, <1>4, <1>5, <1>6, <1>7, <1>8 DEF ListingNext

-----------------------------------------------------------------------------
(* The places of rows *)

\* The place of a row is the number of rows before it.
LEMMA RankNumber ==
    ASSUME ListTypes
    PROVE  \A r : IsFiniteSet(Ahead(r)) /\ Rank(r) \in Nat
BY RowsFinite DEF Ahead, Rank, ListTypes

\* A row that comes before another has a smaller place.
LEMMA RankGrows ==
    ASSUME ListTypes, NEW r \in shown, NEW q \in 1..born, Before(r, q)
    PROVE  Rank(r) < Rank(q)
<1>1. r \in 1..born
  BY DEF ListTypes
<1>2. Ahead(r) \cup {r} \subseteq Ahead(q)
  BY <1>1, BeforeOrder DEF Ahead, ListTypes
<1>3. r \notin Ahead(r)
  BY <1>1, BeforeOrder DEF Ahead
<1>4. Cardinality(Ahead(r) \cup {r}) = Rank(r) + 1
  BY <1>3, RankNumber, FS_AddElement DEF Rank
<1>5. Cardinality(Ahead(r) \cup {r}) <= Rank(q)
  BY <1>2, RankNumber, FS_Subset DEF Rank
<1> QED
  BY <1>4, <1>5, RankNumber

\* Two rows with places of their own do not have the same one.
LEMMA RankTells ==
    ASSUME ListTypes, NEW r \in Placed \cap shown, NEW q \in Placed \cap shown, Rank(r) = Rank(q)
    PROVE  r = q
<1> SUFFICES ASSUME r # q
             PROVE  FALSE
  OBVIOUS
<1>1. r \in 1..born /\ q \in 1..born
  BY DEF ListTypes
<1>2. Before(r, q) \/ Before(q, r)
  BY <1>1, PlacedOrder
<1>3. Rank(r) < Rank(q) \/ Rank(q) < Rank(r)
  BY <1>1, <1>2, RankGrows
<1> QED
  BY <1>3, RankNumber

\* A row is in the list, so that fewer rows than the list has are before it.
LEMMA RankInside ==
    ASSUME ListTypes, NEW r \in shown
    PROVE  Rank(r) < Cardinality(shown)
<1>1. r \in 1..born /\ IsFiniteSet(shown) /\ Cardinality(shown) \in Nat
  BY RowsFinite DEF ListTypes
<1>2. Ahead(r) \cup {r} \subseteq shown /\ r \notin Ahead(r)
  BY <1>1, BeforeOrder DEF Ahead
<1>3. Cardinality(Ahead(r) \cup {r}) = Rank(r) + 1
  BY <1>2, RankNumber, FS_AddElement DEF Rank
<1>4. Cardinality(Ahead(r) \cup {r}) <= Cardinality(shown)
  BY <1>1, <1>2, FS_Subset
<1> QED
  BY <1>1, <1>3, <1>4, RankNumber

\* A query returns a row at the place the order gives it.
LEMMA PlaceInAnswer ==
    ASSUME ListTypes, NEW s \in Sorted(shown), NEW i \in 1..Len(s), s[i] \in Placed
    PROVE  i = Rank(s[i]) + 1
<1> DEFINE r == s[i]
<1>0. shown \subseteq 1..born
  BY DEF ListTypes
<1>1. /\ Len(s) \in Nat
      /\ \A j \in 1..Len(s) : s[j] \in shown
      /\ \A j, k \in 1..Len(s) : s[j] = s[k] => j = k
      /\ \A q \in shown : \E j \in 1..Len(s) : s[j] = q
      /\ \A j, k \in 1..Len(s) : j < k => ~ Before(s[k], s[j])
  BY <1>0, SortedRows DEF Different
<1>2. i \in Nat /\ i - 1 \in Nat /\ 1..i-1 \subseteq 1..Len(s) /\ \A j \in 1..i-1 : j < i
  BY <1>1
<1>3. \A j \in 1..i-1 : s[j] \in Ahead(r)
  <2> SUFFICES ASSUME NEW j \in 1..i-1
               PROVE  s[j] \in Ahead(r)
    OBVIOUS
  <2>1. s[j] \in shown /\ s[j] # r /\ ~ Before(r, s[j])
    BY <1>1, <1>2
  <2>2. Before(s[j], r)
    BY <1>0, <2>1, PlacedOrder
  <2> QED
    BY <2>1, <2>2 DEF Ahead
<1>4. \A q \in Ahead(r) : \E j \in 1..i-1 : s[j] = q
  <2> SUFFICES ASSUME NEW q \in Ahead(r)
               PROVE  \E j \in 1..i-1 : s[j] = q
    OBVIOUS
  <2>1. q \in shown /\ Before(q, r)
    BY DEF Ahead
  <2>2. PICK j \in 1..Len(s) : s[j] = q
    BY <1>1, <2>1
  <2>3. q # r
    BY <1>0, <2>1, BeforeOrder
  <2>4. ~ (i < j) /\ i # j
    BY <1>1, <2>1, <2>2, <2>3
  <2>5. j \in 1..i-1
    BY <1>1, <2>4
  <2> QED
    BY <2>2, <2>5
<1> DEFINE f == [j \in 1..i-1 |-> s[j]]
<1>5. f \in Injection(1..i-1, Ahead(r))
  BY <1>1, <1>2, <1>3 DEF Injection, IsInjective
<1>6. f \in Surjection(1..i-1, Ahead(r))
  BY <1>3, <1>4 DEF Surjection
<1>7. IsFiniteSet(1..i-1) /\ Cardinality(1..i-1) = i - 1
  <2>1. \A k \in Nat : IsFiniteSet(1..k) /\ Cardinality(1..k) = k
    BY UpTo
  <2> QED
    BY <1>2, <2>1
<1>8. Cardinality(Ahead(r)) = Cardinality(1..i-1)
  BY <1>5, <1>6, <1>7, FS_Surjection
<1> QED
  BY <1>2, <1>7, <1>8 DEF Rank

\* A row that enters moves those it comes before by one place.
LEMMA RankOnEntry ==
    ASSUME ListTypes, NEW x, x \notin shown, shown' = shown \cup {x},
           \A s \in shown, r \in 1..born : Before(s, r)' <=> Before(s, r)
    PROVE  \A r \in 1..born : Rank(r)' = IF Before(x, r)' THEN Rank(r) + 1 ELSE Rank(r)
<1> SUFFICES ASSUME NEW r \in 1..born
             PROVE  Rank(r)' = IF Before(x, r)' THEN Rank(r) + 1 ELSE Rank(r)
  OBVIOUS
<1>1. PICK A : A = Ahead(r)'
  OBVIOUS
<1>2. Rank(r)' = Cardinality(A)
  BY <1>1 DEF Rank
<1>3. A = {s \in shown' : Before(s, r)'}
  BY <1>1 DEF Ahead
<1>4. CASE Before(x, r)'
  <2>1. A = Ahead(r) \cup {x} /\ x \notin Ahead(r)
    BY <1>3, <1>4 DEF Ahead
  <2> QED
    BY <1>2, <1>4, <2>1, RankNumber, FS_AddElement DEF Rank
<1>5. CASE ~ Before(x, r)'
  <2>1. A = Ahead(r)
    BY <1>3, <1>5 DEF Ahead
  <2> QED
    BY <1>2, <1>5, <2>1 DEF Rank
<1> QED
  BY <1>4, <1>5

\* A row that leaves moves those it came before back by one place.
LEMMA RankOnLeave ==
    ASSUME ListTypes, NEW x \in shown, shown' = shown \ {x},
           \A s \in shown, r \in 1..born : Before(s, r)' <=> Before(s, r)
    PROVE  \A r \in 1..born : Rank(r)' = IF Before(x, r) THEN Rank(r) - 1 ELSE Rank(r)
<1> SUFFICES ASSUME NEW r \in 1..born
             PROVE  Rank(r)' = IF Before(x, r) THEN Rank(r) - 1 ELSE Rank(r)
  OBVIOUS
<1>1. PICK A : A = Ahead(r)'
  OBVIOUS
<1>2. Rank(r)' = Cardinality(A)
  BY <1>1 DEF Rank
<1>3. A = {s \in shown' : Before(s, r)'}
  BY <1>1 DEF Ahead
<1>4. CASE Before(x, r)
  <2>1. A = Ahead(r) \ {x} /\ x \in Ahead(r)
    BY <1>3, <1>4 DEF Ahead
  <2> QED
    BY <1>2, <1>4, <2>1, RankNumber, FS_RemoveElement DEF Rank
<1>5. CASE ~ Before(x, r)
  <2>1. A = Ahead(r)
    BY <1>3, <1>5 DEF Ahead
  <2> QED
    BY <1>2, <1>5, <2>1 DEF Rank
<1> QED
  BY <1>4, <1>5

\* Before the walk has shown a row it has missed none and repeated none.
LEMMA NothingShown ==
    ASSUME ListTypes', \A r \in 1..born' : Given(r)' = 0, Skipped' = 0
    PROVE  Missed' = {} /\ Again' = {}
<1>1. \A r \in Placed' : r \in 1..born' /\ Given(r)' = 0
  BY DEF Placed
<1>2. Again' = {}
  BY <1>1 DEF Again
<1>3. \A r : ~ (Rank(r)' < 0)
  <2> SUFFICES ASSUME NEW r
               PROVE  ~ (Rank(r)' < 0)
    OBVIOUS
  <2>1. PICK A : A = Ahead(r)'
    OBVIOUS
  <2>2. A \subseteq 1..born' /\ born' \in Nat
    <3>1. shown' \subseteq 1..born' /\ born' \in Nat
      BY DEF ListTypes
    <3>2. A \subseteq shown'
      BY <2>1 DEF Ahead
    <3> QED
      BY <3>1, <3>2
  <2>3. IsFiniteSet(1..born')
    BY <2>2, FS_Interval
  <2>4. Cardinality(A) \in Nat
    BY <2>2, <2>3, FS_Subset, FS_CardinalityType
  <2> QED
    BY <2>1, <2>4 DEF Rank
<1>4. Missed' = {}
  BY <1>3 DEF Missed
<1> QED
  BY <1>2, <1>4

-----------------------------------------------------------------------------
(* The walk along offsets *)

\* Rows missed and rows repeated are rows that were born.
LEMMA ListedRows ==
    ASSUME ListTypes
    PROVE  /\ Placed \subseteq 1..born /\ Missed \subseteq 1..born /\ Again \subseteq 1..born
           /\ IsFiniteSet(Missed) /\ Cardinality(Missed) \in Nat
           /\ IsFiniteSet(Again) /\ Cardinality(Again) \in Nat
<1>1. Placed \subseteq 1..born /\ Missed \subseteq 1..born /\ Again \subseteq 1..born
  BY DEF Placed, Missed, Again
<1> QED
  BY <1>1, RowsFinite

\* A row that enters an offset list: one more row at most is shown twice.
LEMMA EntryStep ==
    ASSUME ListTypes, NEW x, x \notin shown, shown' = shown \cup {x}, x \in 1..born',
           \A s \in shown, r \in 1..born : Before(s, r)' <=> Before(s, r),
           \A r \in 1..born : r \in Placed' => r \in Placed,
           \A r \in 1..born : Given(r)' = Given(r),
           1..born' = 1..born \cup {x},
           x \notin 1..born => Given(x)' = 0,
           x \in 1..born => \A r \in 1..born : Before(x, r)' <=> Before(x, r),
           Skipped' = Skipped, Skipped \in Nat, throughout' = throughout
    PROVE  /\ Missed' \subseteq Missed
           /\ \A y, z \in Again' \ Again : y = z
<1>1. \A r \in 1..born : /\ Rank(r)' = IF Before(x, r)' THEN Rank(r) + 1 ELSE Rank(r)
                         /\ Rank(r) \in Nat
  BY RankOnEntry, RankNumber
<1>2. Missed' \subseteq Missed
  <2> SUFFICES ASSUME NEW r \in Missed'
               PROVE  r \in Missed
    OBVIOUS
  <2>1. r \in Placed' /\ r \in throughout /\ Given(r)' = 0 /\ Rank(r)' < Skipped
    BY DEF Missed
  <2>2. r \in 1..born
    BY <2>1 DEF ListTypes
  <2>3. r \in Placed /\ Given(r) = 0
    BY <2>1, <2>2
  <2>4. Rank(r) < Skipped
    BY <1>1, <2>1, <2>2
  <2> QED
    BY <2>1, <2>3, <2>4 DEF Missed
<1>3. ASSUME NEW r \in Again' \ Again
      PROVE  /\ r \in 1..born /\ r \in Placed /\ Given(r) >= 1
             /\ \/ r = x /\ Rank(x) >= Skipped
                \/ r \in shown /\ Rank(r) = Skipped - 1 /\ Before(x, r)'
  <2>1. r \in Placed' /\ (Given(r)' > 1 \/ (r \in shown' /\ Given(r)' >= 1 /\ Rank(r)' >= Skipped))
    BY DEF Again
  <2>2. r \in 1..born'
    BY <2>1 DEF Placed
  <2>3. r \in 1..born
    BY <2>1, <2>2
  <2>4. r \in Placed /\ Given(r)' = Given(r)
    BY <2>1, <2>3
  <2>5. ~ (Given(r) > 1)
    BY <2>4 DEF Again
  <2>6. r \in shown' /\ Given(r) >= 1 /\ Rank(r)' >= Skipped
    BY <2>1, <2>4, <2>5
  <2>7. CASE r = x
    <3>1. ~ Before(x, x)'
      BY <2>3, <2>7, BeforeOrder
    <3> QED
      BY <1>1, <2>3, <2>4, <2>6, <2>7, <3>1
  <2>8. CASE r # x
    <3>1. r \in shown
      BY <2>6, <2>8
    <3>2. ~ (Rank(r) >= Skipped)
      BY <2>4, <2>6, <3>1 DEF Again
    <3>3. Before(x, r)' /\ Rank(r) = Skipped - 1
      BY <1>1, <2>3, <2>6, <3>2
    <3> QED
      BY <2>3, <2>4, <2>6, <3>1, <3>3
  <2> QED
    BY <2>7, <2>8
<1>4. ASSUME NEW y \in Again' \ Again, NEW z \in Again' \ Again, y = x, z # x
      PROVE  FALSE
  <2>1. /\ x \in 1..born /\ x \in Placed /\ Rank(x) >= Skipped
        /\ z \in 1..born /\ z \in shown /\ Rank(z) = Skipped - 1 /\ Before(x, z)'
    BY <1>3, <1>4
  <2>2. Before(x, z)
    BY <2>1
  <2>3. Ahead(x) \subseteq Ahead(z)
    BY <2>1, <2>2, BeforeOrder DEF Ahead, ListTypes
  <2>4. Rank(x) <= Rank(z)
    BY <2>3, RankNumber, FS_Subset DEF Rank
  <2> QED
    BY <1>1, <2>1, <2>4
<1>5. ASSUME NEW y \in Again' \ Again, NEW z \in Again' \ Again
      PROVE  y = z
  <2>1. CASE y = x \/ z = x
    BY <1>4, <2>1
  <2>2. CASE y # x /\ z # x
    BY <1>3, <2>2, RankTells
  <2> QED
    BY <2>1, <2>2
<1> QED
  BY <1>2, <1>5

\* A row that leaves an offset list: one more row at most is missed.
LEMMA LeaveStep ==
    ASSUME ListTypes, NEW x \in shown, shown' = shown \ {x}, throughout' = throughout \ {x},
           \A s \in shown, r \in 1..born : Before(s, r)' <=> Before(s, r),
           Placed' = Placed, \A r : Given(r)' = Given(r),
           Skipped' = Skipped, Skipped \in Nat
    PROVE  /\ \A y, z \in Missed' \ Missed : y = z
           /\ Again' \subseteq Again
<1>1. \A r \in 1..born : /\ Rank(r)' = IF Before(x, r) THEN Rank(r) - 1 ELSE Rank(r)
                         /\ Rank(r) \in Nat
  BY RankOnLeave, RankNumber
<1>2. Again' \subseteq Again
  <2> SUFFICES ASSUME NEW r \in Again'
               PROVE  r \in Again
    OBVIOUS
  <2>1. /\ r \in Placed
        /\ Given(r) > 1 \/ (r \in shown' /\ Given(r) >= 1 /\ Rank(r)' >= Skipped)
    BY DEF Again
  <2>2. r \in 1..born
    BY <2>1, ListedRows
  <2>3. Rank(r)' >= Skipped => Rank(r) >= Skipped
    BY <1>1, <2>2
  <2> QED
    BY <2>1, <2>3 DEF Again
<1>3. ASSUME NEW r \in Missed' \ Missed
      PROVE  r \in Placed \cap shown /\ Rank(r) = Skipped
  <2>1. r \in Placed /\ r \in throughout /\ Given(r) = 0 /\ Rank(r)' < Skipped
    BY DEF Missed
  <2>2. r \in 1..born /\ r \in shown
    BY <2>1 DEF ListTypes
  <2>3. ~ (Rank(r) < Skipped)
    BY <2>1 DEF Missed
  <2> QED
    BY <1>1, <2>1, <2>2, <2>3
<1>4. \A y, z \in Missed' \ Missed : y = z
  BY <1>3, RankTells
<1> QED
  BY <1>2, <1>4

\* A page of an offset list moves on: no more rows are missed or repeated.
LEMMA PageStep ==
    ASSUME ListTypes, Paging, FindManyOffset
    PROVE  Missed' \subseteq Missed /\ Again' \subseteq Again
<1> DEFINE K == (page - 1) * PageSize
           L == page * PageSize
<1>1. page > 0
  BY OffsetAnswer
<1>2. PICK s \in Sorted(shown) : \A r : Held(r)' = IF Within(s, r, K, L) THEN 1 ELSE 0
  BY OffsetAnswer
<1>3. K \in Nat /\ L \in Nat /\ K <= L
  BY <1>1, Pages
<1>4. /\ "items" \in pending /\ "items" \notin pending' /\ ~ OnItsWay /\ OnItsWay'
      /\ page' = page /\ shown' = shown /\ throughout' = throughout /\ returned' = returned
      /\ born' = born
  BY DEF FindManyOffset, OnItsWay, Paging, table, history
<1>5. Skipped = K /\ Skipped' = L
  BY <1>4 DEF Skipped
<1> HIDE DEF K, L
<1>6. Placed' = Placed /\ \A r : Rank(r)' = Rank(r)
  BY DEF FindManyOffset, table, Placed, Rank, Ahead, Before, KeyOf
<1>7. \A r \in 1..born : Given(r) = returned[r] /\ Given(r)' = returned[r] + Held(r)'
  <2>1. \A r \in 1..born : Given(r) = returned[r]
    BY <1>4, GivenNumber DEF Given
  <2>2. \A r : Given(r)' = returned[r] + Held(r)'
    BY <1>4 DEF Given
  <2> QED
    BY <2>1, <2>2
<1>8. ASSUME NEW r \in Placed
      PROVE  /\ r \in 1..born
             /\ Held(r)' = 1 => r \in shown /\ K <= Rank(r) /\ Rank(r) < L
             /\ r \in shown /\ K <= Rank(r) /\ Rank(r) < L => Held(r)' = 1
             /\ Held(r)' \in {0, 1}
  <2>0. r \in 1..born /\ shown \subseteq 1..born /\ Rank(r) \in Nat
    BY ListedRows, RankNumber DEF ListTypes
  <2>1. /\ Len(s) \in Nat
        /\ \A i \in 1..Len(s) : s[i] \in shown
        /\ \A q \in shown : \E i \in 1..Len(s) : s[i] = q
    BY <2>0, SortedRows
  <2>2. \A i \in 1..Len(s) : s[i] = r => i = Rank(r) + 1
    BY PlaceInAnswer
  <2>3. Within(s, r, K, L) <=> r \in shown /\ K <= Rank(r) /\ Rank(r) < L
    BY <1>3, <2>0, <2>1, <2>2 DEF Within
  <2> QED
    BY <1>2, <2>0, <2>3
<1>9. \A r \in 1..born : returned[r] \in Nat
  BY GivenNumber
<1>10. Missed' \subseteq Missed
  <2> SUFFICES ASSUME NEW r \in Missed'
               PROVE  r \in Missed
    OBVIOUS
  <2>1. r \in Placed /\ r \in throughout /\ Given(r)' = 0 /\ Rank(r) < L
    BY <1>4, <1>5, <1>6 DEF Missed
  <2>2. Held(r)' = 0 /\ Given(r) = 0
    BY <1>7, <1>8, <1>9, <2>1
  <2>3. r \in shown
    BY <2>1 DEF ListTypes
  <2>4. Rank(r) < K
    BY <1>3, <1>8, <2>1, <2>2, <2>3, RankNumber
  <2> QED
    BY <1>5, <2>1, <2>2, <2>4 DEF Missed
<1>11. Again' \subseteq Again
  <2> SUFFICES ASSUME NEW r \in Again'
               PROVE  r \in Again
    OBVIOUS
  <2>1. r \in Placed /\ (Given(r)' > 1 \/ (r \in shown /\ Given(r)' >= 1 /\ Rank(r) >= L))
    BY <1>4, <1>5, <1>6 DEF Again
  <2>2. CASE Held(r)' = 0
    <3>1. Given(r) = Given(r)'
      BY <1>7, <1>8, <1>9, <2>1, <2>2
    <3>2. Rank(r) >= L => Rank(r) >= K
      BY <1>3, RankNumber
    <3> QED
      BY <1>5, <2>1, <3>1, <3>2 DEF Again
  <2>3. CASE Held(r)' = 1
    <3>1. r \in shown /\ K <= Rank(r) /\ Rank(r) < L
      BY <1>8, <2>1, <2>3
    <3>2. Given(r)' > 1
      BY <1>3, <2>1, <3>1, RankNumber
    <3>3. Given(r) >= 1 /\ Rank(r) >= K
      BY <1>3, <1>7, <1>8, <1>9, <2>1, <2>3, <3>1, <3>2, RankNumber
    <3> QED
      BY <1>5, <2>1, <3>1, <3>3 DEF Again
  <2> QED
    BY <1>8, <2>1, <2>2, <2>3
<1> QED
  BY <1>10, <1>11

\* Each step keeps the account of an offset walk: missed rows against rows that
\* left, repeated ones against rows that entered, the rows there are against the count.
LEMMA OffsetStep ==
    ASSUME ListTypes, ListTypes', Paging, OffsetTracked, [ListingNext]_listVars
    PROVE  OffsetTracked'
<1> USE DEF table, history
<1> SUFFICES ASSUME list.paging = "offset"
             PROVE  OffsetTracked'
  BY SameRequest DEF OffsetTracked
<1>0. /\ Cardinality(Missed) <= left
      /\ Cardinality(Again) <= entered
      /\ page > 0 /\ "count" \notin pending => Cardinality(shown) <= total + entered
      /\ ended => pending = {} /\ page > 0 /\ page * PageSize >= total
  BY DEF OffsetTracked
<1>t. /\ left \in Nat /\ entered \in Nat /\ total \in Nat /\ page \in Nat
      /\ shown \subseteq 1..born /\ Cardinality(shown) \in Nat
      /\ Cardinality(Missed) \in Nat /\ Cardinality(Again) \in Nat
  BY ListedRows, RowsFinite DEF ListTypes
<1>s. Skipped \in Nat
  <2>1. "items" \in pending => page > 0
    BY DEF Paging, ListTypes
  <2> QED
    BY <2>1, Pages DEF Skipped
<1>f. /\ IsFiniteSet(Missed') /\ IsFiniteSet(Again') /\ IsFiniteSet(shown')
      /\ Cardinality(Missed') \in Nat /\ Cardinality(Again') \in Nat
  <2>1. Missed' \subseteq 1..born' /\ Again' \subseteq 1..born' /\ shown' \subseteq 1..born' /\ born' \in Nat
    BY DEF Missed, Again, Placed, ListTypes
  <2>2. IsFiniteSet(1..born')
    BY <2>1, FS_Interval
  <2> QED
    BY <2>1, <2>2, FS_Subset, FS_CardinalityType
<1>m. /\ Missed' \subseteq Missed => Cardinality(Missed') <= left
      /\ (\A y, z \in Missed' \ Missed : y = z) => Cardinality(Missed') <= left + 1
  BY <1>0, <1>f, <1>t, ListedRows, FS_Subset, AtMostOneMore
<1>a. /\ Again' \subseteq Again => Cardinality(Again') <= entered
      /\ (\A y, z \in Again' \ Again : y = z) => Cardinality(Again') <= entered + 1
  BY <1>0, <1>f, <1>t, ListedRows, FS_Subset, AtMostOneMore
<1>e. Cardinality({}) = 0
  BY FS_EmptySet
<1>1. CASE InsertRow
  <2>1. /\ born \in Nat /\ 1..born' = 1..born \cup {born + 1} /\ born + 1 \notin 1..born
        /\ born' = born + 1
        /\ \A r \in 1..born : stamp'[r] = stamp[r]
        /\ UNCHANGED <<list, order, page, cursor, pending, answer, total, ended, returned, throughout, left>>
    <3>1. born \in Nat /\ born' = born + 1 /\ \A r \in 1..born : stamp'[r] = stamp[r]
      BY <1>1, InsertRowFacts
    <3>2. 1..born' = 1..born \cup {born + 1} /\ born + 1 \notin 1..born
      BY <3>1
    <3> QED
      BY <1>1, <3>1, <3>2 DEF InsertRow
  <2>2. \A r : Given(r)' = Given(r)
    BY <2>1, GivenStays DEF OnItsWay
  <2>3. Skipped' = Skipped
    BY <2>1 DEF Skipped
  <2>4. CASE page = 0
    <3>1. ~ Walking /\ pending = {} /\ ~ ended
      BY <2>4 DEF Walking, Paging
    <3>2. \A r \in 1..born' : Given(r)' = 0
      <4>1. \A r \in 1..born' : r \in Ids
        BY ListingAssumption DEF ListTypes, Ids
      <4>2. \A r \in Ids : returned[r] = 0
        BY <2>4 DEF Paging
      <4> QED
        BY <2>2, <3>1, <4>1, <4>2 DEF Given, OnItsWay
    <3>3. Skipped' = 0
      BY <2>3, <2>4, <3>1, Pages DEF Skipped
    <3>4. Missed' = {} /\ Again' = {}
      BY <3>2, <3>3, NothingShown
    <3>5. entered' = entered
      BY <1>1, <3>1 DEF InsertRow
    <3> QED
      BY <1>t, <1>e, <2>1, <2>4, <3>1, <3>4, <3>5 DEF OffsetTracked
  <2>5. CASE page # 0
    <3>1. Walking /\ shown' = shown \cup {born + 1} /\ entered' = entered + 1
      BY <1>1, <2>5 DEF InsertRow, Changes
    <3>2. \A s, r \in 1..born : Before(s, r)' <=> Before(s, r)
      BY <2>1 DEF Before, KeyOf
    <3>3. \A r \in 1..born : r \in Placed' => r \in Placed
      BY <2>1 DEF Placed, KeyOf
    <3>4. PICK x : x = born + 1
      OBVIOUS
    <3>5. Given(x)' = 0
      BY <1>1, <2>2, <3>4, NewRowNotGiven
    <3>6. /\ x \notin shown /\ shown' = shown \cup {x} /\ x \in 1..born' /\ x \notin 1..born
          /\ \A s \in shown, r \in 1..born : Before(s, r)' <=> Before(s, r)
          /\ 1..born' = 1..born \cup {x}
          /\ Given(x)' = 0
          /\ throughout' = throughout
      <4>1. x \notin 1..born /\ 1..born' = 1..born \cup {x} /\ shown' = shown \cup {x}
        BY <2>1, <3>1, <3>4
      <4> QED
        BY <1>t, <2>1, <3>2, <3>5, <4>1
    <3>7. Missed' \subseteq Missed /\ \A y, z \in Again' \ Again : y = z
      BY <1>s, <2>2, <2>3, <3>3, <3>6, EntryStep
    <3>8. Cardinality(shown') = Cardinality(shown) + 1
      BY <1>t, <3>6, RowsFinite, FS_AddElement
    <3>9. ~ ended
      BY <3>1 DEF Walking
    <3> QED
      BY <1>0, <1>t, <1>m, <1>a, <2>1, <3>1, <3>7, <3>8, <3>9 DEF OffsetTracked
  <2> QED
    BY <2>4, <2>5
<1>2. CASE EditIn
  <2>1. PICK x \in 1..born \ shown : shown' = shown \cup {x}
    BY <1>2 DEF EditIn
  <2>2. /\ entered' = entered + 1 /\ Walking
        /\ UNCHANGED <<list, order, born, stamp, page, cursor, pending, answer, total, ended, returned, throughout, left>>
    BY <1>2 DEF EditIn, Changes
  <2>3. \A s, r : Before(s, r)' <=> Before(s, r)
    BY <2>2 DEF Before, KeyOf
  <2>4. Placed' = Placed /\ Skipped' = Skipped
    BY <2>2 DEF Placed, KeyOf, Skipped
  <2>5. \A r : Given(r)' = Given(r)
    BY <2>2, GivenStays DEF OnItsWay
  <2>6. x \in 1..born /\ x \notin shown /\ 1..born' = 1..born \cup {x} /\ x \in 1..born'
    BY <2>1, <2>2
  <2>7. Missed' \subseteq Missed /\ \A y, z \in Again' \ Again : y = z
    BY <1>s, <2>1, <2>2, <2>3, <2>4, <2>5, <2>6, EntryStep
  <2>8. Cardinality(shown') = Cardinality(shown) + 1
    BY <1>t, <2>1, <2>6, RowsFinite, FS_AddElement
  <2>9. ~ ended
    BY <2>2 DEF Walking
  <2> QED
    BY <1>0, <1>t, <1>m, <1>a, <2>2, <2>7, <2>8, <2>9 DEF OffsetTracked
<1>3. CASE RowLeaves
  <2>1. PICK x \in shown : shown' = shown \ {x} /\ throughout' = throughout \ {x}
    BY <1>3 DEF RowLeaves
  <2>2. /\ left' = left + 1 /\ Walking
        /\ UNCHANGED <<list, order, born, stamp, page, cursor, pending, answer, total, ended, returned, entered>>
    BY <1>3 DEF RowLeaves, Changes
  <2>3. \A s, r : Before(s, r)' <=> Before(s, r)
    BY <2>2 DEF Before, KeyOf
  <2>4. Placed' = Placed /\ Skipped' = Skipped
    BY <2>2 DEF Placed, KeyOf, Skipped
  <2>5. \A r : Given(r)' = Given(r)
    BY <2>2, GivenStays DEF OnItsWay
  <2>6. (\A y, z \in Missed' \ Missed : y = z) /\ Again' \subseteq Again
    BY <1>s, <2>1, <2>3, <2>4, <2>5, LeaveStep
  <2>7. Cardinality(shown') = Cardinality(shown) - 1
    BY <1>t, <2>1, RowsFinite, FS_RemoveElement
  <2>8. ~ ended
    BY <2>2 DEF Walking
  <2> QED
    BY <1>0, <1>t, <1>m, <1>a, <2>2, <2>6, <2>7, <2>8 DEF OffsetTracked
<1>4. CASE AskPage
  <2>1. /\ page' = page + 1 /\ pending = {} /\ ~ ended /\ ~ ended'
        /\ pending' = {"items", "count", "answer"}
        /\ throughout' = IF page = 0 THEN shown ELSE throughout
        /\ UNCHANGED <<list, order, born, stamp, shown, cursor, answer, total, returned, entered, left>>
    BY <1>4 DEF AskPage
  <2>2. \A r : Given(r)' = Given(r)
    BY <2>1, GivenStays DEF OnItsWay
  <2>3. Skipped' = Skipped
    <3>1. (page + 1) - 1 = page
      BY <1>t
    <3> QED
      BY <2>1, <3>1 DEF Skipped
  <2>4. CASE page = 0
    <3>1. \A r \in 1..born' : Given(r)' = 0
      <4>1. \A r \in 1..born' : r \in Ids
        BY ListingAssumption DEF ListTypes, Ids
      <4>2. \A r \in Ids : returned[r] = 0
        BY <2>4 DEF Paging
      <4> QED
        BY <2>1, <2>2, <4>1, <4>2 DEF Given, OnItsWay
    <3>2. Skipped' = 0
      BY <2>1, <2>3, <2>4, Pages DEF Skipped
    <3>3. Missed' = {} /\ Again' = {}
      BY <3>1, <3>2, NothingShown
    <3> QED
      BY <1>t, <1>e, <2>1, <3>3 DEF OffsetTracked
  <2>5. CASE page # 0
    <3>1. Placed' = Placed /\ \A r : Rank(r)' = Rank(r)
      BY <2>1 DEF Placed, Rank, Ahead, Before, KeyOf
    <3>2. Missed' = Missed /\ Again' = Again
      BY <2>1, <2>2, <2>3, <2>5, <3>1 DEF Missed, Again
    <3> QED
      BY <1>0, <2>1, <3>2 DEF OffsetTracked
  <2> QED
    BY <2>4, <2>5
<1>5. CASE FindManyOffset
  <2>1. Missed' \subseteq Missed /\ Again' \subseteq Again
    BY <1>5, PageStep
  <2>2. "count" \in pending' <=> "count" \in pending
    BY <1>5 DEF FindManyOffset
  <2>3. ~ ended /\ ~ ended' /\ page' = page /\ UNCHANGED <<shown, total, entered, left>>
    BY <1>0, <1>5 DEF FindManyOffset
  <2> QED
    BY <1>0, <1>m, <1>a, <2>1, <2>2, <2>3 DEF OffsetTracked
<1>6. CASE Count \/ AnswerPage
  <2>1. UNCHANGED <<list, order, born, stamp, shown, page, throughout, entered, left>>
    BY <1>6 DEF Count, AnswerPage
  <2>2. "items" \in pending' <=> "items" \in pending
    BY <1>6 DEF Count, AnswerPage
  <2>3. \A r \in 1..born : Given(r)' = Given(r)
    <3>1. CASE Count
      <4>1. OnItsWay' = OnItsWay
        BY <3>1 DEF Count, OnItsWay
      <4> QED
        BY <3>1, <4>1, GivenStays DEF Count
    <3>2. CASE AnswerPage
      BY <3>2, TakenIsGiven
    <3> QED
      BY <1>6, <3>1, <3>2
  <2>4. Placed' = Placed /\ Skipped' = Skipped /\ \A r : Rank(r)' = Rank(r)
    BY <2>1, <2>2 DEF Placed, Skipped, Rank, Ahead, Before, KeyOf
  <2>5. \A r \in Placed : Given(r)' = Given(r)
    BY <2>3, ListedRows
  <2>6. Missed' = Missed /\ Again' = Again
    BY <2>1, <2>4, <2>5 DEF Missed, Again
  <2>7. page' > 0 /\ "count" \notin pending' => Cardinality(shown) <= total' + entered
    BY <1>0, <1>6, <1>t, <2>1 DEF Count, AnswerPage
  <2>8. ended' => pending' = {} /\ page' > 0 /\ page' * PageSize >= total'
    <3>1. CASE Count
      BY <1>0, <3>1 DEF Count
    <3>2. CASE AnswerPage
      BY <3>2, TakenIsGiven DEF AnswerPage
    <3> QED
      BY <1>6, <3>1, <3>2
  <2> QED
    BY <1>0, <2>1, <2>6, <2>7, <2>8 DEF OffsetTracked
<1>7. CASE FindManyCursor
  BY <1>7 DEF FindManyCursor
<1>8. CASE UNCHANGED listVars
  <2>1. UNCHANGED <<list, order, born, stamp, shown, page, cursor, pending, answer, total, ended,
                    returned, throughout, entered, left>>
    BY <1>8 DEF listVars
  <2>2. (\A r : Given(r)' = Given(r)) /\ Placed' = Placed /\ Skipped' = Skipped /\ \A r : Rank(r)' = Rank(r)
    BY <2>1, GivenStays DEF OnItsWay, Placed, Skipped, Rank, Ahead, Before, KeyOf
  <2>3. Missed' = Missed /\ Again' = Again
    BY <2>1, <2>2 DEF Missed, Again
  <2> QED
    BY <1>0, <2>1, <2>3 DEF OffsetTracked
<1> QED
  BY <1>1, <1>2, <1>3, <1>4, <1>5, <1>6, <1>7, <1>8 DEF ListingNext

-----------------------------------------------------------------------------
(* The walks *)

\* The account of the walks holds in every state.
LEMMA ListInvariant == ListingSpec => []ListInv
<1>1. ListInv /\ [ListingNext]_listVars => ListInv'
  BY ListTypesStep, PagingStep, CursorStep, OffsetStep DEF ListInv
<1> QED
  BY <1>1, ListInitOK, PTL DEF ListingSpec

\* A walk along cursors in a stated order shows every row that was there throughout
\* once, and none twice, whatever enters or leaves the list meanwhile.
THEOREM CursorWalksExact == ListingSpec => []CursorWalkExact
<1>1. ListInv => CursorWalkExact
  <2> SUFFICES ASSUME ListInv, ended, list.paging = "cursor"
               PROVE  /\ \A r \in Placed : returned[r] <= 1
                      /\ \A r \in Placed \cap throughout : returned[r] = 1
    BY DEF CursorWalkExact
  <2> SUFFICES ASSUME order # NoOrder
               PROVE  /\ \A r \in Placed : returned[r] <= 1
                      /\ \A r \in Placed \cap throughout : returned[r] = 1
    BY DEF Placed
  <2>1. ListTypes /\ CursorTracked
    BY DEF ListInv
  <2>2. /\ \A r \in 1..born : Given(r) <= 1
        /\ pending = {} /\ page > 0 /\ cursor = 0
        /\ \A r \in throughout : Given(r) = 1
    BY <2>1 DEF CursorTracked
  <2>3. \A r \in 1..born : Given(r) = returned[r]
    BY <2>1, <2>2, GivenNumber DEF Given, OnItsWay
  <2>4. Placed \subseteq 1..born
    BY DEF Placed
  <2> QED
    BY <2>2, <2>3, <2>4
<1> QED
  BY <1>1, ListInvariant, PTL

\* A walk along offsets misses no more rows than entered or left while it went on,
\* and shows no more rows twice than entered.
THEOREM OffsetWalksBounded == ListingSpec => []OffsetWalkBounded
<1>1. ListInv => OffsetWalkBounded
  <2> SUFFICES ASSUME ListInv, ended, list.paging = "offset"
               PROVE  /\ Cardinality({r \in Placed \cap throughout : returned[r] = 0}) <= entered + left
                      /\ Cardinality({r \in Placed : returned[r] > 1}) <= entered
    BY DEF OffsetWalkBounded
  <2>1. ListTypes /\ OffsetTracked
    BY DEF ListInv
  <2>2. /\ pending = {} /\ page > 0 /\ page * PageSize >= total
        /\ Cardinality(shown) <= total + entered
        /\ Cardinality(Missed) <= left /\ Cardinality(Again) <= entered
    BY <2>1 DEF OffsetTracked
  <2>3. /\ left \in Nat /\ entered \in Nat /\ total \in Nat /\ Cardinality(shown) \in Nat
        /\ Placed \subseteq 1..born /\ throughout \subseteq shown
        /\ IsFiniteSet(Missed) /\ Cardinality(Missed) \in Nat
        /\ IsFiniteSet(Again) /\ Cardinality(Again) \in Nat
    BY <2>1, ListedRows, RowsFinite DEF ListTypes
  <2>4. \A r \in Placed : Given(r) = returned[r]
    BY <2>1, <2>2, <2>3, GivenNumber DEF Given, OnItsWay
  <2>5. Cardinality({r \in Placed : returned[r] > 1}) <= entered
    <3>1. {r \in Placed : returned[r] > 1} \subseteq Again
      BY <2>4 DEF Again
    <3> QED
      BY <2>2, <2>3, <3>1, FS_Subset, FS_CardinalityType
  <2> DEFINE T == {r \in Placed \cap throughout : returned[r] = 0 /\ ~ (Rank(r) < Skipped)}
             M == {r \in Placed \cap throughout : returned[r] = 0}
  <2>6. M = Missed \cup T
    BY <2>4 DEF Missed
  <2>7. Skipped = page * PageSize /\ Skipped \in Nat
    BY <2>1, <2>2, Pages DEF Skipped
  <2>8. /\ \A r \in T : Rank(r) \in Nat /\ Skipped <= Rank(r) /\ Rank(r) < Cardinality(shown)
        /\ \A r, q \in T : Rank(r) = Rank(q) => r = q
    BY <2>1, <2>3, <2>7, RankNumber, RankInside, RankTells
  <2>9. IsFiniteSet(T) /\ Cardinality(T) \in Nat /\ Cardinality(T) <= entered
    <3>1. CASE Skipped <= Cardinality(shown)
      <4> DEFINE f == [r \in T |-> Rank(r)]
      <4> HIDE DEF T
      <4>1. /\ \A r \in T : f[r] \in Nat /\ Skipped <= f[r] /\ f[r] < Cardinality(shown)
            /\ \A r, q \in T : f[r] = f[q] => r = q
        BY <2>8
      <4> HIDE DEF f
      <4>2. IsFiniteSet(T) /\ Cardinality(T) <= Cardinality(shown) - Skipped
        BY <2>3, <2>7, <3>1, <4>1, NoMoreThan
      <4>3. Cardinality(T) \in Nat
        BY <4>2, FS_CardinalityType
      <4> QED
        BY <2>2, <2>3, <2>7, <4>2, <4>3
    <3>2. CASE ~ (Skipped <= Cardinality(shown))
      <4>1. T = {}
        <5> HIDE DEF T
        <5> QED
          BY <2>3, <2>7, <2>8, <3>2
      <4> HIDE DEF T
      <4> QED
        BY <2>3, <4>1, FS_EmptySet
    <3> QED
      BY <3>1, <3>2
  <2>10. Cardinality(M) <= entered + left
    <3> HIDE DEF M, T
    <3>1. IsFiniteSet(Missed \cap T) /\ Cardinality(Missed \cap T) \in Nat
      BY <2>3, FS_Subset, FS_CardinalityType
    <3>2. Cardinality(M) = Cardinality(Missed) + Cardinality(T) - Cardinality(Missed \cap T)
      BY <2>3, <2>6, <2>9, FS_Union
    <3> QED
      BY <2>2, <2>3, <2>9, <3>1, <3>2
  <2> QED
    BY <2>5, <2>10
<1> QED
  BY <1>1, ListInvariant, PTL

=============================================================================
