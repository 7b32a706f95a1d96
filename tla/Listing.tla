------------------------------- MODULE Listing -------------------------------
(***************************************************************************)
(* The paged lists of both applications, over a table that changes while a *)
(* client walks through the pages.  An offset page counts rows from the    *)
(* start, in a query of its own beside the query for the total; a cursor   *)
(* page starts after the last id of the previous one.  Rows of equal key   *)
(* come in any order, and in a different one in the next query.            *)
(***************************************************************************)
EXTENDS Integers, FiniteSetsExt, SequencesExt

CONSTANTS
    MaxRows,    \* bound: rows inserted
    PageSize,
    MaxChanges  \* bound: rows that enter or leave the list during a walk

ASSUME ListingAssumption ==
    /\ MaxRows \in Nat
    /\ PageSize \in Nat \ {0}
    /\ MaxChanges \in Nat

Ids == 1..MaxRows

-----------------------------------------------------------------------------
(* The lists: how they page, what they are sorted by, the order when the   *)
(* request names none, whether a request may name one, and whether rows    *)
(* leave the list (logs are never edited nor deleted)                      *)

List(paging, key, default, given, leaves) ==
    [paging |-> paging, key |-> key, default |-> default, given |-> given, leaves |-> leaves]

Orders == {"asc", "desc"}
NoOrder == "no order"  \* orderBy with undefined: the database chooses

PostsOffset == List("offset", "id", NoOrder, Orders, TRUE)
PostsCursor == List("cursor", "id", NoOrder, Orders, TRUE)
AdminPosts == List("offset", "id", "desc", Orders, TRUE)
AdminUsers == List("offset", "id", "desc", Orders, TRUE)
AdminNotifications == List("offset", "id", "desc", Orders, TRUE)
NotificationsCursor == List("cursor", "id", "desc", Orders, TRUE)
UserEndpoints == List("offset", "id", "desc", Orders, TRUE)
AdminEndpoints == List("offset", "id", "desc", Orders, TRUE)
EndpointLogs == List("offset", "createdAt", "desc", {}, FALSE)
AdminLogs == List("offset", "createdAt", "desc", {}, FALSE)
ChannelLogs == List("offset", "createdAt", "desc", {}, FALSE)
AdminChannelLogs == List("offset", "createdAt", "desc", {}, FALSE)
AdminChannels == List("offset", "createdAt", "desc", {}, TRUE)

Lists ==
    {PostsOffset, PostsCursor, AdminPosts, AdminUsers, AdminNotifications,
     NotificationsCursor, UserEndpoints, AdminEndpoints, EndpointLogs, AdminLogs,
     ChannelLogs, AdminChannelLogs, AdminChannels}

-----------------------------------------------------------------------------
VARIABLES
    list,        \* the list that is walked
    order,       \* the order that takes effect
    born,        \* rows inserted so far, numbered by id
    stamp,       \* column createdAt, where it sorts; rows of one instant have the same
    shown,       \* rows that match the request
    page,        \* pages asked for so far; 0 before the walk
    cursor,      \* the last nextCursor, 0 for none
    pending,     \* what the page still waits for: its queries, its answer
    answer,      \* the rows of the page
    total,       \* the count beside them
    ended,
    returned,    \* per row, the pages that have shown it
    throughout,  \* rows shown at every moment of the walk
    entered,     \* rows that entered the list during the walk
    left         \* rows that left it

listVars == <<list, order, born, stamp, shown, page, cursor, pending, answer,
              total, ended, returned, throughout, entered, left>>
table == <<list, order, born, stamp, shown>>
history == <<throughout, entered, left>>

Walking == page > 0 /\ ~ended
KeyOf(r) == IF list.key = "id" THEN r ELSE stamp[r]

ListingInit ==
    /\ list \in Lists
    /\ order \in list.given \cup {list.default}
    /\ born = 0
    /\ stamp = [r \in Ids |-> 0]
    /\ shown = {}
    /\ page = 0
    /\ cursor = 0
    /\ pending = {}
    /\ answer = <<>>
    /\ total = 0
    /\ ended = FALSE
    /\ returned = [r \in Ids |-> 0]
    /\ throughout = {}
    /\ entered = 0
    /\ left = 0

-----------------------------------------------------------------------------
(* The table *)

\* Rows come before the walk and during it; an edit lets others in, and an edit or
\* a deletion takes them out.  What happened before the walk makes no difference.
Changes == Walking /\ entered + left < MaxChanges

InsertRow ==
    LET r == born + 1 IN
    /\ page = 0 \/ Changes
    /\ r \in Ids
    /\ born' = r
    /\ \E later \in IF born = 0 \/ list.key = "id" THEN {1} ELSE {0, 1} :
         stamp' = [stamp EXCEPT ![r] = later + IF born = 0 THEN 0 ELSE stamp[born]]
    /\ \/ /\ shown' = shown \cup {r}
          /\ entered' = IF Walking THEN entered + 1 ELSE entered
       \/ /\ list.leaves
          /\ ~ Walking
          /\ UNCHANGED <<shown, entered>>
    /\ UNCHANGED <<list, order, page, cursor, pending, answer, total, ended, returned, throughout, left>>

EditIn ==
    /\ list.leaves
    /\ Changes
    /\ \E r \in 1..born \ shown : shown' = shown \cup {r}
    /\ entered' = entered + 1
    /\ UNCHANGED <<list, order, born, stamp, page, cursor, pending, answer, total, ended, returned, throughout, left>>

RowLeaves ==
    /\ list.leaves
    /\ Changes
    /\ \E r \in shown :
         /\ shown' = shown \ {r}
         /\ throughout' = throughout \ {r}
    /\ left' = left + 1
    /\ UNCHANGED <<list, order, born, stamp, page, cursor, pending, answer, total, ended, returned, entered>>

-----------------------------------------------------------------------------
(* The queries of one page *)

Before(r, s) ==
    CASE order = "asc"  -> KeyOf(r) < KeyOf(s)
      [] order = "desc" -> KeyOf(r) > KeyOf(s)
      [] OTHER          -> FALSE

\* The rows of S in an order the query may return them in.
Sorted(S) ==
    {s \in SetToSeqs(S) : \A i, j \in DOMAIN s : i < j => ~ Before(s[j], s[i])}

Slice(s, first, last) == SubSeq(s, first, Min({last, Len(s)}))

\* The first page of a walk, or the next one.
AskPage ==
    /\ ~ended
    /\ pending = {}
    /\ page' = page + 1
    /\ pending' = IF list.paging = "offset" THEN {"items", "count", "answer"} ELSE {"items", "answer"}
    /\ throughout' = IF page = 0 THEN shown ELSE throughout
    /\ UNCHANGED <<table, cursor, answer, total, ended, returned, entered, left>>

\* Mutant: the rows are skipped by the page, not by the one before it.
FindManyFromPage ==
    /\ list.paging = "offset"
    /\ "items" \in pending
    /\ pending' = pending \ {"items"}
    /\ \E s \in Sorted(shown) :
         answer' = Slice(s, page * PageSize + 1, (page + 1) * PageSize)
    /\ UNCHANGED <<table, page, cursor, total, ended, returned, history>>

\* skip (page - 1) * size, take size.
FindManyOffset ==
    /\ list.paging = "offset"
    /\ "items" \in pending
    /\ pending' = pending \ {"items"}
    /\ \E s \in Sorted(shown) :
         answer' = Slice(s, (page - 1) * PageSize + 1, page * PageSize)
    /\ UNCHANGED <<table, page, cursor, total, ended, returned, history>>

Count ==
    /\ "count" \in pending
    /\ pending' = pending \ {"count"}
    /\ total' = Cardinality(shown)
    /\ UNCHANGED <<table, page, cursor, answer, ended, returned, history>>

\* Mutant: the cursor belongs to the next page as well.
FromCursor(r) == cursor = 0 \/ IF order = "asc" THEN r >= cursor ELSE r <= cursor

\* Any order but asc takes the rows below the cursor.
AfterCursor(r) == cursor = 0 \/ IF order = "asc" THEN r > cursor ELSE r < cursor

\* take size + 1: one row more says that there is a next page.
FindManyCursor ==
    /\ list.paging = "cursor"
    /\ "items" \in pending
    /\ pending' = pending \ {"items"}
    /\ \E s \in Sorted({r \in shown : AfterCursor(r)}) :
         /\ answer' = Slice(s, 1, PageSize)
         /\ cursor' = IF Len(s) > PageSize THEN s[PageSize] ELSE 0
    /\ UNCHANGED <<table, page, total, ended, returned, history>>

\* The client takes the page and asks for the next while meta promises one.
AnswerPage ==
    /\ pending = {"answer"}
    /\ pending' = {}
    /\ returned' = [r \in Ids |-> returned[r] + Cardinality({i \in DOMAIN answer : answer[i] = r})]
    /\ ended' = IF list.paging = "offset" THEN page * PageSize >= total ELSE cursor = 0
    /\ UNCHANGED <<table, page, cursor, answer, total, history>>

ListingNext ==
    \/ InsertRow \/ EditIn \/ RowLeaves
    \/ AskPage \/ FindManyOffset \/ Count \/ FindManyCursor \/ AnswerPage

ListingSpec == ListingInit /\ [][ListingNext]_listVars

-----------------------------------------------------------------------------
(* Properties *)

\* Rows whose place in the order is theirs alone; no row, where there is no order.
Placed ==
    {r \in 1..born : order # NoOrder /\ \A s \in 1..born : KeyOf(s) = KeyOf(r) => s = r}

\* A walk along cursors in a stated order is exact whatever changes beside it:
\* no row is shown twice, and every row that matched all the time is shown.
CursorWalkExact ==
    ended /\ list.paging = "cursor" =>
      /\ \A r \in Placed : returned[r] <= 1
      /\ \A r \in Placed \cap throughout : returned[r] = 1

\* A walk along offsets is only as good as the table is still: it misses at most
\* one row per row that entered or left, it repeats at most one per row that
\* entered, and it is exact when nothing changed; rows of one instant excepted.
OffsetWalkBounded ==
    ended /\ list.paging = "offset" =>
      /\ Cardinality({r \in Placed \cap throughout : returned[r] = 0}) <= entered + left
      /\ Cardinality({r \in Placed : returned[r] > 1}) <= entered

=============================================================================
