-------------------------------- MODULE Posts --------------------------------
(***************************************************************************)
(* The posts of one user: PostService of the user application and          *)
(* AdminPostService.  A handler finds the live row and writes it by its id *)
(* alone in a later query.  Title, content and status are not told apart:  *)
(* an edit is a write.                                                     *)
(***************************************************************************)
EXTENDS Calls

CONSTANTS
    Posts,
    MaxViews  \* bound: view counters stop here

ASSUME PostsAssumption == MaxViews \in Nat

VARIABLES
    postLive,  \* posts with isDeleted = false
    postGone,  \* posts with isDeleted = true
    views,     \* column viewCount
    postCall,  \* per call, what it does and the row it has found
    postLate,  \* per post, the writes that reached it after its deletion
    told       \* per post and number, the answers of getPost that reported it

postVars == <<postLive, postGone, views, postCall, postLate, told>>

PostOps == {"getPost", "updatePost", "deletePost", "updatePostStatus", "adminDeletePost"}
PostCalls == {Idle} \cup [op : PostOps, post : Posts, seen : 0..MaxViews]

PostsInit ==
    /\ postLive = {}
    /\ postGone = {}
    /\ views = [p \in Posts |-> 0]
    /\ postCall = [q \in Calls |-> Idle]
    /\ postLate = [p \in Posts |-> 0]
    /\ told = [p \in Posts |-> [n \in 1..MaxViews |-> 0]]

-----------------------------------------------------------------------------
SavePost ==
    /\ \E p \in Posts \ (postLive \cup postGone) : postLive' = postLive \cup {p}
    /\ UNCHANGED <<postGone, views, postCall, postLate, told>>

FoundPost(q, op, p) ==
    /\ postCall[q] = Idle
    /\ postCall' = [postCall EXCEPT ![q] = [op |-> op, post |-> p, seen |-> views[p]]]
    /\ UNCHANGED <<postLive, postGone, views, postLate, told>>

\* Mutant: an edit finds deleted posts too.
FindOwnPostDeletedToo(q) ==
    \E p \in postLive \cup postGone, op \in {"getPost", "updatePost", "deletePost"} : FoundPost(q, op, p)

\* findByIdAndUserId; without a row the answer is NOT_FOUND and nothing changes.
FindOwnPost(q) ==
    \E p \in postLive, op \in {"getPost", "updatePost", "deletePost"} : FoundPost(q, op, p)

FindAnyPost(q) ==
    \E p \in postLive, op \in {"updatePostStatus", "adminDeletePost"} : FoundPost(q, op, p)

\* A write by id: what it does to a row that was deleted meanwhile is late.
WritePost(q, ops) ==
    /\ postCall[q].op \in ops
    /\ postCall' = [postCall EXCEPT ![q] = Idle]
    /\ postLate' = IF postCall[q].post \in postGone
                     THEN [postLate EXCEPT ![postCall[q].post] = @ + 1]
                     ELSE postLate

\* Mutant: the number found, plus one, is what is stored.
StoreViewCount(q) ==
    LET c == postCall[q] IN
    /\ WritePost(q, {"getPost"})
    /\ views[c.post] < MaxViews
    /\ views' = [views EXCEPT ![c.post] = c.seen + 1]
    /\ told' = [told EXCEPT ![c.post][c.seen + 1] = @ + 1]
    /\ UNCHANGED <<postLive, postGone>>

\* The increment is one statement; the answer is the number found, plus one.
IncrementViewCount(q) ==
    LET c == postCall[q] IN
    /\ WritePost(q, {"getPost"})
    /\ views[c.post] < MaxViews
    /\ views' = [views EXCEPT ![c.post] = @ + 1]
    /\ told' = [told EXCEPT ![c.post][c.seen + 1] = @ + 1]
    /\ UNCHANGED <<postLive, postGone>>

UpdatePost(q) ==
    /\ WritePost(q, {"updatePost", "updatePostStatus"})
    /\ UNCHANGED <<postLive, postGone, views, told>>

SoftDeletePost(q) ==
    /\ WritePost(q, {"deletePost", "adminDeletePost"})
    /\ postLive' = postLive \ {postCall[q].post}
    /\ postGone' = postGone \cup {postCall[q].post}
    /\ UNCHANGED <<views, told>>

\* The write rejects, or the process dies before it.
AbandonPost(q) ==
    /\ postCall[q] # Idle
    /\ postCall' = [postCall EXCEPT ![q] = Idle]
    /\ UNCHANGED <<postLive, postGone, views, postLate, told>>

PostsNext ==
    \/ SavePost
    \/ \E q \in Calls :
         \/ FindOwnPost(q) \/ FindAnyPost(q)
         \/ IncrementViewCount(q) \/ UpdatePost(q) \/ SoftDeletePost(q)
         \/ AbandonPost(q)

PostsSpec == PostsInit /\ [][PostsNext]_postVars

-----------------------------------------------------------------------------
(* Properties *)

PostRows == INSTANCE SoftDeleted WITH
    Rows <- Posts, MaxLate <- Others,
    live <- postLive, gone <- postGone, late <- postLate

\* The posts are soft-deleted rows: none comes back, and a deleted one is written
\* only by the calls that had found it before the deletion.
PostsAreSoftDeleted == PostRows!Spec

\* No view is lost: no reader was told a number the counter has not reached, and
\* the same number was told at most as often as there are calls at a time.
ViewsCounted ==
    \A p \in Posts, n \in 1..MaxViews :
      /\ told[p][n] > 0 => n <= views[p]
      /\ told[p][n] <= Cardinality(Calls)

=============================================================================
