----------------------------- MODULE SoftDeleted -----------------------------
(***************************************************************************)
(* What the repositories promise of a table whose rows are deleted with    *)
(* isDeleted = true: a row is added once, removed once and never comes     *)
(* back, and once it is removed only the calls that found it before may    *)
(* still write to it.  Posts, Accounts, Notifications and ChannelRegistry  *)
(* are shown to implement this specification.                              *)
(***************************************************************************)
EXTENDS Integers

CONSTANTS
    Rows,
    MaxLate  \* writes that may still reach a removed row

VARIABLES
    live,  \* rows with isDeleted = false
    gone,  \* rows with isDeleted = true
    late   \* per row, the writes that reached it after its removal

vars == <<live, gone, late>>

Init ==
    /\ live = {}
    /\ gone = {}
    /\ late = [r \in Rows |-> 0]

Add(r) ==
    /\ r \notin live \cup gone
    /\ live' = live \cup {r}
    /\ UNCHANGED <<gone, late>>

Remove(r) ==
    /\ r \in live
    /\ live' = live \ {r}
    /\ gone' = gone \cup {r}
    /\ UNCHANGED late

WriteLate(r) ==
    /\ r \in gone
    /\ late[r] < MaxLate
    /\ late' = [late EXCEPT ![r] = @ + 1]
    /\ UNCHANGED <<live, gone>>

Next == \E r \in Rows : Add(r) \/ Remove(r) \/ WriteLate(r)

Spec == Init /\ [][Next]_vars

=============================================================================
