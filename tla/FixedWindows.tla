---------------------------- MODULE FixedWindows -----------------------------
(***************************************************************************)
(* What the rate limits promise, for counters independent of each other:   *)
(* requests are admitted in windows, at most Limit of them in one window,  *)
(* and a window that has admitted a request lasts for at least Period.     *)
(* RateLimits is shown to implement this specification.                    *)
(***************************************************************************)
EXTENDS Integers

CONSTANTS
    Counters,
    Limit,   \* per counter
    Period   \* per counter

VARIABLES
    admitted,  \* per counter, requests admitted in its window
    age        \* per counter, the time since its window began, up to its period

vars == <<admitted, age>>

Init ==
    /\ admitted = [c \in Counters |-> 0]
    /\ age = [c \in Counters |-> 0]

Admit(c) ==
    /\ admitted[c] < Limit[c]
    /\ admitted'[c] = admitted[c] + 1
    /\ age'[c] = age[c]

Age(c) ==
    /\ age[c] < Period[c]
    /\ age'[c] = age[c] + 1
    /\ admitted'[c] = admitted[c]

\* The window ends, at the end of its period or later.
Close(c) ==
    /\ age[c] + 1 >= Period[c]
    /\ admitted'[c] = 0
    /\ age'[c] = 0

Keep(c) ==
    /\ admitted'[c] = admitted[c]
    /\ age'[c] = age[c]

Next ==
    /\ DOMAIN admitted' = Counters
    /\ DOMAIN age' = Counters
    /\ \A c \in Counters : Admit(c) \/ Age(c) \/ Close(c) \/ Keep(c)

Spec == Init /\ [][Next]_vars

=============================================================================
