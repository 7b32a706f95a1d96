----------------------------- MODULE RateLimits ------------------------------
(***************************************************************************)
(* The rate limits: CustomThrottlerStorage behind CustomThrottlerGuard,    *)
(* and checkRateLimit of AuthService.  Both count with INCR and set the    *)
(* expiry with a second command when the count is one; a request hits its  *)
(* counters one after the other and goes no further than the first that    *)
(* blocks it.                                                              *)
(***************************************************************************)
EXTENDS Calls, Sequences

CONSTANTS
    Ips, Mails, Users,
    Requests,  \* the requests that are sent, as the counters they hit
    Limit,     \* per kind of counter, the hits let through
    Period,    \* per kind of counter, the time to live
    MaxFaults  \* bound: commands that reject, processes that die

Kinds == {"throttleResetIp", "resetIp", "resetMail", "throttleMeIp", "throttleMeUser"}
Counters ==
    ({"throttleResetIp", "resetIp", "throttleMeIp"} \X Ips) \cup
    ({"resetMail"} \X Mails) \cup ({"throttleMeUser"} \X Users)

\* POST auth/password-reset/request: the guard, then both checks of the service.
\* The guard counts with a throttler per address and one per user; a throttler
\* left at its default of 10000 hits a minute is of the same kind and not driven.
RequestPasswordReset(ip, mail) ==
    <<<<"throttleResetIp", ip>>, <<"resetIp", ip>>, <<"resetMail", mail>>>>

\* GET users/me: the guard runs once per throttler.
GetMe(ip, user) == <<<<"throttleMeIp", ip>>, <<"throttleMeUser", user>>>>

Paths ==
    {RequestPasswordReset(ip, mail) : ip \in Ips, mail \in Mails} \cup
    {GetMe(ip, user) : ip \in Ips, user \in Users}

ASSUME RateLimitsAssumption ==
    /\ Requests \subseteq Paths
    /\ Limit \in [Kinds -> Nat \ {0}]
    /\ Period \in [Kinds -> Nat \ {0}]
    /\ MaxFaults \in Nat

LimitOf(c) == Limit[c[1]]
PeriodOf(c) == Period[c[1]]

VARIABLES
    hits,      \* per counter, its value; 0 when the key is absent, LimitOf(c) + 1 for all above
    ttl,       \* per counter, its remaining time to live, or NoExpiry
    call,      \* per call, the request, how many of its counters it has passed, and its await
    faults,
    admitted,  \* per counter, the hits let through since the key came to be
    age,       \* per counter, the time since then, up to its period
    cut        \* counters a fault has left without expiry

limitVars == <<hits, ttl, call, faults, admitted, age, cut>>

NoExpiry == -1

LimitsInit ==
    /\ hits = [c \in Counters |-> 0]
    /\ ttl = [c \in Counters |-> NoExpiry]
    /\ call = [q \in Calls |-> Idle]
    /\ faults = 0
    /\ admitted = [c \in Counters |-> 0]
    /\ age = [c \in Counters |-> 0]
    /\ cut = {}

CounterOf(q) == call[q].path[call[q].passed + 1]

-----------------------------------------------------------------------------
Receive(q) ==
    /\ call[q] = Idle
    /\ \E path \in Requests : call' = [call EXCEPT ![q] = [op |-> "incr", path |-> path, passed |-> 0]]
    /\ UNCHANGED <<hits, ttl, faults, admitted, age, cut>>

\* The counter lets the request through: to the next counter, or to its handler.
Passed(q) ==
    IF call[q].passed + 1 < Len(call[q].path)
      THEN [call[q] EXCEPT !.op = "incr", !.passed = @ + 1]
      ELSE Idle

\* Mutant: the limit is one hit too high.
BlockedLate(c, count) == count > LimitOf(c) + 1

Blocked(c, count) == count > LimitOf(c)

\* Mutant: every hit sets the expiry anew.
AfterIncrRenews(q, count) ==
    [call[q] EXCEPT !.op = "expire"]

\* Mutant: the expiry is set by the hit that reaches the limit.
AfterIncrAtLimit(q, count) ==
    IF count = LimitOf(CounterOf(q)) THEN [call[q] EXCEPT !.op = "expire"]
    ELSE IF Blocked(CounterOf(q), count) THEN Idle
    ELSE Passed(q)

\* What follows the count: a first hit sets the expiry, a hit beyond the limit is
\* answered RATE_LIMIT_EXCEEDED.
AfterIncr(q, count) ==
    IF count = 1 THEN [call[q] EXCEPT !.op = "expire"]
    ELSE IF Blocked(CounterOf(q), count) THEN Idle
    ELSE Passed(q)

\* The count is the one INCR returns, so the decision falls with it.  A hit let
\* through counts as admitted even when a later command of its request fails.
Incr(q) ==
    LET c == CounterOf(q)
        count == hits[c] + 1
    IN
    /\ call[q].op = "incr"
    /\ hits' = [hits EXCEPT ![c] = IF @ > LimitOf(c) THEN @ ELSE count]
    /\ admitted' = [admitted EXCEPT ![c] = IF Blocked(c, count) THEN @ ELSE @ + 1]
    /\ call' = [call EXCEPT ![q] = AfterIncr(q, count)]
    /\ UNCHANGED <<ttl, faults, age, cut>>

\* pexpire, expire; without a key they do nothing.
Expire(q) ==
    LET c == CounterOf(q) IN
    /\ call[q].op = "expire"
    /\ ttl' = [ttl EXCEPT ![c] = IF hits[c] = 0 THEN @ ELSE PeriodOf(c)]
    /\ call' = [call EXCEPT ![q] = Passed(q)]
    /\ UNCHANGED <<hits, faults, admitted, age, cut>>

\* A command rejects, or the process dies: the request is over.
CommandFails(q) ==
    /\ call[q] # Idle
    /\ faults < MaxFaults
    /\ faults' = faults + 1
    /\ call' = [call EXCEPT ![q] = Idle]
    /\ cut' = IF call[q].op = "expire" THEN cut \cup {CounterOf(q)} ELSE cut
    /\ UNCHANGED <<hits, ttl, admitted, age>>

\* Redis drops a key whose time to live has run out.
Expired == {c \in Counters : ttl[c] = 1}

Tick ==
    /\ hits' = [c \in Counters |-> IF c \in Expired THEN 0 ELSE hits[c]]
    /\ ttl' = [c \in Counters |->
                 IF c \in Expired \/ ttl[c] = NoExpiry THEN NoExpiry ELSE ttl[c] - 1]
    /\ admitted' = [c \in Counters |-> IF c \in Expired THEN 0 ELSE admitted[c]]
    /\ age' = [c \in Counters |->
                 IF c \in Expired \/ hits[c] = 0 THEN 0
                 ELSE IF age[c] < PeriodOf(c) THEN age[c] + 1
                 ELSE age[c]]
    /\ UNCHANGED <<call, faults, cut>>

LimitsNext ==
    \/ Tick
    \/ \E q \in Calls : Receive(q) \/ Incr(q) \/ Expire(q) \/ CommandFails(q)

\* Time passes, and a command that was sent is settled.
LimitsFairness ==
    /\ WF_limitVars(Tick)
    /\ \A q \in Calls : WF_limitVars(Expire(q))

LimitsSpec == LimitsInit /\ [][LimitsNext]_limitVars /\ LimitsFairness

-----------------------------------------------------------------------------
(* Properties *)

Windows == INSTANCE FixedWindows WITH
    Limit <- [c \in Counters |-> LimitOf(c)],
    Period <- [c \in Counters |-> PeriodOf(c)]

\* Every counter admits at most its limit in a window, and no window is shorter
\* than the time to live, however late the expiry is set and whatever is cut off.
CountersAreWindows == Windows!Spec

\* A counter that nothing will ever reset was left so by a fault between its two
\* commands, one counter per fault.
StuckOnlyByFault ==
    /\ \A c \in Counters :
         hits[c] > 0 /\ ttl[c] = NoExpiry =>
           c \in cut \/ \E q \in Calls : call[q].op = "expire" /\ CounterOf(q) = c
    /\ Cardinality(cut) <= faults

\* Whoever is blocked is let through again, unless a fault cut the expiry off.
BlockEnds ==
    \A c \in Counters : (hits[c] > LimitOf(c)) ~> (hits[c] = 0 \/ c \in cut)

=============================================================================
