---------------------------- MODULE AccessProofs ----------------------------
(***************************************************************************)
(* How often a caller is let through, and what for.                        *)
(*                                                                         *)
(* The rate limits are fixed windows, and a counter without expiry is the  *)
(* work of a fault: for every set of requests, every limit and period, and *)
(* every number of calls and faults.                                       *)
(*                                                                         *)
(* The seed scripts end up with the rows of their tables however often     *)
(* they are killed, and the permission guard never lets an account do more *)
(* than its role: for every number of runs and of lost ids.                *)
(***************************************************************************)
EXTENDS RateLimits, Seeding, FiniteSetTheorems, TLAPS

-----------------------------------------------------------------------------
(* The counters *)

\* Every kind of counter has a limit and a time to live.
LEMMA CounterTyped ==
    ASSUME NEW c \in Counters
    PROVE  /\ LimitOf(c) \in Nat /\ LimitOf(c) >= 1
           /\ PeriodOf(c) \in Nat /\ PeriodOf(c) >= 1
<1>1. c[1] \in Kinds
  BY DEF Counters, Kinds
<1> QED
  BY <1>1, RateLimitsAssumption DEF LimitOf, PeriodOf

\* A request hits counters and nothing else.
LEMMA PathsHitCounters == \A path \in Requests : path \in Seq(Counters)
<1>1. ASSUME NEW ip \in Ips, NEW mail \in Mails
      PROVE  RequestPasswordReset(ip, mail) \in Seq(Counters)
  <2>1. /\ <<"throttleResetIp", ip>> \in Counters
        /\ <<"resetIp", ip>> \in Counters
        /\ <<"resetMail", mail>> \in Counters
    BY Zenon DEF Counters
  <2> QED
    BY <2>1 DEF RequestPasswordReset
<1>2. ASSUME NEW ip \in Ips, NEW user \in Users
      PROVE  GetMe(ip, user) \in Seq(Counters)
  <2>1. /\ <<"throttleMeIp", ip>> \in Counters
        /\ <<"throttleMeUser", user>> \in Counters
    BY Zenon DEF Counters
  <2> QED
    BY <2>1 DEF GetMe
<1> QED
  BY <1>1, <1>2, RateLimitsAssumption DEF Paths

-----------------------------------------------------------------------------
(* Type correctness *)

\* A call has a request and has not passed all of its counters.
Counting(r) ==
    /\ r.op \in {"incr", "expire"}
    /\ r.path \in Requests
    /\ r.passed \in 0 .. Len(r.path) - 1
    /\ r = [op |-> r.op, path |-> r.path, passed |-> r.passed]

LimitsTypeOK ==
    /\ hits \in [Counters -> Nat]
    /\ ttl \in [Counters -> Int]
    /\ DOMAIN call = Calls
    /\ \A q \in Calls : call[q] = Idle \/ Counting(call[q])
    /\ faults \in Nat
    /\ admitted \in [Counters -> Nat]
    /\ age \in [Counters -> Nat]
    /\ cut \subseteq Counters

\* The counter a call is at.
LEMMA AtCounter ==
    ASSUME LimitsTypeOK, NEW q \in Calls, call[q] # Idle
    PROVE  Counting(call[q]) /\ CounterOf(q) \in Counters
<1>1. Counting(call[q])
  BY DEF LimitsTypeOK
<1>2. call[q].path \in Seq(Counters)
  BY <1>1, PathsHitCounters DEF Counting
<1>3. call[q].passed + 1 \in 1 .. Len(call[q].path)
  BY <1>1, <1>2 DEF Counting
<1> QED
  BY <1>1, <1>2, <1>3 DEF CounterOf

\* A call that passes its counter is at the next one, or done.
LEMMA PassedTyped ==
    ASSUME LimitsTypeOK, NEW q \in Calls, call[q] # Idle
    PROVE  /\ Passed(q) = Idle \/ Counting(Passed(q))
           /\ Passed(q).op # "expire"
<1>1. Counting(call[q]) /\ call[q].path \in Seq(Counters)
  BY AtCounter, PathsHitCounters DEF Counting
<1>2. CASE call[q].passed + 1 < Len(call[q].path)
  <2>1. Passed(q) = [op |-> "incr", path |-> call[q].path, passed |-> call[q].passed + 1]
    BY <1>1, <1>2 DEF Passed, Counting
  <2> QED
    BY <1>1, <1>2, <2>1 DEF Counting
<1>3. CASE ~ (call[q].passed + 1 < Len(call[q].path))
  BY <1>3 DEF Passed, Idle
<1> QED
  BY <1>2, <1>3

\* A call that sets an expiry stays at its counter.
LEMMA ExpiringTyped ==
    ASSUME LimitsTypeOK, NEW q \in Calls, call[q] # Idle
    PROVE  /\ Counting([call[q] EXCEPT !.op = "expire"])
           /\ [call[q] EXCEPT !.op = "expire"].op = "expire"
           /\ [call[q] EXCEPT !.op = "expire"].path = call[q].path
           /\ [call[q] EXCEPT !.op = "expire"].passed = call[q].passed
<1>1. Counting(call[q])
  BY AtCounter
<1>2. [call[q] EXCEPT !.op = "expire"] = [op |-> "expire", path |-> call[q].path, passed |-> call[q].passed]
  BY <1>1 DEF Counting
<1> QED
  BY <1>1, <1>2 DEF Counting

\* What follows a count.
LEMMA AfterIncrTyped ==
    ASSUME LimitsTypeOK, NEW q \in Calls, call[q] # Idle, NEW count \in Nat
    PROVE  AfterIncr(q, count) = Idle \/ Counting(AfterIncr(q, count))
BY PassedTyped, ExpiringTyped DEF AfterIncr

\* No counter exists and no call is under way initially.
LEMMA LimitsTypeInit == LimitsInit => LimitsTypeOK
BY DEF LimitsInit, LimitsTypeOK, NoExpiry

\* A command leaves its call at a counter of its request, or done.
LEMMA CallTypes ==
    ASSUME LimitsTypeOK, NEW q \in Calls, NEW r, call' = [call EXCEPT ![q] = r],
           r = Idle \/ Counting(r)
    PROVE  DOMAIN call' = Calls /\ \A x \in Calls : call'[x] = Idle \/ Counting(call'[x])
BY DEF LimitsTypeOK

\* Every step keeps the types.
LEMMA LimitsTypeStep == LimitsTypeOK /\ [LimitsNext]_limitVars => LimitsTypeOK'
<1> SUFFICES ASSUME LimitsTypeOK, [LimitsNext]_limitVars
             PROVE  LimitsTypeOK'
  OBVIOUS
<1>c. ASSUME NEW q \in Calls, NEW r, call' = [call EXCEPT ![q] = r],
             r = Idle \/ Counting(r)
      PROVE  DOMAIN call' = Calls /\ \A x \in Calls : call'[x] = Idle \/ Counting(call'[x])
  BY <1>c, CallTypes
<1>1. CASE Tick
  <2>1. hits' \in [Counters -> Nat]
    BY <1>1 DEF Tick, LimitsTypeOK
  <2>2. ttl' \in [Counters -> Int]
    BY <1>1 DEF Tick, LimitsTypeOK, NoExpiry
  <2>3. admitted' \in [Counters -> Nat]
    BY <1>1 DEF Tick, LimitsTypeOK
  <2>4. age' \in [Counters -> Nat]
    BY <1>1 DEF Tick, LimitsTypeOK
  <2>5. UNCHANGED <<call, faults, cut>>
    BY <1>1 DEF Tick
  <2> QED
    BY <2>1, <2>2, <2>3, <2>4, <2>5 DEF LimitsTypeOK
<1>2. ASSUME NEW q \in Calls, Receive(q) PROVE LimitsTypeOK'
  <2>1. PICK path \in Requests : call' = [call EXCEPT ![q] = [op |-> "incr", path |-> path, passed |-> 0]]
    BY <1>2 DEF Receive
  <2>2. Len(path) >= 1 /\ Len(path) \in Nat
    <3>1. path \in Paths
      BY RateLimitsAssumption
    <3>2. CASE \E ip \in Ips, mail \in Mails : path = RequestPasswordReset(ip, mail)
      BY <3>2 DEF RequestPasswordReset
    <3>3. CASE \E ip \in Ips, user \in Users : path = GetMe(ip, user)
      BY <3>3 DEF GetMe
    <3> QED
      BY <3>1, <3>2, <3>3 DEF Paths
  <2>3. Counting([op |-> "incr", path |-> path, passed |-> 0])
    BY <2>2 DEF Counting
  <2>4. UNCHANGED <<hits, ttl, faults, admitted, age, cut>>
    BY <1>2 DEF Receive
  <2> QED
    BY <1>c, <2>1, <2>3, <2>4 DEF LimitsTypeOK
<1>3. ASSUME NEW q \in Calls, Incr(q) PROVE LimitsTypeOK'
  <2> DEFINE c == CounterOf(q)
  <2>1. call[q] # Idle
    BY <1>3 DEF Incr, Idle
  <2>2. c \in Counters
    BY <2>1, AtCounter
  <2>3. /\ call' = [call EXCEPT ![q] = AfterIncr(q, hits[c] + 1)]
        /\ hits' = [hits EXCEPT ![c] = IF @ > LimitOf(c) THEN @ ELSE hits[c] + 1]
        /\ admitted' = [admitted EXCEPT ![c] = IF Blocked(c, hits[c] + 1) THEN @ ELSE @ + 1]
        /\ UNCHANGED <<ttl, faults, age, cut>>
    BY <1>3 DEF Incr
  <2>4. hits[c] + 1 \in Nat /\ hits[c] \in Nat /\ admitted[c] \in Nat
    BY <2>2 DEF LimitsTypeOK
  <2>5. DOMAIN call' = Calls /\ \A x \in Calls : call'[x] = Idle \/ Counting(call'[x])
    BY <1>c, <2>1, <2>3, <2>4, AfterIncrTyped
  <2> HIDE DEF c
  <2>6. hits' \in [Counters -> Nat] /\ admitted' \in [Counters -> Nat]
    BY <2>2, <2>3, <2>4 DEF LimitsTypeOK
  <2> QED
    BY <2>3, <2>5, <2>6 DEF LimitsTypeOK
<1>4. ASSUME NEW q \in Calls, Expire(q) PROVE LimitsTypeOK'
  <2> DEFINE c == CounterOf(q)
  <2>1. call[q] # Idle
    BY <1>4 DEF Expire, Idle
  <2>2. c \in Counters
    BY <2>1, AtCounter
  <2>3. /\ call' = [call EXCEPT ![q] = Passed(q)]
        /\ ttl' = [ttl EXCEPT ![c] = IF hits[c] = 0 THEN @ ELSE PeriodOf(c)]
        /\ UNCHANGED <<hits, faults, admitted, age, cut>>
    BY <1>4 DEF Expire
  <2>4. DOMAIN call' = Calls /\ \A x \in Calls : call'[x] = Idle \/ Counting(call'[x])
    BY <1>c, <2>1, <2>3, PassedTyped
  <2>5. PeriodOf(c) \in Int
    BY <2>2, CounterTyped
  <2> HIDE DEF c
  <2> QED
    BY <2>3, <2>4, <2>5 DEF LimitsTypeOK
<1>5. ASSUME NEW q \in Calls, CommandFails(q) PROVE LimitsTypeOK'
  <2>1. /\ call' = [call EXCEPT ![q] = Idle]
        /\ faults' = faults + 1
        /\ UNCHANGED <<hits, ttl, admitted, age>>
    BY <1>5 DEF CommandFails
  <2>2. cut' \subseteq Counters
    BY <1>5, AtCounter DEF CommandFails, LimitsTypeOK
  <2> QED
    BY <1>c, <2>1, <2>2 DEF LimitsTypeOK
<1>6. CASE UNCHANGED limitVars
  BY <1>6 DEF limitVars, LimitsTypeOK
<1> QED
  BY <1>1, <1>2, <1>3, <1>4, <1>5, <1>6 DEF LimitsNext

-----------------------------------------------------------------------------
(* The windows *)

\* What a counter says of its window: the hits up to the limit were admitted, a
\* counter that does not exist has neither age nor expiry, and the expiry of one that
\* does lies a period or more after its first hit.
WindowOf(c) ==
    /\ admitted[c] = IF hits[c] <= LimitOf(c) THEN hits[c] ELSE LimitOf(c)
    /\ hits[c] = 0 => age[c] = 0 /\ ttl[c] = NoExpiry
    /\ age[c] <= PeriodOf(c)
    /\ ttl[c] # NoExpiry => ttl[c] >= 1 /\ age[c] + ttl[c] >= PeriodOf(c)

WindowsHold == \A c \in Counters : WindowOf(c)

\* What a step may do to the window of a counter.
WindowStep(c) == Windows!Admit(c) \/ Windows!Age(c) \/ Windows!Close(c) \/ Windows!Keep(c)

\* A step that leaves a counter alone keeps its window.
LEMMA LeftAlone ==
    ASSUME NEW c, WindowOf(c), hits'[c] = hits[c], ttl'[c] = ttl[c],
           admitted'[c] = admitted[c], age'[c] = age[c]
    PROVE  WindowOf(c)' /\ WindowStep(c)
BY DEF WindowOf, WindowStep, Windows!Keep, LimitOf, PeriodOf

\* Every step keeps the windows, and does to each of them what a window allows.
LEMMA EveryWindowSteps ==
    ASSUME LimitsTypeOK, WindowsHold, [LimitsNext]_limitVars, NEW c \in Counters
    PROVE  WindowOf(c)' /\ WindowStep(c)
<1>c. LimitOf(c) \in Nat /\ LimitOf(c) >= 1 /\ PeriodOf(c) \in Nat /\ PeriodOf(c) >= 1
  BY CounterTyped
<1>t. /\ hits[c] \in Nat /\ ttl[c] \in Int /\ admitted[c] \in Nat /\ age[c] \in Nat
      /\ WindowOf(c)
  BY DEF LimitsTypeOK, WindowsHold
<1>p. LimitOf(c)' = LimitOf(c) /\ PeriodOf(c)' = PeriodOf(c)
  BY DEF LimitOf, PeriodOf
<1>w. [x \in Counters |-> LimitOf(x)][c] = LimitOf(c) /\ [x \in Counters |-> PeriodOf(x)][c] = PeriodOf(c)
  OBVIOUS
<1>1. CASE Tick
  <2>1. /\ hits'[c] = IF ttl[c] = 1 THEN 0 ELSE hits[c]
        /\ ttl'[c] = IF ttl[c] = 1 \/ ttl[c] = NoExpiry THEN NoExpiry ELSE ttl[c] - 1
        /\ admitted'[c] = IF ttl[c] = 1 THEN 0 ELSE admitted[c]
    BY <1>1 DEF Tick, Expired
  <2>2. age'[c] = IF ttl[c] = 1 \/ hits[c] = 0 THEN 0
                  ELSE IF age[c] < PeriodOf(c) THEN age[c] + 1 ELSE age[c]
    BY <1>1 DEF Tick, Expired
  <2>3. WindowOf(c)'
    BY <1>c, <1>t, <1>p, <2>1, <2>2 DEF WindowOf, NoExpiry
  <2>4. CASE ttl[c] = 1
    <3>1. age[c] + 1 >= PeriodOf(c)
      BY <1>t, <1>c, <2>4 DEF WindowOf, NoExpiry
    <3>2. Windows!Close(c)
      BY <1>w, <2>1, <2>2, <2>4, <3>1 DEF Windows!Close
    <3> QED
      BY <2>3, <3>2 DEF WindowStep
  <2>5. CASE ttl[c] # 1 /\ hits[c] # 0 /\ age[c] < PeriodOf(c)
    <3>1. Windows!Age(c)
      BY <1>w, <2>1, <2>2, <2>5 DEF Windows!Age
    <3> QED
      BY <2>3, <3>1 DEF WindowStep
  <2>6. CASE ttl[c] # 1 /\ (hits[c] = 0 \/ ~ (age[c] < PeriodOf(c)))
    <3>1. Windows!Keep(c)
      BY <1>t, <2>1, <2>2, <2>6 DEF Windows!Keep, WindowOf
    <3> QED
      BY <2>3, <3>1 DEF WindowStep
  <2> QED
    BY <2>4, <2>5, <2>6
<1>2. ASSUME NEW q \in Calls, Receive(q) \/ CommandFails(q) PROVE WindowOf(c)' /\ WindowStep(c)
  BY <1>2, <1>t, LeftAlone DEF Receive, CommandFails
<1>3. ASSUME NEW q \in Calls, Incr(q) PROVE WindowOf(c)' /\ WindowStep(c)
  <2> DEFINE d == CounterOf(q)
  <2>1. /\ hits' = [hits EXCEPT ![d] = IF @ > LimitOf(d) THEN @ ELSE hits[d] + 1]
        /\ admitted' = [admitted EXCEPT ![d] = IF Blocked(d, hits[d] + 1) THEN @ ELSE @ + 1]
        /\ UNCHANGED <<ttl, age>>
    BY <1>3 DEF Incr
  <2> HIDE DEF d
  <2>2. CASE c # d
    <3>1. hits'[c] = hits[c] /\ admitted'[c] = admitted[c]
      BY <2>1, <2>2 DEF LimitsTypeOK
    <3> QED
      BY <1>t, <2>1, <3>1, LeftAlone
  <2>3. CASE c = d
    <3>1. /\ hits'[c] = IF hits[c] > LimitOf(c) THEN hits[c] ELSE hits[c] + 1
          /\ admitted'[c] = IF hits[c] + 1 > LimitOf(c) THEN admitted[c] ELSE admitted[c] + 1
          /\ ttl'[c] = ttl[c] /\ age'[c] = age[c]
      BY <2>1, <2>3 DEF LimitsTypeOK, Blocked
    <3>2. WindowOf(c)'
      BY <1>c, <1>t, <1>p, <3>1 DEF WindowOf
    <3>3. CASE hits[c] + 1 > LimitOf(c)
      <4>1. Windows!Keep(c)
        BY <3>1, <3>3 DEF Windows!Keep
      <4> QED
        BY <3>2, <4>1 DEF WindowStep
    <3>4. CASE ~ (hits[c] + 1 > LimitOf(c))
      <4>1. admitted[c] < LimitOf(c)
        BY <1>c, <1>t, <3>4 DEF WindowOf
      <4>2. Windows!Admit(c)
        BY <1>w, <3>1, <3>4, <4>1 DEF Windows!Admit
      <4> QED
        BY <3>2, <4>2 DEF WindowStep
    <3> QED
      BY <3>3, <3>4
  <2> QED
    BY <2>2, <2>3
<1>4. ASSUME NEW q \in Calls, Expire(q) PROVE WindowOf(c)' /\ WindowStep(c)
  <2> DEFINE d == CounterOf(q)
  <2>1. /\ ttl' = [ttl EXCEPT ![d] = IF hits[d] = 0 THEN @ ELSE PeriodOf(d)]
        /\ UNCHANGED <<hits, admitted, age>>
    BY <1>4 DEF Expire
  <2> HIDE DEF d
  <2>2. CASE c # d \/ hits[d] = 0
    <3>1. ttl'[c] = ttl[c]
      BY <2>1, <2>2 DEF LimitsTypeOK
    <3> QED
      BY <1>t, <2>1, <3>1, LeftAlone
  <2>3. CASE c = d /\ hits[d] # 0
    <3>1. ttl'[c] = PeriodOf(c)
      BY <2>1, <2>3 DEF LimitsTypeOK
    <3>2. WindowOf(c)'
      BY <1>c, <1>t, <1>p, <2>1, <2>3, <3>1 DEF WindowOf
    <3>3. Windows!Keep(c)
      BY <2>1 DEF Windows!Keep
    <3> QED
      BY <3>2, <3>3 DEF WindowStep
  <2> QED
    BY <2>2, <2>3
<1>5. CASE UNCHANGED limitVars
  BY <1>5, <1>t, LeftAlone DEF limitVars
<1> QED
  BY <1>1, <1>2, <1>3, <1>4, <1>5 DEF LimitsNext

LimitsInv == LimitsTypeOK /\ WindowsHold

\* No counter exists initially.
LEMMA LimitsInvInit == LimitsInit => LimitsInv
<1> SUFFICES ASSUME LimitsInit
             PROVE  LimitsInv
  OBVIOUS
<1>1. ASSUME NEW c \in Counters PROVE WindowOf(c)
  BY CounterTyped DEF LimitsInit, WindowOf
<1> QED
  BY <1>1, LimitsTypeInit DEF LimitsInv, WindowsHold

\* Every step keeps the types and the windows.
LEMMA LimitsInvStep == LimitsInv /\ [LimitsNext]_limitVars => LimitsInv'
BY LimitsTypeStep, EveryWindowSteps DEF LimitsInv, WindowsHold

\* Every step is one of the windows.
LEMMA LimitsRefine == LimitsInv /\ [LimitsNext]_limitVars => [Windows!Next]_(Windows!vars)
<1> SUFFICES ASSUME LimitsInv, [LimitsNext]_limitVars
             PROVE  Windows!Next
  OBVIOUS
<1>1. \A c \in Counters : WindowStep(c)
  BY EveryWindowSteps DEF LimitsInv
<1>2. DOMAIN admitted' = Counters /\ DOMAIN age' = Counters
  BY LimitsTypeStep DEF LimitsInv, LimitsTypeOK
<1> QED
  BY <1>1, <1>2 DEF WindowStep, Windows!Next

\* INCR and the expiry are two commands, and either may fail: for every set of
\* limits a counter still admits at most its limit in a window, and a window is never
\* shorter than the time to live.
THEOREM LimitsRefineWindows == LimitsSpec => CountersAreWindows
<1>1. LimitsInit => Windows!Init
  BY DEF LimitsInit, Windows!Init
<1> QED
  BY <1>1, LimitsInvInit, LimitsInvStep, LimitsRefine, PTL
  DEF LimitsSpec, CountersAreWindows, Windows!Spec

-----------------------------------------------------------------------------
(* Counters that nothing resets *)

\* A call is about to set the expiry of a counter.
Expiring(c) == \E q \in Calls : call[q].op = "expire" /\ CounterOf(q) = c

\* A counter without expiry has a call that sets it, or has lost that call.
CutTracked ==
    /\ \A c \in Counters : hits[c] > 0 /\ ttl[c] = NoExpiry => c \in cut \/ Expiring(c)
    /\ IsFiniteSet(cut)
    /\ Cardinality(cut) <= faults

StuckInv == LimitsInv /\ CutTracked

\* No counter exists initially, and none is cut off.
LEMMA StuckInit == LimitsInit => StuckInv
<1> SUFFICES ASSUME LimitsInit
             PROVE  StuckInv
  OBVIOUS
<1>1. IsFiniteSet(cut) /\ Cardinality(cut) = 0
  BY FS_EmptySet DEF LimitsInit
<1> QED
  BY <1>1, LimitsInvInit DEF LimitsInit, StuckInv, CutTracked

\* The hit that creates a counter is about to set its expiry, and only a fault stops it.
LEMMA CutStep == StuckInv /\ [LimitsNext]_limitVars => CutTracked'
<1> SUFFICES ASSUME StuckInv, [LimitsNext]_limitVars
             PROVE  CutTracked'
  OBVIOUS
<1>t. LimitsTypeOK /\ WindowsHold /\ CutTracked
  BY DEF StuckInv, LimitsInv
<1>d. /\ DOMAIN call = Calls /\ cut \subseteq Counters /\ faults \in Nat
      /\ IsFiniteSet(cut) /\ Cardinality(cut) \in Nat /\ Cardinality(cut) <= faults
  BY <1>t, FS_CardinalityType DEF LimitsTypeOK, CutTracked
<1>e. ASSUME NEW q \in Calls, NEW r, call' = [call EXCEPT ![q] = r],
             NEW c, Expiring(c), ~ (call[q].op = "expire" /\ CounterOf(q) = c)
      PROVE  Expiring(c)'
  <2>1. PICK x \in Calls : call[x].op = "expire" /\ CounterOf(x) = c
    BY <1>e DEF Expiring
  <2>2. call'[x] = call[x]
    BY <1>d, <1>e, <2>1
  <2> QED
    BY <2>1, <2>2 DEF Expiring, CounterOf
<1>1. CASE Tick
  <2>1. ASSUME NEW c \in Counters, hits'[c] > 0, ttl'[c] = NoExpiry
        PROVE  hits[c] > 0 /\ ttl[c] = NoExpiry
    <3>1. /\ hits'[c] = IF ttl[c] = 1 THEN 0 ELSE hits[c]
          /\ ttl'[c] = IF ttl[c] = 1 \/ ttl[c] = NoExpiry THEN NoExpiry ELSE ttl[c] - 1
      BY <1>1 DEF Tick, Expired
    <3>2. ttl[c] \in Int /\ (ttl[c] # NoExpiry => ttl[c] >= 1)
      BY <1>t DEF LimitsTypeOK, WindowsHold, WindowOf
    <3> QED
      BY <2>1, <3>1, <3>2 DEF NoExpiry
  <2>2. UNCHANGED <<call, faults, cut>>
    BY <1>1 DEF Tick
  <2>3. \A c : Expiring(c)' <=> Expiring(c)
    BY <2>2 DEF Expiring, CounterOf
  <2> QED
    BY <1>t, <2>1, <2>2, <2>3 DEF CutTracked
<1>2. ASSUME NEW q \in Calls, Receive(q) PROVE CutTracked'
  <2>1. PICK path \in Requests : call' = [call EXCEPT ![q] = [op |-> "incr", path |-> path, passed |-> 0]]
    BY <1>2 DEF Receive
  <2>2. call[q].op # "expire" /\ UNCHANGED <<hits, ttl, faults, cut>>
    BY <1>2 DEF Receive, Idle
  <2>3. \A c : Expiring(c) => Expiring(c)'
    BY <1>e, <2>1, <2>2
  <2> QED
    BY <1>t, <2>2, <2>3 DEF CutTracked
<1>3. ASSUME NEW q \in Calls, Incr(q) PROVE CutTracked'
  <2>0. PICK d : d = CounterOf(q)
    OBVIOUS
  <2>1. /\ call[q].op = "incr"
        /\ hits' = [hits EXCEPT ![d] = IF @ > LimitOf(d) THEN @ ELSE hits[d] + 1]
        /\ call' = [call EXCEPT ![q] = AfterIncr(q, hits[d] + 1)]
        /\ UNCHANGED <<ttl, faults, cut>>
    BY <1>3, <2>0 DEF Incr
  <2>2. call[q] # Idle /\ d \in Counters
    BY <2>0, <2>1, AtCounter, <1>t DEF Idle
  <2>3. \A c : Expiring(c) => Expiring(c)'
    BY <1>e, <2>1
  <2>4. hits[d] = 0 => Expiring(d)'
    <3> SUFFICES ASSUME hits[d] = 0 PROVE Expiring(d)'
      OBVIOUS
    <3>1. AfterIncr(q, hits[d] + 1) = [call[q] EXCEPT !.op = "expire"]
      <4>1. hits[d] + 1 = 1
        OBVIOUS
      <4> QED
        BY <4>1 DEF AfterIncr
    <3>2. call'[q] = [call[q] EXCEPT !.op = "expire"]
      BY <1>d, <2>1, <3>1
    <3>3. call'[q].op = "expire" /\ call'[q].path = call[q].path /\ call'[q].passed = call[q].passed
      BY <1>t, <2>2, <3>2, ExpiringTyped
    <3> QED
      BY <2>0, <3>3 DEF Expiring, CounterOf
  <2>5. \A c \in Counters : hits[c] \in Nat /\ (c # d => hits'[c] = hits[c])
    BY <1>t, <2>1 DEF LimitsTypeOK
  <2>6. ASSUME NEW c \in Counters, hits'[c] > 0, ttl'[c] = NoExpiry
        PROVE  c \in cut \/ Expiring(c)'
    <3>1. CASE hits[c] > 0
      BY <1>t, <2>1, <2>3, <2>6, <3>1 DEF CutTracked
    <3>2. CASE ~ (hits[c] > 0)
      <4>1. c = d /\ hits[d] = 0
        BY <2>5, <2>6, <3>2
      <4> QED
        BY <2>4, <4>1
    <3> QED
      BY <3>1, <3>2
  <2> QED
    BY <1>d, <2>1, <2>6 DEF CutTracked
<1>4. ASSUME NEW q \in Calls, Expire(q) PROVE CutTracked'
  <2> DEFINE d == CounterOf(q)
  <2>1. /\ call[q].op = "expire"
        /\ ttl' = [ttl EXCEPT ![d] = IF hits[d] = 0 THEN @ ELSE PeriodOf(d)]
        /\ call' = [call EXCEPT ![q] = Passed(q)]
        /\ UNCHANGED <<hits, faults, cut>>
    BY <1>4 DEF Expire
  <2>2. d \in Counters
    BY <2>1, AtCounter, <1>t DEF Idle
  <2>3. \A c : c # d /\ Expiring(c) => Expiring(c)'
    BY <1>e, <2>1
  <2>4. PeriodOf(d) \in Nat
    BY <2>2, CounterTyped
  <2>5. \A c \in Counters : ttl'[c] = IF c = d /\ hits[d] # 0 THEN PeriodOf(d) ELSE ttl[c]
    BY <1>t, <2>1 DEF LimitsTypeOK
  <2> HIDE DEF d
  <2>6. ASSUME NEW c \in Counters, hits[c] > 0, ttl'[c] = NoExpiry
        PROVE  c \in cut \/ Expiring(c)'
    <3>1. c # d /\ ttl[c] = NoExpiry
      BY <2>4, <2>5, <2>6 DEF NoExpiry
    <3> QED
      BY <1>t, <2>3, <2>6, <3>1 DEF CutTracked
  <2> QED
    BY <1>d, <2>1, <2>6 DEF CutTracked
<1>5. ASSUME NEW q \in Calls, CommandFails(q) PROVE CutTracked'
  <2>1. /\ call' = [call EXCEPT ![q] = Idle]
        /\ faults' = faults + 1
        /\ UNCHANGED <<hits, ttl>>
        /\ cut' = IF call[q].op = "expire" THEN cut \cup {CounterOf(q)} ELSE cut
    BY <1>5 DEF CommandFails
  <2>2. ASSUME NEW c, Expiring(c) PROVE c \in cut' \/ Expiring(c)'
    BY <1>e, <2>1, <2>2
  <2>3. IsFiniteSet(cut') /\ Cardinality(cut') <= faults'
    <3>1. /\ IsFiniteSet(cut \cup {CounterOf(q)})
          /\ Cardinality(cut \cup {CounterOf(q)})
               = IF CounterOf(q) \in cut THEN Cardinality(cut) ELSE Cardinality(cut) + 1
      BY <1>d, FS_AddElement
    <3>2. Cardinality(cut \cup {CounterOf(q)}) <= Cardinality(cut) + 1
      BY <1>d, <3>1
    <3> QED
      BY <1>d, <2>1, <3>1, <3>2
  <2> QED
    BY <1>t, <2>1, <2>2, <2>3 DEF CutTracked
<1>6. CASE UNCHANGED limitVars
  <2>1. \A c : Expiring(c)' <=> Expiring(c)
    BY <1>6 DEF limitVars, Expiring, CounterOf
  <2> QED
    BY <1>t, <1>6, <2>1 DEF limitVars, CutTracked
<1> QED
  BY <1>1, <1>2, <1>3, <1>4, <1>5, <1>6 DEF LimitsNext

\* checkRateLimit and the throttler storage set the expiry only after the first hit:
\* however many calls are counted at a time, a counter is left without expiry only by
\* a fault between the two commands, and each fault leaves one counter so at most.
THEOREM StuckByFaultOnly == LimitsSpec => []StuckOnlyByFault
<1>1. StuckInv /\ [LimitsNext]_limitVars => StuckInv'
  BY LimitsInvStep, CutStep DEF StuckInv
<1>2. StuckInv => StuckOnlyByFault
  BY DEF StuckInv, CutTracked, StuckOnlyByFault, Expiring
<1> QED
  BY <1>1, <1>2, StuckInit, PTL DEF LimitsSpec

-----------------------------------------------------------------------------
(* What the scripts are made of *)

\* A sequence that is appended to another adds its elements behind it.
LEMMA Joined ==
    ASSUME NEW S, NEW s \in Seq(S), NEW t \in Seq(S)
    PROVE  /\ s \o t \in Seq(S)
           /\ ToSet(s \o t) = ToSet(s) \cup ToSet(t)
           /\ Len(s) \in Nat /\ Len(t) \in Nat
           /\ Len(s \o t) = Len(s) + Len(t)
           /\ \A i \in 1..(Len(s) + Len(t)) : (s \o t)[i] = IF i <= Len(s) THEN s[i] ELSE t[i - Len(s)]
<1>1. /\ Len(s) \in Nat /\ Len(t) \in Nat
      /\ DOMAIN s = 1..Len(s) /\ DOMAIN t = 1..Len(t)
      /\ DOMAIN (s \o t) = 1..(Len(s) + Len(t))
      /\ \A i \in 1..(Len(s) + Len(t)) : (s \o t)[i] = IF i <= Len(s) THEN s[i] ELSE t[i - Len(s)]
  OBVIOUS
<1>2. \A i \in 1..Len(s) : (s \o t)[i] = s[i] /\ i \in 1..(Len(s) + Len(t))
  BY <1>1
<1>3. \A i \in 1..Len(t) : (s \o t)[Len(s) + i] = t[i] /\ Len(s) + i \in 1..(Len(s) + Len(t))
  BY <1>1
<1>4. ToSet(s \o t) \subseteq ToSet(s) \cup ToSet(t)
  BY <1>1 DEF ToSet
<1>5. ToSet(s) \subseteq ToSet(s \o t)
  BY <1>1, <1>2 DEF ToSet
<1>6. ToSet(t) \subseteq ToSet(s \o t)
  <2>1. ASSUME NEW i \in 1..Len(t)
        PROVE  t[i] \in ToSet(s \o t)
    BY <1>1, <1>3 DEF ToSet
  <2> QED
    BY <1>1, <2>1 DEF ToSet
<1> QED
  BY <1>1, <1>4, <1>5, <1>6

\* A sequence written as a function of its places.
LEMMA Listed ==
    ASSUME NEW S, NEW n \in Nat, NEW s \in [1..n -> S]
    PROVE  /\ s \in Seq(S)
           /\ Len(s) = n
           /\ ToSet(s) = {s[i] : i \in 1..n}
BY DEF ToSet

\* The words the tables of the scripts are made of.
Scopes == {"user", "post", "notification", "admin", "role"}
\* The actions the permissions are about.
Verbs == {"create", "read", "write", "update", "delete"}
\* The roles of the scripts.
RoleNames == {"SUPER_ADMIN", "ADMIN", "USER", "PREMIUM_USER"}
\* The accounts of the scripts, with their roles.
SeededRoles ==
    {<<"user1", "USER">>, <<"premium", "PREMIUM_USER">>,
     <<"superadmin", "SUPER_ADMIN">>, <<"admin01", "ADMIN">>}

\* The permissions of the scripts are scopes with actions.
LEMMA PermissionsListed ==
    /\ SeededPermissions \in Seq(Scopes \X Verbs)
    /\ OfUsers \in Seq(Scopes \X Verbs)
    /\ OfPosts \in Seq(Scopes \X Verbs)
    /\ OfNotifications \in Seq(Scopes \X Verbs)
<1>1. ASSUME NEW scope \in Scopes, NEW actions \in Seq(Verbs)
      PROVE  Actions(scope, actions) \in Seq(Scopes \X Verbs)
  BY DEF Actions, Permission
<1>2. Crud \in Seq(Verbs) /\ CrudAndWrite \in Seq(Verbs)
  BY DEF Crud, CrudAndWrite, Verbs
<1>3. /\ "user" \in Scopes /\ "post" \in Scopes /\ "notification" \in Scopes
      /\ "admin" \in Scopes /\ "role" \in Scopes
  BY DEF Scopes
<1>4. /\ OfUsers \in Seq(Scopes \X Verbs)
      /\ OfPosts \in Seq(Scopes \X Verbs)
      /\ OfNotifications \in Seq(Scopes \X Verbs)
      /\ OfAdmins \in Seq(Scopes \X Verbs)
      /\ OfRoles \in Seq(Scopes \X Verbs)
  BY <1>1, <1>2, <1>3 DEF OfUsers, OfPosts, OfNotifications, OfAdmins, OfRoles
<1> QED
  BY <1>4 DEF SeededPermissions

\* The roles of the script, each at a place of its own.
LEMMA RolesListed ==
    /\ Roles \in Seq(RoleNames)
    /\ Len(Roles) = 4
    /\ Roles[1] = "SUPER_ADMIN" /\ Roles[2] = "ADMIN"
    /\ Roles[3] = "USER" /\ Roles[4] = "PREMIUM_USER"
    /\ ToSet(Roles) = RoleNames
    /\ \A role \in RoleNames : \E i \in 1..4 : Roles[i] = role
    /\ \A i, j \in 1..4 : Roles[i] = Roles[j] => i = j
<1>1. /\ Roles \in Seq(RoleNames)
      /\ Len(Roles) = 4
      /\ Roles[1] = "SUPER_ADMIN" /\ Roles[2] = "ADMIN"
      /\ Roles[3] = "USER" /\ Roles[4] = "PREMIUM_USER"
  BY DEF Roles, RoleNames
<1>2. DOMAIN Roles = {1, 2, 3, 4} /\ 1..4 = {1, 2, 3, 4}
  BY <1>1
<1>3. ToSet(Roles) = RoleNames
  BY <1>1, <1>2 DEF RoleNames, ToSet
<1> QED
  BY <1>1, <1>2, <1>3 DEF RoleNames

\* The accounts of the two scripts together.
LEMMA AccountsListed == RoleOf = SeededRoles
<1>1. /\ SeededUsers \in Seq(SeededRoles) /\ SeededAdmins \in Seq(SeededRoles)
      /\ Len(SeededUsers) = 2 /\ Len(SeededAdmins) = 2
      /\ SeededUsers[1] = <<"user1", "USER">> /\ SeededUsers[2] = <<"premium", "PREMIUM_USER">>
      /\ SeededAdmins[1] = <<"superadmin", "SUPER_ADMIN">> /\ SeededAdmins[2] = <<"admin01", "ADMIN">>
  BY DEF SeededUsers, SeededAdmins, SeededRoles
<1>2. DOMAIN SeededUsers = {1, 2} /\ DOMAIN SeededAdmins = {1, 2}
  BY <1>1
<1>3. /\ ToSet(SeededUsers) = {<<"user1", "USER">>, <<"premium", "PREMIUM_USER">>}
      /\ ToSet(SeededAdmins) = {<<"superadmin", "SUPER_ADMIN">>, <<"admin01", "ADMIN">>}
  BY <1>1, <1>2 DEF ToSet
<1>4. RoleOf = ToSet(SeededUsers) \cup ToSet(SeededAdmins)
  BY <1>1, Joined DEF RoleOf
<1> QED
  BY <1>3, <1>4 DEF SeededRoles

\* The permissions of a role.
Granted(role) == ToSet(GrantedTo(role))

\* What a role is granted is a list of permissions.
LEMMA GrantedListed ==
    ASSUME NEW role
    PROVE  GrantedTo(role) \in Seq(ToSet(GrantedTo(role)))
<1>1. \A s \in Seq(Scopes \X Verbs) : s \in Seq(ToSet(s))
  BY DEF ToSet
<1>2. GrantedTo(role) \in Seq(Scopes \X Verbs)
  BY PermissionsListed DEF GrantedTo
<1> QED
  BY <1>1, <1>2

-----------------------------------------------------------------------------
(* The statements of the scripts *)

\* The statements of the scripts: a role, the lookup of one, a grant, an account.
RoleStatement(i) == [op |-> "role", role |-> Roles[i], id |-> i]
FindStatement(role) == [op |-> "find", role |-> role]
GrantStatement(role, p) == [op |-> "grant", role |-> role, permission |-> p]
AccountStatement(a) == [op |-> "account", name |-> a[1], role |-> a[2]]

\* The statements by what they do.
RoleStatements == {RoleStatement(i) : i \in 1..4}
PermissionStatements ==
    {[op |-> "permission", permission |-> p] : p \in ToSet(SeededPermissions)}
FindStatements == {FindStatement(role) : role \in RoleNames}
GrantStatements == UNION {{GrantStatement(role, p) : p \in Granted(role)} : role \in RoleNames}
AccountStatements == {AccountStatement(a) : a \in SeededRoles}

\* All statements but those that create roles.
Rest == UNION {PermissionStatements, FindStatements, GrantStatements, AccountStatements}
AnyStatement == RoleStatements \cup Rest

\* Roles and no others come first.
RolesFirst(s) ==
    /\ s \in Seq(AnyStatement)
    /\ Len(s) >= 4
    /\ \A i \in 1..4 : s[i] = RoleStatement(i)
    /\ \A i \in 5..Len(s) : s[i] \in Rest

\* A role is looked up before anything is given to it or its accounts.
FoundFirst(s) ==
    \A i \in 1..Len(s) :
      s[i].op \in {"grant", "account"} =>
        \E j \in 1..i-1 : s[j].op = "find" /\ s[j].role = s[i].role

\* A statement is known by what it does.
LEMMA RestOp ==
    ASSUME NEW s \in AnyStatement
    PROVE  /\ s \in RoleStatements => s.op = "role" /\ s.role \in RoleNames /\ s.id \in Nat
           /\ s.op = "role" => s \in RoleStatements
           /\ s.op = "permission" => s \in PermissionStatements
           /\ s.op = "find" => s \in FindStatements /\ s.role \in RoleNames
           /\ s.op = "grant" => s \in GrantStatements /\ s.role \in RoleNames /\ s.permission \in Granted(s.role)
           /\ s.op = "account" => s \in AccountStatements /\ s.role \in RoleNames /\ <<s.name, s.role>> \in SeededRoles
<1>1. s \in RoleStatements => s.op = "role" /\ s.role \in RoleNames /\ s.id \in Nat
  <2> HAVE s \in RoleStatements
  <2>1. PICK i \in 1..4 : s = RoleStatement(i)
    BY DEF RoleStatements
  <2>2. Roles[i] \in RoleNames
    <3>1. Roles \in Seq(RoleNames) /\ Len(Roles) = 4
      BY RolesListed
    <3> QED
      BY <3>1
  <2> QED
    BY <2>1, <2>2 DEF RoleStatement
<1>2. s \in PermissionStatements => s.op = "permission"
  BY DEF PermissionStatements
<1>3. s \in FindStatements => s.op = "find" /\ s.role \in RoleNames
  BY DEF FindStatements, FindStatement
<1>4. s \in GrantStatements => s.op = "grant" /\ s.role \in RoleNames /\ s.permission \in Granted(s.role)
  <2> HAVE s \in GrantStatements
  <2>1. PICK role \in RoleNames : s \in {GrantStatement(role, p) : p \in Granted(role)}
    BY DEF GrantStatements
  <2> QED
    BY <2>1 DEF GrantStatement
<1>5. s \in AccountStatements => s.op = "account" /\ s.role \in RoleNames /\ <<s.name, s.role>> \in SeededRoles
  BY DEF AccountStatements, AccountStatement, SeededRoles, RoleNames
<1>6. s \in RoleStatements \/ s \in PermissionStatements \/ s \in FindStatements \/ s \in GrantStatements \/ s \in AccountStatements
  BY DEF AnyStatement, Rest
<1> QED
  BY <1>1, <1>2, <1>3, <1>4, <1>5, <1>6

\* The roles stay first when other statements are appended.
LEMMA RolesFirstJoined ==
    ASSUME NEW s, NEW t, RolesFirst(s), t \in Seq(Rest)
    PROVE  RolesFirst(s \o t)
<1>1. s \in Seq(AnyStatement) /\ t \in Seq(AnyStatement)
  BY DEF RolesFirst, AnyStatement
<1>2. /\ s \o t \in Seq(AnyStatement)
      /\ Len(s \o t) = Len(s) + Len(t)
      /\ Len(s) \in Nat /\ Len(t) \in Nat
      /\ \A i \in 1..Len(s) + Len(t) : (s \o t)[i] = IF i <= Len(s) THEN s[i] ELSE t[i - Len(s)]
  BY <1>1
<1>3. \A i \in 1..Len(t) : t[i] \in Rest
  OBVIOUS
<1>4. ASSUME NEW i \in 5..Len(s) + Len(t)
      PROVE  (s \o t)[i] \in Rest
  <2>1. CASE i <= Len(s)
    BY <2>1, <1>2 DEF RolesFirst
  <2>2. CASE ~ (i <= Len(s))
    <3>1. i - Len(s) \in 1..Len(t) /\ i \in 1..Len(s) + Len(t)
      BY <2>2, <1>2
    <3> QED
      BY <2>2, <3>1, <1>2, <1>3
  <2> QED
    BY <2>1, <2>2
<1>5. \A i \in 1..4 : (s \o t)[i] = s[i]
  BY <1>2 DEF RolesFirst
<1> QED
  BY <1>2, <1>4, <1>5 DEF RolesFirst

\* Lookups stay ahead of what needs them when lists are joined.
LEMMA FoundFirstJoined ==
    ASSUME NEW S, NEW s \in Seq(S), NEW t \in Seq(S), FoundFirst(s), FoundFirst(t)
    PROVE  FoundFirst(s \o t)
<1>1. /\ Len(s \o t) = Len(s) + Len(t)
      /\ Len(s) \in Nat /\ Len(t) \in Nat
      /\ \A i \in 1..Len(s) + Len(t) : (s \o t)[i] = IF i <= Len(s) THEN s[i] ELSE t[i - Len(s)]
  OBVIOUS
<1> SUFFICES ASSUME NEW i \in 1..Len(s) + Len(t), (s \o t)[i].op \in {"grant", "account"}
             PROVE  \E j \in 1..i-1 : (s \o t)[j].op = "find" /\ (s \o t)[j].role = (s \o t)[i].role
  BY <1>1 DEF FoundFirst
<1>2. CASE i <= Len(s)
  <2>1. (s \o t)[i] = s[i] /\ i \in 1..Len(s)
    BY <1>1, <1>2
  <2>2. PICK j \in 1..i-1 : s[j].op = "find" /\ s[j].role = s[i].role
    BY <2>1 DEF FoundFirst
  <2>3. (s \o t)[j] = s[j]
    BY <1>1, <1>2
  <2> QED
    BY <2>1, <2>2, <2>3
<1>3. CASE ~ (i <= Len(s))
  <2> DEFINE k == i - Len(s)
  <2>1. (s \o t)[i] = t[k] /\ k \in 1..Len(t)
    BY <1>1, <1>3
  <2>2. PICK j \in 1..k-1 : t[j].op = "find" /\ t[j].role = t[k].role
    BY <2>1 DEF FoundFirst
  <2>3. j + Len(s) \in 1..i-1 /\ j + Len(s) \in 1..Len(s) + Len(t) /\ ~ (j + Len(s) <= Len(s)) /\ j + Len(s) - Len(s) = j
    BY <1>1, <1>3, <2>1
  <2>4. (s \o t)[j + Len(s)] = t[j]
    BY <1>1, <2>3
  <2> QED
    BY <2>1, <2>2, <2>3, <2>4
<1> QED
  BY <1>2, <1>3

\* The lookup of a role is one statement.
LEMMA FindListed ==
    ASSUME NEW role \in RoleNames
    PROVE  /\ Find(role) \in Seq(Rest)
           /\ Len(Find(role)) = 1
           /\ Find(role)[1] = FindStatement(role)
<1>1. FindStatement(role) \in Rest
  BY DEF Rest, FindStatements
<1> QED
  BY <1>1 DEF Find, FindStatement

\* The grants of a role follow its lookup, one for each of its permissions.
LEMMA GrantsListed ==
    ASSUME NEW role \in RoleNames
    PROVE  /\ Grants(role) \in Seq(Rest)
           /\ FoundFirst(Grants(role))
           /\ \A p \in Granted(role) : GrantStatement(role, p) \in ToSet(Grants(role))
<1> DEFINE granted == GrantedTo(role)
           t == [i \in 1..Len(granted) |-> [op |-> "grant", role |-> role, permission |-> granted[i]]]
<1>1. /\ granted \in Seq(Granted(role))
      /\ ToSet(granted) = Granted(role)
      /\ Len(granted) \in Nat
  BY GrantedListed DEF Granted
<1>2. \A i \in 1..Len(granted) : granted[i] \in Granted(role)
  BY <1>1
<1>3. \A i \in 1..Len(granted) : t[i] = GrantStatement(role, granted[i])
  BY DEF GrantStatement
<1>4. \A p \in Granted(role) : GrantStatement(role, p) \in Rest
  BY DEF Rest, GrantStatements
<1>5. t \in [1..Len(granted) -> Rest]
  BY <1>2, <1>3, <1>4
<1>7. Grants(role) = Find(role) \o t
  BY DEF Grants
<1> HIDE DEF t, granted
<1>6. t \in Seq(Rest) /\ Len(t) = Len(granted) /\ ToSet(t) = {t[i] : i \in 1..Len(granted)}
  <2> DEFINE n == Len(granted)
  <2>1. n \in Nat /\ t \in [1..n -> Rest]
    BY <1>1, <1>5
  <2> HIDE DEF n
  <2>2. t \in Seq(Rest) /\ Len(t) = n /\ ToSet(t) = {t[i] : i \in 1..n}
    BY <2>1, Listed
  <2> QED
    BY <2>2 DEF n
<1>8. Grants(role) \in Seq(Rest) /\ ToSet(Grants(role)) = ToSet(Find(role)) \cup ToSet(t)
  BY <1>6, <1>7, FindListed, Joined
<1>9. FoundFirst(Grants(role))
  <2>1. /\ Len(Find(role) \o t) = 1 + Len(granted)
        /\ \A i \in 1..1 + Len(granted) : (Find(role) \o t)[i] = IF i <= 1 THEN Find(role)[1] ELSE t[i - 1]
    <3>1. Find(role) \in Seq(Rest) /\ Len(Find(role)) = 1
      BY FindListed
    <3>2. t \in Seq(Rest) /\ Len(t) = Len(granted) /\ Len(granted) \in Nat
      BY <1>1, <1>6
    <3> HIDE DEF Find
    <3> DEFINE f == Find(role)
    <3>3. f \in Seq(Rest) /\ Len(f) = 1
      BY <3>1
    <3> HIDE DEF f
    <3>4. /\ Len(f \o t) = 1 + Len(granted)
          /\ \A i \in 1..1 + Len(granted) : (f \o t)[i] = IF i <= 1 THEN f[i] ELSE t[i - 1]
      <4>1. /\ Len(f \o t) = Len(f) + Len(t)
            /\ \A i \in 1..(Len(f) + Len(t)) : (f \o t)[i] = IF i <= Len(f) THEN f[i] ELSE t[i - Len(f)]
        BY <3>2, <3>3, Joined
      <4> QED
        BY <3>2, <3>3, <4>1
    <3>5. \A i \in 1..1 + Len(granted) : i <= 1 => i = 1
      BY <3>2
    <3> QED
      BY <3>4, <3>5 DEF f
  <2>2. Grants(role)[1].op = "find" /\ Grants(role)[1].role = role
    <3>1. Grants(role)[1] = FindStatement(role)
      BY <1>1, <1>7, <2>1, FindListed
    <3> QED
      BY <3>1 DEF FindStatement
  <2>3. ASSUME NEW i \in 2..1 + Len(granted)
        PROVE  Grants(role)[i].role = role /\ 1 \in 1..i-1
    <3>1. i - 1 \in 1..Len(granted) /\ ~ (i <= 1) /\ i \in 1..1 + Len(granted)
      BY <1>1
    <3>2. Grants(role)[i] = GrantStatement(role, granted[i - 1])
      BY <1>3, <1>7, <2>1, <3>1
    <3> QED
      BY <3>2, <1>1 DEF GrantStatement
  <2>4. ASSUME NEW i \in 1..Len(Grants(role)), Grants(role)[i].op \in {"grant", "account"}
        PROVE  \E j \in 1..i-1 : Grants(role)[j].op = "find" /\ Grants(role)[j].role = Grants(role)[i].role
    <3>1. i # 1
      BY <2>2, <2>4
    <3>2. i \in 2..1 + Len(granted)
      BY <1>1, <1>7, <2>1, <3>1
    <3> QED
      BY <2>2, <2>3, <3>2
  <2> QED
    BY <2>4 DEF FoundFirst
<1>10. ASSUME NEW p \in Granted(role)
       PROVE  GrantStatement(role, p) \in ToSet(Grants(role))
  <2>1. PICK i \in 1..Len(granted) : granted[i] = p
    BY <1>1 DEF ToSet
  <2> QED
    BY <1>3, <1>6, <1>8, <2>1
<1> QED
  BY <1>8, <1>9, <1>10

\* The accounts of a script follow the lookups of their roles.
LEMMA AccountsAndRolesListed ==
    ASSUME NEW a \in SeededRoles, NEW b \in SeededRoles
    PROVE  LET s == AccountsAndRoles(<<a, b>>) IN
           /\ s \in Seq(Rest)
           /\ FoundFirst(s)
           /\ {AccountStatement(a), AccountStatement(b)} \subseteq ToSet(s)
<1> DEFINE t == [i \in 1..Len(<<a, b>>) |-> [op |-> "account", name |-> <<a, b>>[i][1], role |-> <<a, b>>[i][2]]]
           u == Find(a[2]) \o Find(b[2])
           s == AccountsAndRoles(<<a, b>>)
<1>1. s = u \o t
  BY DEF AccountsAndRoles
<1>2. a[2] \in RoleNames /\ b[2] \in RoleNames
  BY DEF SeededRoles, RoleNames
<1>3. /\ FindStatement(a[2]) \in Rest /\ FindStatement(b[2]) \in Rest
      /\ AccountStatement(a) \in Rest /\ AccountStatement(b) \in Rest
  BY <1>2 DEF Rest, FindStatements, AccountStatements
<1>4. /\ u \in Seq(Rest) /\ Len(u) = 2
      /\ u[1] = FindStatement(a[2]) /\ u[2] = FindStatement(b[2])
  BY <1>2, FindListed, Joined
<1>5. /\ t \in Seq(Rest) /\ Len(t) = 2
      /\ t[1] = AccountStatement(a) /\ t[2] = AccountStatement(b)
  <2>1. Len(<<a, b>>) = 2
    OBVIOUS
  <2>2. t[1] = AccountStatement(a) /\ t[2] = AccountStatement(b)
    BY <2>1 DEF AccountStatement
  <2>3. t \in [1..2 -> Rest]
    BY <1>3, <2>1, <2>2
  <2> HIDE DEF t
  <2> QED
    BY <2>2, <2>3, Listed
<1> HIDE DEF s, t, u
<1>6. /\ s \in Seq(Rest) /\ Len(s) = 4
      /\ s[1] = FindStatement(a[2]) /\ s[2] = FindStatement(b[2])
      /\ s[3] = AccountStatement(a) /\ s[4] = AccountStatement(b)
  <2>1. /\ s \in Seq(Rest) /\ Len(s) = 4
        /\ \A i \in 1..4 : s[i] = IF i <= 2 THEN u[i] ELSE t[i - 2]
    <3>1. /\ u \o t \in Seq(Rest) /\ Len(u \o t) = Len(u) + Len(t)
          /\ \A i \in 1..(Len(u) + Len(t)) : (u \o t)[i] = IF i <= Len(u) THEN u[i] ELSE t[i - Len(u)]
      BY <1>4, <1>5, Joined
    <3> QED
      BY <1>1, <1>4, <1>5, <3>1
  <2>2. s[1] = u[1] /\ s[2] = u[2] /\ s[3] = t[3 - 2] /\ s[4] = t[4 - 2]
    BY <2>1
  <2> QED
    BY <1>4, <1>5, <2>1, <2>2
<1>7. /\ s[1].op = "find" /\ s[1].role = a[2]
      /\ s[2].op = "find" /\ s[2].role = b[2]
      /\ s[3].op = "account" /\ s[3].role = a[2]
      /\ s[4].op = "account" /\ s[4].role = b[2]
  BY <1>6 DEF FindStatement, AccountStatement
<1>8. ASSUME NEW i \in 1..4, s[i].op \in {"grant", "account"}
      PROVE  \E j \in 1..i-1 : s[j].op = "find" /\ s[j].role = s[i].role
  <2>1. i = 1 \/ i = 2 \/ i = 3 \/ i = 4
    OBVIOUS
  <2>2. i = 3 \/ i = 4
    BY <1>7, <1>8, <2>1
  <2>3. i = 3 => 1 \in 1..i-1
    OBVIOUS
  <2>4. i = 4 => 2 \in 1..i-1
    OBVIOUS
  <2> QED
    BY <1>7, <2>2, <2>3, <2>4
<1>9. FoundFirst(s)
  BY <1>6, <1>8 DEF FoundFirst
<1>10. s[3] \in ToSet(s) /\ s[4] \in ToSet(s)
  BY <1>6 DEF ToSet
<1> QED
  BY <1>6, <1>9, <1>10 DEF s

\* The first script creates the four roles.
LEMMA RoleSeedListed == RolesFirst(RoleSeed) /\ FoundFirst(RoleSeed) /\ Len(RoleSeed) = 4
<1>1. Roles \in Seq(RoleNames) /\ Len(Roles) = 4
  BY RolesListed
<1>2. RoleSeed \in [1..4 -> AnyStatement] /\ \A i \in 1..4 : RoleSeed[i] = RoleStatement(i)
  BY <1>1 DEF RoleSeed, RoleStatement, AnyStatement, RoleStatements
<1>3. RoleSeed \in Seq(AnyStatement) /\ Len(RoleSeed) = 4
  BY <1>2, Listed
<1>4. \A i \in 1..4 : RoleSeed[i].op = "role"
  BY <1>2 DEF RoleStatement
<1> QED
  BY <1>2, <1>3, <1>4 DEF RolesFirst, FoundFirst

\* The second script creates permissions and gives each role its own.
LEMMA PermissionSeedListed ==
    /\ PermissionSeed \in Seq(Rest)
    /\ FoundFirst(PermissionSeed)
    /\ \A role \in RoleNames : \A p \in Granted(role) : GrantStatement(role, p) \in ToSet(PermissionSeed)
<1> DEFINE n == Len(SeededPermissions)
           t == [i \in 1..n |-> [op |-> "permission", permission |-> SeededPermissions[i]]]
<1>1. n \in Nat /\ \A i \in 1..n : SeededPermissions[i] \in ToSet(SeededPermissions)
  BY PermissionsListed DEF ToSet
<1>2. t \in [1..n -> Rest]
  BY <1>1 DEF Rest, PermissionStatements
<1>3. \A i \in 1..n : t[i].op = "permission"
  OBVIOUS
<1>4. PermissionSeed = t \o Grants("SUPER_ADMIN") \o Grants("ADMIN") \o Grants("USER")
  BY DEF PermissionSeed
<1> HIDE DEF n, t
<1>5. t \in Seq(Rest) /\ Len(t) = n
  BY <1>1, <1>2, Listed
<1>6. FoundFirst(t)
  BY <1>3, <1>5 DEF FoundFirst
<1>7. "SUPER_ADMIN" \in RoleNames /\ "ADMIN" \in RoleNames /\ "USER" \in RoleNames
  BY DEF RoleNames
<1>8. ASSUME NEW s \in Seq(Rest), NEW role \in RoleNames, FoundFirst(s)
      PROVE  /\ s \o Grants(role) \in Seq(Rest)
             /\ FoundFirst(s \o Grants(role))
             /\ ToSet(s \o Grants(role)) = ToSet(s) \cup ToSet(Grants(role))
  BY <1>8, GrantsListed, Joined, FoundFirstJoined
<1> DEFINE t1 == t \o Grants("SUPER_ADMIN")
           t2 == t1 \o Grants("ADMIN")
           t3 == t2 \o Grants("USER")
<1>9. /\ t1 \in Seq(Rest) /\ FoundFirst(t1)
      /\ ToSet(t1) = ToSet(t) \cup ToSet(Grants("SUPER_ADMIN"))
  BY <1>5, <1>6, <1>7, <1>8
<1>10. t3 = PermissionSeed
  BY <1>4
<1> HIDE DEF t1
<1>11. /\ t2 \in Seq(Rest) /\ FoundFirst(t2)
       /\ ToSet(t2) = ToSet(t1) \cup ToSet(Grants("ADMIN"))
  BY <1>7, <1>8, <1>9
<1> HIDE DEF t2
<1>12. /\ t3 \in Seq(Rest) /\ FoundFirst(t3)
       /\ ToSet(t3) = ToSet(t2) \cup ToSet(Grants("USER"))
  BY <1>7, <1>8, <1>11
<1> HIDE DEF t3
<1>13. Granted("PREMIUM_USER") = {}
  <2>1. DOMAIN <<>> = {}
    OBVIOUS
  <2> QED
    BY <2>1 DEF Granted, GrantedTo, ToSet
<1>14. ASSUME NEW role \in RoleNames, NEW p \in Granted(role)
       PROVE  GrantStatement(role, p) \in ToSet(t3)
  <2>1. role \in {"SUPER_ADMIN", "ADMIN", "USER"}
    BY <1>13 DEF RoleNames
  <2>2. GrantStatement(role, p) \in ToSet(Grants(role))
    BY GrantsListed
  <2> QED
    BY <1>9, <1>11, <1>12, <2>1, <2>2
<1> QED
  BY <1>10, <1>12, <1>14

\* The scripts together: roles first, lookups ahead of what needs them, all grants
\* and all accounts.
LEMMA StatementsListed ==
    /\ RolesFirst(Statements)
    /\ FoundFirst(Statements)
    /\ \A role \in RoleNames : \A p \in Granted(role) : GrantStatement(role, p) \in ToSet(Statements)
    /\ \A a \in SeededRoles : AccountStatement(a) \in ToSet(Statements)
<1>1. /\ UserSeed \in Seq(Rest) /\ FoundFirst(UserSeed)
      /\ {AccountStatement(<<"user1", "USER">>), AccountStatement(<<"premium", "PREMIUM_USER">>)} \subseteq ToSet(UserSeed)
  <2>1. <<"user1", "USER">> \in SeededRoles /\ <<"premium", "PREMIUM_USER">> \in SeededRoles
    BY DEF SeededRoles
  <2> QED
    BY <2>1, AccountsAndRolesListed DEF UserSeed, SeededUsers
<1>2. /\ AdminSeed \in Seq(Rest) /\ FoundFirst(AdminSeed)
      /\ {AccountStatement(<<"superadmin", "SUPER_ADMIN">>), AccountStatement(<<"admin01", "ADMIN">>)} \subseteq ToSet(AdminSeed)
  <2>1. <<"superadmin", "SUPER_ADMIN">> \in SeededRoles /\ <<"admin01", "ADMIN">> \in SeededRoles
    BY DEF SeededRoles
  <2> QED
    BY <2>1, AccountsAndRolesListed DEF AdminSeed, SeededAdmins
<1>3. ASSUME NEW s, NEW t \in Seq(Rest), RolesFirst(s), FoundFirst(s), FoundFirst(t)
      PROVE  /\ RolesFirst(s \o t) /\ FoundFirst(s \o t)
             /\ ToSet(s \o t) = ToSet(s) \cup ToSet(t)
  <2>1. s \in Seq(AnyStatement) /\ t \in Seq(AnyStatement)
    BY <1>3 DEF RolesFirst, AnyStatement
  <2> QED
    BY <1>3, <2>1, RolesFirstJoined, FoundFirstJoined, Joined
<1> DEFINE s1 == RoleSeed \o PermissionSeed
           s2 == s1 \o UserSeed
           s3 == s2 \o AdminSeed
<1>4. s3 = Statements
  BY DEF Statements
<1>5. /\ RolesFirst(s1) /\ FoundFirst(s1)
      /\ ToSet(s1) = ToSet(RoleSeed) \cup ToSet(PermissionSeed)
  BY <1>3, RoleSeedListed, PermissionSeedListed
<1> HIDE DEF s1
<1>6. RolesFirst(s2) /\ FoundFirst(s2) /\ ToSet(s2) = ToSet(s1) \cup ToSet(UserSeed)
  BY <1>1, <1>3, <1>5
<1> HIDE DEF s2
<1>7. RolesFirst(s3) /\ FoundFirst(s3) /\ ToSet(s3) = ToSet(s2) \cup ToSet(AdminSeed)
  BY <1>2, <1>3, <1>6
<1> HIDE DEF s3
<1>8. \A role \in RoleNames : \A p \in Granted(role) : GrantStatement(role, p) \in ToSet(s3)
  BY <1>5, <1>6, <1>7, PermissionSeedListed
<1>9. \A a \in SeededRoles : AccountStatement(a) \in ToSet(s3)
  BY <1>1, <1>2, <1>6, <1>7 DEF SeededRoles
<1> QED
  BY <1>4, <1>7, <1>8, <1>9

-----------------------------------------------------------------------------
(* What the scripts have written is what the tables say *)

\* The types of the state of a run.
SeedTypes ==
    /\ at \in 0..Len(Statements)
    /\ finished \in BOOLEAN
    /\ nextId \in Nat \ {0}
    /\ lost \in Nat
    /\ found \in [RoleNames -> Nat]

\* The rows of role have the ids of the sequence and the names of the table.
RolesWritten ==
    /\ roles \subseteq (1..nextId-1) \X RoleNames
    /\ \A r, s \in roles : r[1] = s[1] => r = s

\* What a run has found are rows.
FoundReal == \A role \in RoleNames : found[role] = 0 \/ <<found[role], role>> \in roles

\* A grant belongs to the role of its id, and so does the role of an account.
GrantsSeeded ==
    \A g \in rolePermissions :
      \E role \in RoleNames : <<g[1], role>> \in roles /\ g[2] \in Granted(role)

\* A role that an account has is the one the script gives it.
AccountsSeeded ==
    \A ar \in accountRoles :
      \E role \in RoleNames : <<ar[2], role>> \in roles /\ <<ar[1], role>> \in SeededRoles

\* What holds in every state, half seeded or with ids lost.
Confined == SeedTypes /\ RolesWritten /\ FoundReal /\ GrantsSeeded /\ AccountsSeeded

-----------------------------------------------------------------------------
(* A run that goes on has done what it is past *)

\* Without lost ids every role has the id it should have.
RolesInPlace ==
    /\ nextId <= 5
    /\ roles = {<<i, Roles[i]>> : i \in 1..nextId-1}

\* What a statement leaves when it is done.
Done(s) ==
    \/ s.op = "permission"
    \/ s.op = "role" /\ s.id < nextId
    \/ s.op = "find" /\ found[s.role] # 0
    \/ s.op = "grant" /\ \E id \in 1..4 : <<id, s.role>> \in roles /\ <<id, s.permission>> \in rolePermissions
    \/ s.op = "account" /\ \E id \in 1..4 : <<id, s.role>> \in roles /\ <<s.name, id>> \in accountRoles

\* Unless an id was lost, what a run is past is done, and everything once one has
\* got to its end; lookups are of a run only.
Progress ==
    lost = 0 =>
      /\ RolesInPlace
      /\ \A i \in 1..at-1 : Done(Statements[i])
      /\ finished =>
           \A i \in 1..Len(Statements) : Statements[i].op # "find" => Done(Statements[i])

\* The invariant of the scripts.
SeedInv == Confined /\ Progress

\* The statement of a run is one of the tables; the roles' come first.
LEMMA AtStatement ==
    ASSUME SeedTypes, at > 0
    PROVE  /\ at \in 1..Len(Statements)
           /\ Statements[at] \in AnyStatement
           /\ at <= 4 => Statements[at] = RoleStatement(at) /\ Statements[at].op = "role"
           /\ at > 4 => Statements[at] \in Rest /\ Statements[at].op # "role"
           /\ Len(Statements) \in Nat /\ Len(Statements) >= 4
<1>1. /\ Statements \in Seq(AnyStatement)
      /\ Len(Statements) >= 4
      /\ \A i \in 1..4 : Statements[i] = RoleStatement(i)
      /\ \A i \in 5..Len(Statements) : Statements[i] \in Rest
  BY StatementsListed DEF RolesFirst
<1>2. Len(Statements) \in Nat /\ at \in 1..Len(Statements)
  BY <1>1 DEF SeedTypes
<1>3. Statements[at] \in AnyStatement
  BY <1>1, <1>2
<1>4. at <= 4 => Statements[at] = RoleStatement(at) /\ Statements[at].op = "role"
  BY <1>1, <1>2 DEF RoleStatement
<1>5. at > 4 => Statements[at] \in Rest
  BY <1>1, <1>2
<1>6. Statements[at] \in Rest => Statements[at].op # "role"
  BY RestOp DEF Rest, PermissionStatements, FindStatements, GrantStatements, AccountStatements, FindStatement, GrantStatement, AccountStatement
<1> QED
  BY <1>1, <1>2, <1>3, <1>4, <1>5, <1>6

\* Nothing is written at first.
LEMMA SeedInvInit == SeedInit => SeedInv
<1> SUFFICES ASSUME SeedInit
             PROVE  SeedInv
  OBVIOUS
<1>1. Len(Statements) \in Nat /\ Len(Statements) >= 4
  BY StatementsListed DEF RolesFirst
<1>2. found = [r \in RoleNames |-> 0]
  BY RolesListed DEF SeedInit, NoneFound
<1>3. Confined
  <2>1. SeedTypes
    <3>1. found \in [RoleNames -> Nat]
      BY <1>2
    <3>2. at \in 0..Len(Statements)
      BY <1>1 DEF SeedInit
    <3>3. nextId \in Nat \ {0} /\ lost \in Nat
      BY DEF SeedInit
    <3>4. finished \in BOOLEAN
      BY DEF SeedInit
    <3> QED
      BY <3>1, <3>2, <3>3, <3>4 DEF SeedTypes
  <2>2. RolesWritten /\ GrantsSeeded /\ AccountsSeeded
    BY DEF SeedInit, RolesWritten, GrantsSeeded, AccountsSeeded
  <2>3. FoundReal
    BY <1>2 DEF FoundReal
  <2> QED
    BY <2>1, <2>2, <2>3 DEF Confined
<1>4. Progress
  BY DEF SeedInit, Progress, RolesInPlace
<1> QED
  BY <1>3, <1>4 DEF SeedInv

\* A statement that is done leaves the run at the next one, or at its end.
LEMMA AdvanceTypes ==
    ASSUME SeedTypes, at > 0, Advance
    PROVE  at' \in 0..Len(Statements) /\ finished' \in BOOLEAN
BY AtStatement DEF Advance, SeedTypes

\* No statement writes what the tables do not have.
LEMMA ConfinedStep ==
    ASSUME Confined, [SeedNext]_seedVars
    PROVE  Confined'
<1> USE DEF Confined
<1>1. CASE StartRun
  <2>1. SeedTypes'
    BY <1>1, RolesListed, StatementsListed DEF StartRun, SeedTypes, NoneFound, RolesFirst
  <2>2. RolesWritten' /\ GrantsSeeded' /\ AccountsSeeded'
    BY <1>1 DEF StartRun, RolesWritten, GrantsSeeded, AccountsSeeded
  <2>3. FoundReal'
    BY <1>1, RolesListed DEF StartRun, FoundReal, NoneFound
  <2> QED
    BY <2>1, <2>2, <2>3
<1>2. CASE UpsertRole
  <2>1. Statements[at].role \in RoleNames
    BY <1>2, AtStatement, RestOp DEF UpsertRole, Is
  <2>2. SeedTypes'
    BY <1>2, AdvanceTypes DEF UpsertRole, Is, SeedTypes
  <2>3. roles \subseteq roles'
    BY <1>2 DEF UpsertRole
  <2>4. RolesWritten'
    <3>1. CASE UNCHANGED <<roles, nextId>>
      BY <3>1 DEF RolesWritten
    <3>2. CASE roles' = roles \cup {<<nextId, Statements[at].role>>} /\ nextId' = nextId + 1
      <4>1. nextId \in Nat \ {0}
        BY DEF SeedTypes
      <4>2. \A r \in roles : r \in (1..nextId'-1) \X RoleNames /\ r[1] # nextId
        BY <3>2, <4>1 DEF RolesWritten
      <4>3. <<nextId, Statements[at].role>> \in (1..nextId'-1) \X RoleNames
        BY <2>1, <3>2, <4>1
      <4> QED
        BY <3>2, <4>2, <4>3 DEF RolesWritten
    <3> QED
      BY <1>2, <3>1, <3>2 DEF UpsertRole
  <2>5. FoundReal' /\ GrantsSeeded' /\ AccountsSeeded'
    BY <1>2, <2>3 DEF UpsertRole, FoundReal, GrantsSeeded, AccountsSeeded
  <2> QED
    BY <2>2, <2>4, <2>5
<1>3. CASE LoseRoleId
  <2>1. SeedTypes'
    BY <1>3, StatementsListed DEF LoseRoleId, SeedTypes, RolesFirst
  <2>2. RolesWritten'
    BY <1>3 DEF LoseRoleId, RolesWritten, SeedTypes
  <2>3. FoundReal' /\ GrantsSeeded' /\ AccountsSeeded'
    BY <1>3 DEF LoseRoleId, FoundReal, GrantsSeeded, AccountsSeeded
  <2> QED
    BY <2>1, <2>2, <2>3
<1>4. CASE UpsertPermission
  <2>1. SeedTypes'
    BY <1>4, AdvanceTypes DEF UpsertPermission, Is, SeedTypes
  <2>2. RolesWritten' /\ FoundReal' /\ GrantsSeeded' /\ AccountsSeeded'
    BY <1>4 DEF UpsertPermission, RolesWritten, FoundReal, GrantsSeeded, AccountsSeeded
  <2> QED
    BY <2>1, <2>2
<1>5. CASE FindRole
  <2> DEFINE role == Statements[at].role
             ids == IdsOf(role)
  <2>1. role \in RoleNames
    BY <1>5, AtStatement, RestOp DEF FindRole, Is
  <2>2. PICK id \in (IF ids = {} THEN {0} ELSE ids) : found' = [found EXCEPT ![role] = id]
    BY <1>5 DEF FindRole
  <2>3. id = 0 \/ <<id, role>> \in roles
    BY <2>2 DEF IdsOf, RolesWritten
  <2>4. id \in Nat
    BY <2>3 DEF RolesWritten
  <2>5. SeedTypes'
    BY <1>5, <2>1, <2>2, <2>4, AdvanceTypes DEF FindRole, Is, SeedTypes
  <2>6. FoundReal'
    BY <1>5, <2>1, <2>2, <2>3 DEF FindRole, FoundReal, SeedTypes
  <2>7. RolesWritten' /\ GrantsSeeded' /\ AccountsSeeded'
    BY <1>5 DEF FindRole, RolesWritten, GrantsSeeded, AccountsSeeded
  <2> QED
    BY <2>5, <2>6, <2>7
<1>6. CASE GrantPermission
  <2> DEFINE s == Statements[at]
  <2>1. s.role \in RoleNames /\ s.permission \in Granted(s.role)
    BY <1>6, AtStatement, RestOp DEF GrantPermission, Is
  <2>2. SeedTypes' /\ RolesWritten' /\ FoundReal' /\ AccountsSeeded'
    BY <1>6, AdvanceTypes DEF GrantPermission, Is, SeedTypes, RolesWritten, FoundReal, AccountsSeeded
  <2>3. GrantsSeeded'
    <3>1. CASE rolePermissions' = rolePermissions
      BY <1>6, <3>1 DEF GrantPermission, GrantsSeeded
    <3>2. CASE /\ found[s.role] # 0
               /\ rolePermissions' = rolePermissions \cup {<<found[s.role], s.permission>>}
      <4>1. <<found[s.role], s.role>> \in roles
        BY <2>1, <3>2 DEF FoundReal
      <4> QED
        BY <1>6, <2>1, <3>2, <4>1 DEF GrantPermission, GrantsSeeded
    <3> QED
      BY <1>6, <3>1, <3>2 DEF GrantPermission
  <2> QED
    BY <2>2, <2>3
<1>7. CASE UpsertAccount
  <2> DEFINE s == Statements[at]
  <2>1. s.role \in RoleNames /\ <<s.name, s.role>> \in SeededRoles
    BY <1>7, AtStatement, RestOp DEF UpsertAccount, Is
  <2>2. SeedTypes' /\ RolesWritten' /\ FoundReal' /\ GrantsSeeded'
    BY <1>7, AdvanceTypes DEF UpsertAccount, Is, SeedTypes, RolesWritten, FoundReal, GrantsSeeded
  <2>3. AccountsSeeded'
    <3>1. CASE accountRoles' = accountRoles
      BY <1>7, <3>1 DEF UpsertAccount, AccountsSeeded
    <3>2. CASE /\ found[s.role] # 0
               /\ accountRoles' = accountRoles \cup {<<s.name, found[s.role]>>}
      <4>1. <<found[s.role], s.role>> \in roles
        BY <2>1, <3>2 DEF FoundReal
      <4> QED
        BY <1>7, <2>1, <3>2, <4>1 DEF UpsertAccount, AccountsSeeded
    <3> QED
      BY <1>7, <3>1, <3>2 DEF UpsertAccount
  <2> QED
    BY <2>2, <2>3
<1>8. CASE RunDies
  <2>1. SeedTypes'
    BY <1>8, StatementsListed DEF RunDies, SeedTypes, RolesFirst
  <2>2. RolesWritten' /\ FoundReal' /\ GrantsSeeded' /\ AccountsSeeded'
    BY <1>8 DEF RunDies, RolesWritten, FoundReal, GrantsSeeded, AccountsSeeded
  <2> QED
    BY <2>1, <2>2
<1>9. CASE UNCHANGED seedVars
  BY <1>9 DEF seedVars, SeedTypes, RolesWritten, FoundReal, GrantsSeeded, AccountsSeeded
<1> QED
  BY <1>1, <1>2, <1>3, <1>4, <1>5, <1>6, <1>7, <1>8, <1>9 DEF SeedNext

-----------------------------------------------------------------------------
(* A statement that is done stays done *)

\* Nothing is taken away, and no role that was found is lost sight of.
Kept ==
    /\ nextId <= nextId'
    /\ roles \subseteq roles'
    /\ rolePermissions \subseteq rolePermissions'
    /\ accountRoles \subseteq accountRoles'

\* A statement that is done stays done while rows are only added.
LEMMA DoneKept ==
    ASSUME SeedTypes, SeedTypes', Kept, NEW s \in AnyStatement, Done(s),
           s.op = "find" => found'[s.role] # 0
    PROVE  Done(s)'
<1>1. CASE s.op = "permission"
  BY <1>1 DEF Done
<1>2. CASE s.op = "role" /\ s.id < nextId
  <2>1. s.id \in Nat
    BY <1>2, RestOp
  <2>2. s.id < nextId'
    BY <1>2, <2>1 DEF Kept, SeedTypes
  <2> QED
    BY <1>2, <2>2 DEF Done
<1>3. CASE s.op = "find"
  BY <1>3 DEF Done
<1>4. CASE /\ s.op = "grant"
           /\ \E id \in 1..4 : <<id, s.role>> \in roles /\ <<id, s.permission>> \in rolePermissions
  BY <1>4 DEF Done, Kept
<1>5. CASE /\ s.op = "account"
           /\ \E id \in 1..4 : <<id, s.role>> \in roles /\ <<s.name, id>> \in accountRoles
  BY <1>5 DEF Done, Kept
<1> QED
  BY <1>1, <1>2, <1>3, <1>4, <1>5 DEF Done

\* A run that does its statement and goes to the next one is past it.
LEMMA AdvanceProgress ==
    ASSUME SeedTypes, SeedTypes', Progress, at > 0, Advance, Kept,
           lost' = 0 => lost = 0 /\ RolesInPlace' /\ \A s : s = Statements[at] => Done(s)',
           \A role \in RoleNames : found[role] # 0 => found'[role] # 0
    PROVE  Progress'
<1> SUFFICES ASSUME lost' = 0
             PROVE  /\ RolesInPlace'
                    /\ \A i \in 1..at'-1 : Done(Statements[i])'
                    /\ finished' =>
                         \A i \in 1..Len(Statements) : Statements[i].op # "find" => Done(Statements[i])'
  BY DEF Progress
<1>1. lost = 0 /\ RolesInPlace' /\ \A s : s = Statements[at] => Done(s)'
  OBVIOUS
<1>2. /\ Statements \in Seq(AnyStatement) /\ Len(Statements) \in Nat
      /\ at \in 1..Len(Statements)
  BY AtStatement, StatementsListed DEF RolesFirst
<1>3. \A i \in 1..Len(Statements) : Statements[i] \in AnyStatement
  BY <1>2
<1>4. ASSUME NEW i \in 1..Len(Statements), Done(Statements[i])
      PROVE  Done(Statements[i])'
  <2> DEFINE s == Statements[i]
  <2>1. s \in AnyStatement
    BY <1>3
  <2>2. ASSUME s.op = "find" PROVE found'[s.role] # 0
    BY <1>4, <2>1, <2>2, RestOp DEF Done
  <2> HIDE DEF s
  <2>3. Done(s)
    BY <1>4 DEF s
  <2>4. Done(s)'
    BY <2>1, <2>2, <2>3, DoneKept
  <2> QED
    BY <2>4 DEF s
<1>5. \A i \in 1..at : Done(Statements[i])'
  <2> TAKE i \in 1..at
  <2>1. i \in 1..Len(Statements) /\ (i = at \/ i \in 1..at-1)
    BY <1>2
  <2>2. i \in 1..at-1 => Done(Statements[i])
    BY <1>1 DEF Progress
  <2> QED
    BY <1>1, <1>4, <2>1, <2>2
<1>6. \A i \in 1..at'-1 : Done(Statements[i])'
  <2>1. \A i \in 1..at'-1 : i \in 1..at
    BY <1>2 DEF Advance
  <2> QED
    BY <1>5, <2>1
<1>7. finished' =>
        \A i \in 1..Len(Statements) : Statements[i].op # "find" => Done(Statements[i])'
  <2>1. CASE finished
    BY <1>1, <1>4, <2>1 DEF Progress
  <2>2. CASE at = Len(Statements)
    BY <1>5, <2>2
  <2> QED
    BY <2>1, <2>2 DEF Advance
<1> QED
  BY <1>1, <1>6, <1>7

\* Past the first statements every role has its row, the one of its place.
LEMMA RolesThere ==
    ASSUME Confined, RolesInPlace, Done(RoleStatement(4))
    PROVE  /\ roles = {<<i, Roles[i]>> : i \in 1..4}
           /\ \A i \in 1..4 : <<i, Roles[i]>> \in roles
           /\ \A id, role : <<id, role>> \in roles => id \in 1..4 /\ role = Roles[id]
           /\ \A role \in RoleNames : \E i \in 1..4 : <<i, role>> \in roles
           /\ nextId = 5
<1>1. nextId = 5
  BY DEF Done, RoleStatement, RolesInPlace, Confined, SeedTypes
<1>2. roles = {<<i, Roles[i]>> : i \in 1..4}
  BY <1>1 DEF RolesInPlace
<1> QED
  BY <1>1, <1>2, RolesListed

\* A run is past the roles before it looks for one, and past looking for one before
\* it grants it anything or gives it to an account.
LEMMA PastRoles ==
    ASSUME Confined, Progress, lost = 0, at > 4
    PROVE  Done(RoleStatement(4))
<1>1. 4 \in 1..at-1 /\ Statements[4] = RoleStatement(4)
  BY StatementsListed DEF RolesFirst, Confined, SeedTypes
<1> QED
  BY <1>1 DEF Progress

\* A run that comes to a grant or an account has found its role.
LEMMA PastFind ==
    ASSUME Confined, Progress, lost = 0, at > 0, Statements[at].op \in {"grant", "account"}
    PROVE  /\ at > 4
           /\ found[Statements[at].role] # 0
           /\ found[Statements[at].role] \in 1..4
           /\ <<found[Statements[at].role], Statements[at].role>> \in roles
<1> DEFINE role == Statements[at].role
<1>1. at \in 1..Len(Statements) /\ Statements[at] \in AnyStatement
  BY AtStatement DEF Confined
<1>2. role \in RoleNames
  BY <1>1, RestOp
<1>3. at > 4
  <2>1. at <= 4 \/ at > 4
    BY <1>1
  <2> QED
    BY <2>1, AtStatement DEF Confined
<1>4. PICK j \in 1..at-1 : Statements[j].op = "find" /\ Statements[j].role = role
  BY <1>1, StatementsListed DEF FoundFirst
<1>5. found[role] # 0
  BY <1>4 DEF Progress, Done
<1>6. <<found[role], role>> \in roles
  BY <1>2, <1>5 DEF Confined, FoundReal
<1>7. RolesInPlace
  BY DEF Progress
<1>8. found[role] \in 1..4
  BY <1>3, <1>6, <1>7, PastRoles, RolesThere
<1> QED
  BY <1>3, <1>5, <1>6, <1>8

\* Every step of a run is progress, unless it gives the run up.
LEMMA ProgressStep ==
    ASSUME Confined, Confined', Progress, [SeedNext]_seedVars
    PROVE  Progress'
<1>0. SeedTypes /\ SeedTypes' /\ RolesWritten
  BY DEF Confined
<1>1. CASE StartRun
  <2>1. at' = 1 /\ UNCHANGED <<lost, finished, nextId, roles, rolePermissions, accountRoles>>
    BY <1>1 DEF StartRun
  <2>2. \A s : s.op # "find" /\ Done(s) => Done(s)'
    BY <2>1 DEF Done
  <2>3. 1..at'-1 = {}
    BY <2>1
  <2> QED
    BY <2>1, <2>2, <2>3 DEF Progress, RolesInPlace
<1>2. CASE UpsertRole
  <2> USE <1>2
  <2>1. at > 0 /\ Advance /\ lost' = lost /\ found' = found
    BY DEF UpsertRole, Is
  <2>2. Kept
    <3>1. nextId \in Nat
      BY <1>0 DEF SeedTypes
    <3>2. CASE UNCHANGED <<roles, nextId>>
      BY <3>1, <3>2 DEF UpsertRole, Kept
    <3>3. CASE roles' = roles \cup {<<nextId, Statements[at].role>>} /\ nextId' = nextId + 1
      BY <3>1, <3>3 DEF UpsertRole, Kept
    <3> QED
      BY <3>2, <3>3 DEF UpsertRole
  <2>3. ASSUME lost' = 0
        PROVE  lost = 0 /\ RolesInPlace' /\ \A x : x = Statements[at] => Done(x)'
    <3>1. lost = 0 /\ RolesInPlace
      BY <2>1, <2>3 DEF Progress
    <3>2. at \in 1..4
      BY <1>0, <2>1, AtStatement DEF UpsertRole, Is
    <3>3. Statements[at] = RoleStatement(at)
      BY <1>0, <2>1, <3>2, AtStatement
    <3>4. nextId >= at /\ nextId \in Nat /\ nextId <= 5
      <4>1. nextId \in Nat \ {0} /\ nextId <= 5
        BY <1>0, <3>1 DEF SeedTypes, RolesInPlace
      <4>2. CASE at = 1
        BY <4>1, <4>2
      <4>3. CASE at # 1
        <5>1. at - 1 \in 1..at-1 /\ at - 1 \in 1..4
          BY <3>2, <4>3
        <5>2. Statements[at - 1] = RoleStatement(at - 1)
          BY <5>1, StatementsListed DEF RolesFirst
        <5>3. Done(RoleStatement(at - 1))
          BY <3>1, <5>1, <5>2 DEF Progress
        <5>4. at - 1 < nextId
          BY <5>3 DEF Done, RoleStatement
        <5> QED
          BY <3>2, <4>1, <5>4
      <4> QED
        BY <4>2, <4>3
    <3>5. Statements[at].id = at /\ Statements[at].role = Roles[at]
      BY <3>3 DEF RoleStatement
    <3>6. CASE \E r \in roles : r[1] = at
      <4>1. at < nextId
        BY <3>1, <3>2, <3>4, <3>6 DEF RolesInPlace
      <4>2. UNCHANGED <<roles, nextId>>
        BY <3>5, <3>6 DEF UpsertRole
      <4>3. \A x : x = Statements[at] => x.op = "role" /\ x.id < nextId'
        BY <3>3, <4>1, <4>2 DEF RoleStatement
      <4>4. \A x : x = Statements[at] => Done(x)'
        BY <4>3 DEF Done
      <4> QED
        BY <3>1, <4>2, <4>4 DEF RolesInPlace
    <3>7. CASE ~ \E r \in roles : r[1] = at
      <4>1. ~ (at < nextId)
        <5>1. at < nextId => at \in 1..nextId-1
          BY <3>2, <3>4
        <5>2. at \in 1..nextId-1 => <<at, Roles[at]>> \in roles
          BY <3>1 DEF RolesInPlace
        <5> QED
          BY <3>7, <5>1, <5>2
      <4>2. nextId = at
        BY <3>2, <3>4, <4>1
      <4>3. roles' = roles \cup {<<at, Roles[at]>>} /\ nextId' = at + 1
        BY <3>5, <3>7, <4>2 DEF UpsertRole
      <4>4. 1..nextId'-1 = (1..nextId-1) \cup {at}
        BY <3>2, <4>2, <4>3
      <4>5. RolesInPlace'
        BY <3>1, <3>2, <4>3, <4>4 DEF RolesInPlace
      <4>6. \A x : x = Statements[at] => x.op = "role" /\ x.id < nextId'
        BY <3>2, <3>3, <4>3 DEF RoleStatement
      <4>7. \A x : x = Statements[at] => Done(x)'
        BY <4>6 DEF Done
      <4> QED
        BY <3>1, <4>5, <4>7
    <3> QED
      BY <3>6, <3>7
  <2> QED
    BY <1>0, <2>1, <2>2, <2>3, AdvanceProgress
<1>3. CASE LoseRoleId
  <2>1. lost \in Nat /\ lost' = lost + 1
    BY <1>0, <1>3 DEF LoseRoleId, SeedTypes
  <2> QED
    BY <2>1 DEF Progress
<1>4. CASE UpsertPermission
  <2> USE <1>4
  <2>1. at > 0 /\ Advance /\ lost' = lost /\ found' = found /\ UNCHANGED <<roles, nextId>>
    BY DEF UpsertPermission, Is
  <2>2. Kept
    BY <1>0 DEF UpsertPermission, Kept, SeedTypes
  <2>3. ASSUME lost' = 0
        PROVE  lost = 0 /\ RolesInPlace' /\ \A x : x = Statements[at] => Done(x)'
    <3>1. \A x : x = Statements[at] => Done(x)'
      BY DEF UpsertPermission, Is, Done
    <3> QED
      BY <2>1, <2>3, <3>1 DEF Progress, RolesInPlace
  <2> QED
    BY <1>0, <2>1, <2>2, <2>3, AdvanceProgress
<1>5. CASE FindRole
  <2> USE <1>5
  <2> DEFINE role == Statements[at].role
             ids == IdsOf(role)
  <2>1. at > 0 /\ Advance /\ lost' = lost /\ UNCHANGED <<roles, nextId>> /\ Statements[at].op = "find"
    BY DEF FindRole, Is
  <2>2. Kept
    BY <1>0 DEF FindRole, Kept, SeedTypes
  <2>3. role \in RoleNames
    BY <1>0, <2>1, AtStatement, RestOp
  <2>4. PICK id \in (IF ids = {} THEN {0} ELSE ids) : found' = [found EXCEPT ![role] = id]
    BY DEF FindRole
  <2>5. id # 0 => found'[role] # 0 /\ \A r \in RoleNames : found[r] # 0 => found'[r] # 0
    BY <1>0, <2>3, <2>4 DEF SeedTypes
  <2>6. ids # {} => id # 0
    BY <1>0, <2>4 DEF IdsOf, RolesWritten, SeedTypes
  <2>7. found[role] # 0 => ids # {}
    <3>1. found[role] # 0 => <<found[role], role>> \in roles
      BY <2>3 DEF Confined, FoundReal
    <3> QED
      BY <3>1 DEF IdsOf
  <2>8. \A r \in RoleNames : found[r] # 0 => found'[r] # 0
    BY <1>0, <2>3, <2>4, <2>5, <2>6, <2>7 DEF SeedTypes
  <2>9. ASSUME lost' = 0
        PROVE  lost = 0 /\ RolesInPlace' /\ \A x : x = Statements[at] => Done(x)'
    <3>1. lost = 0 /\ RolesInPlace
      BY <2>1, <2>9 DEF Progress
    <3>2. at > 4
      <4>1. at \in Nat
        BY <1>0, <2>1, AtStatement
      <4> QED
        BY <1>0, <2>1, <4>1, AtStatement
    <3>3. \E i \in 1..4 : <<i, role>> \in roles
      BY <2>3, <3>1, <3>2, PastRoles, RolesThere
    <3>4. ids # {}
      BY <3>3 DEF IdsOf
    <3>5. found'[role] # 0
      BY <2>5, <2>6, <3>4
    <3> QED
      <4>1. \A x : x = Statements[at] => Done(x)'
        BY <2>1, <3>5 DEF Done
      <4> QED
        BY <2>1, <3>1, <4>1 DEF RolesInPlace
  <2> QED
    BY <1>0, <2>1, <2>2, <2>8, <2>9, AdvanceProgress
<1>6. CASE GrantPermission
  <2> USE <1>6
  <2> DEFINE s == Statements[at]
  <2>1. at > 0 /\ Advance /\ lost' = lost /\ found' = found /\ UNCHANGED <<roles, nextId>> /\ s.op = "grant"
    BY DEF GrantPermission, Is
  <2>2. Kept
    BY <1>0 DEF GrantPermission, Kept, SeedTypes
  <2>3. ASSUME lost' = 0
        PROVE  lost = 0 /\ RolesInPlace' /\ \A x : x = s => Done(x)'
    <3>1. lost = 0 /\ RolesInPlace
      BY <2>1, <2>3 DEF Progress
    <3>2. found[s.role] # 0 /\ found[s.role] \in 1..4 /\ <<found[s.role], s.role>> \in roles
      BY <2>1, <3>1, PastFind
    <3>3. <<found[s.role], s.permission>> \in rolePermissions'
      BY <3>2 DEF GrantPermission
    <3> QED
      <4>1. \A x : x = s => Done(x)'
        BY <2>1, <3>2, <3>3 DEF Done
      <4> QED
        BY <2>1, <3>1, <4>1 DEF RolesInPlace
  <2> QED
    BY <1>0, <2>1, <2>2, <2>3, AdvanceProgress
<1>7. CASE UpsertAccount
  <2> USE <1>7
  <2> DEFINE s == Statements[at]
  <2>1. at > 0 /\ Advance /\ lost' = lost /\ found' = found /\ UNCHANGED <<roles, nextId>> /\ s.op = "account"
    BY DEF UpsertAccount, Is
  <2>2. Kept
    BY <1>0 DEF UpsertAccount, Kept, SeedTypes
  <2>3. ASSUME lost' = 0
        PROVE  lost = 0 /\ RolesInPlace' /\ \A x : x = s => Done(x)'
    <3>1. lost = 0 /\ RolesInPlace
      BY <2>1, <2>3 DEF Progress
    <3>2. found[s.role] # 0 /\ found[s.role] \in 1..4 /\ <<found[s.role], s.role>> \in roles
      BY <2>1, <3>1, PastFind
    <3>3. <<s.name, found[s.role]>> \in accountRoles'
      BY <3>2 DEF UpsertAccount
    <3> QED
      <4>1. \A x : x = s => Done(x)'
        BY <2>1, <3>2, <3>3 DEF Done
      <4> QED
        BY <2>1, <3>1, <4>1 DEF RolesInPlace
  <2> QED
    BY <1>0, <2>1, <2>2, <2>3, AdvanceProgress
<1>8. CASE RunDies
  <2>1. at' = 0 /\ UNCHANGED <<lost, finished, nextId, roles, rolePermissions, accountRoles>>
    BY <1>8 DEF RunDies
  <2>2. \A s : s.op # "find" /\ Done(s) => Done(s)'
    BY <2>1 DEF Done
  <2>3. 1..at'-1 = {}
    BY <2>1
  <2> QED
    BY <2>1, <2>2, <2>3 DEF Progress, RolesInPlace
<1>9. CASE UNCHANGED seedVars
  BY <1>9 DEF seedVars, Progress, RolesInPlace, Done
<1> QED
  BY <1>1, <1>2, <1>3, <1>4, <1>5, <1>6, <1>7, <1>8, <1>9 DEF SeedNext

\* The invariant holds in every state.
LEMMA SeedInvariant == SeedSpec => []SeedInv
<1>1. SeedInv /\ [SeedNext]_seedVars => SeedInv'
  BY ConfinedStep, ProgressStep DEF SeedInv
<1> QED
  BY <1>1, SeedInvInit, PTL DEF SeedSpec

-----------------------------------------------------------------------------
(* What is left of a run that gets to its end *)

\* Whoever is told apart by name has one role.
LEMMA OneRole ==
    ASSUME NEW name, NEW r, NEW s, <<name, r>> \in SeededRoles, <<name, s>> \in SeededRoles
    PROVE  r = s
BY DEF SeededRoles

\* Four roles in their places are four rows.
LEMMA RolesCounted ==
    ASSUME Confined, roles = {<<i, Roles[i]>> : i \in 1..4}
    PROVE  Cardinality(roles) = 4
<1> DEFINE f == [i \in 1..4 |-> <<i, Roles[i]>>]
<1>1. f \in Bijection(1..4, roles)
  <2>1. f \in [1..4 -> roles]
    OBVIOUS
  <2>2. \A i, j \in 1..4 : f[i] = f[j] => i = j
    OBVIOUS
  <2>3. \A r \in roles : \E i \in 1..4 : f[i] = r
    OBVIOUS
  <2> HIDE DEF f
  <2> QED
    BY <2>1, <2>2, <2>3 DEF Bijection, Injection, Surjection, IsInjective
<1>2. IsFiniteSet(1..4) /\ Cardinality(1..4) = 4
  <2>1. \A n \in Nat : IsFiniteSet(1..n) /\ Cardinality(1..n) = n
    BY FS_Interval
  <2> QED
    BY <2>1
<1> QED
  BY <1>1, <1>2, FS_Bijection DEF ExistsBijection

\* When everything is done the rows are those of the tables.
LEMMA ConvergesWhenDone ==
    ASSUME SeedInv, finished, lost = 0
    PROVE  /\ {r[2] : r \in roles} = ToSet(Roles)
           /\ Cardinality(roles) = Len(Roles)
           /\ \A r \in roles : {g[2] : g \in {x \in rolePermissions : x[1] = r[1]}} = ToSet(GrantedTo(r[2]))
           /\ \A a \in RoleOf : {ar[2] : ar \in {x \in accountRoles : x[1] = a[1]}} = IdsOf(a[2])
<1>1. /\ RolesInPlace
      /\ \A s \in ToSet(Statements) : s.op # "find" => Done(s)
      /\ Done(RoleStatement(4))
  <2>1. /\ Statements \in Seq(AnyStatement) /\ Len(Statements) \in Nat
        /\ Len(Statements) >= 4 /\ Statements[4] = RoleStatement(4)
    BY StatementsListed DEF RolesFirst
  <2>2. \A i \in 1..Len(Statements) : Statements[i].op # "find" => Done(Statements[i])
    BY DEF SeedInv, Progress
  <2>3. RoleStatement(4).op # "find"
    BY DEF RoleStatement
  <2>4. Done(RoleStatement(4))
    BY <2>1, <2>2, <2>3
  <2>5. RolesInPlace
    BY DEF SeedInv, Progress
  <2> QED
    BY <2>1, <2>2, <2>4, <2>5 DEF ToSet
<1>2. Confined
  BY DEF SeedInv
<1>3. /\ roles = {<<i, Roles[i]>> : i \in 1..4}
      /\ \A i \in 1..4 : <<i, Roles[i]>> \in roles
      /\ \A id, role : <<id, role>> \in roles => id \in 1..4 /\ role = Roles[id]
      /\ \A role \in RoleNames : \E i \in 1..4 : <<i, role>> \in roles
  BY <1>1, <1>2, RolesThere
<1>4. \A i, j, role : <<i, role>> \in roles /\ <<j, role>> \in roles => i = j
  BY <1>3, RolesListed
<1>5. {r[2] : r \in roles} = ToSet(Roles)
  <2>1. \A r \in roles : r[2] \in RoleNames
    BY <1>2 DEF Confined, RolesWritten
  <2>2. \A role \in RoleNames : \E r \in roles : r[2] = role
    BY <1>3
  <2> QED
    BY <2>1, <2>2, RolesListed
<1>6. Cardinality(roles) = Len(Roles)
  BY <1>2, <1>3, RolesCounted, RolesListed
<1>7. ASSUME NEW r \in roles
      PROVE  {g[2] : g \in {x \in rolePermissions : x[1] = r[1]}} = ToSet(GrantedTo(r[2]))
  <2>1. r = <<r[1], r[2]>> /\ r[2] \in RoleNames
    BY <1>2 DEF Confined, RolesWritten
  <2>2. ASSUME NEW g \in rolePermissions, g[1] = r[1]
        PROVE  g[2] \in Granted(r[2])
    <3>1. PICK role \in RoleNames : <<g[1], role>> \in roles /\ g[2] \in Granted(role)
      BY <1>2 DEF Confined, GrantsSeeded
    <3>2. role = r[2]
      BY <1>3, <2>1, <2>2, <3>1
    <3> QED
      BY <3>1, <3>2
  <2>3. ASSUME NEW p \in Granted(r[2])
        PROVE  <<r[1], p>> \in rolePermissions
    <3> DEFINE s == GrantStatement(r[2], p)
    <3>1. s.op = "grant" /\ s.role = r[2] /\ s.permission = p
      BY DEF GrantStatement
    <3>2. Done(s)
      BY <1>1, <2>1, <3>1, StatementsListed
    <3> HIDE DEF s
    <3>3. PICK id \in 1..4 : <<id, s.role>> \in roles /\ <<id, s.permission>> \in rolePermissions
      BY <3>1, <3>2 DEF Done
    <3>4. id = r[1]
      BY <1>4, <2>1, <3>1, <3>3
    <3> QED
      BY <3>1, <3>3, <3>4
  <2>4. \A p \in Granted(r[2]) : \E g \in rolePermissions : g[1] = r[1] /\ g[2] = p
    BY <2>3
  <2> QED
    BY <2>2, <2>4 DEF Granted
<1>8. ASSUME NEW a \in RoleOf
      PROVE  {ar[2] : ar \in {x \in accountRoles : x[1] = a[1]}} = IdsOf(a[2])
  <2>1. a \in SeededRoles /\ a = <<a[1], a[2]>> /\ a[2] \in RoleNames
    BY AccountsListed DEF SeededRoles, RoleNames
  <2>2. ASSUME NEW ar \in accountRoles, ar[1] = a[1]
        PROVE  <<ar[2], a[2]>> \in roles
    <3>1. PICK role \in RoleNames : <<ar[2], role>> \in roles /\ <<ar[1], role>> \in SeededRoles
      BY <1>2 DEF Confined, AccountsSeeded
    <3>2. role = a[2]
      BY <2>1, <2>2, <3>1, OneRole
    <3> QED
      BY <3>1, <3>2
  <2>3. ASSUME NEW i, <<i, a[2]>> \in roles
        PROVE  <<a[1], i>> \in accountRoles
    <3> DEFINE s == AccountStatement(a)
    <3>1. s.op = "account" /\ s.role = a[2] /\ s.name = a[1]
      BY DEF AccountStatement
    <3>2. Done(s)
      BY <1>1, <2>1, <3>1, StatementsListed
    <3> HIDE DEF s
    <3>3. PICK id \in 1..4 : <<id, s.role>> \in roles /\ <<s.name, id>> \in accountRoles
      BY <3>1, <3>2 DEF Done
    <3>4. id = i
      BY <1>4, <2>3, <3>1, <3>3
    <3> QED
      BY <3>1, <3>3, <3>4
  <2>4. \A i : i \in IdsOf(a[2]) <=> <<i, a[2]>> \in roles
    BY <1>2 DEF IdsOf, Confined, RolesWritten
  <2>5. \A i : <<i, a[2]>> \in roles => \E ar \in accountRoles : ar[1] = a[1] /\ ar[2] = i
    <3> TAKE i
    <3> HAVE <<i, a[2]>> \in roles
    <3> DEFINE ar == <<a[1], i>>
    <3>1. ar \in accountRoles
      BY <2>3
    <3>2. ar[1] = a[1] /\ ar[2] = i
      OBVIOUS
    <3> QED
      BY <3>1, <3>2
  <2> QED
    BY <2>2, <2>4, <2>5
<1> QED
  BY <1>5, <1>6, <1>7, <1>8

\* For any number of runs that are killed and started over: the one that gets to
\* its end leaves exactly what the tables say, unless an id was lost.
THEOREM SeedAlwaysConverges == SeedSpec => []SeedConverges
<1>1. SeedInv => SeedConverges
  BY ConvergesWhenDone DEF SeedConverges
<1> QED
  BY <1>1, SeedInvariant, PTL

-----------------------------------------------------------------------------
(* What the guard lets through *)

\* Nobody owns a permission that his role is not granted.
LEMMA OwnsGranted ==
    ASSUME Confined, NEW name, NEW p, Owns(name, p)
    PROVE  \E role \in RoleNames : <<name, role>> \in SeededRoles /\ p \in Granted(role)
<1>1. PICK ar \in accountRoles : ar[1] = name /\ <<ar[2], p>> \in rolePermissions
  BY DEF Owns
<1>2. PICK r \in RoleNames : <<ar[2], r>> \in roles /\ <<ar[1], r>> \in SeededRoles
  BY DEF Confined, AccountsSeeded
<1>3. PICK s \in RoleNames : <<ar[2], s>> \in roles /\ p \in Granted(s)
  BY <1>1 DEF Confined, GrantsSeeded
<1>4. r = s
  BY <1>2, <1>3 DEF Confined, RolesWritten
<1> QED
  BY <1>1, <1>2, <1>3, <1>4

\* Behind a permission a caller is admitted only if he owns it, whatever his token.
LEMMA AdmitsOwner ==
    ASSUME NEW name, NEW token \in Tokens, NEW need, need # Public, need # SignedIn,
           Admits(name, token, need)
    PROVE  Owns(name, need)
<1>1. AccessGuard(token) \in {"pass", "EXPIRED_ACCESS_TOKEN", "INVALID_ACCESS_TOKEN"}
  BY DEF AccessGuard
<1>2. \A code \in {"EXPIRED_ACCESS_TOKEN", "INVALID_ACCESS_TOKEN", "RESOURCE_ACCESS_DENIED"} :
        GlobalExceptionHandler(BaseException(code)) # Handled
  BY DEF GlobalExceptionHandler, BaseException, AuthErrors, Handled
<1>3. GlobalExceptionHandler(ForbiddenException) # Handled
  BY DEF GlobalExceptionHandler, ForbiddenException, Handled
<1> QED
  BY <1>1, <1>2, <1>3 DEF Admits, Answer

\* At no moment does the guard let anybody do what the tables do not give his role.
THEOREM RolesAlwaysConfined == SeedSpec => []RolesConfined
<1>1. ASSUME SeedInv
      PROVE  RolesConfined
  <2>0. Confined
    BY <1>1 DEF SeedInv
  <2>1. ASSUME NEW token \in Tokens, NEW a \in RoleOf,
               NEW need \in Guarded(UserNeeds \cup AdminNeeds) \ ToSet(GrantedTo(a[2]))
        PROVE  ~ Admits(a[1], token, need)
    <3>1. need # Public /\ need # SignedIn /\ need \notin Granted(a[2])
      BY <2>1 DEF Guarded, Granted
    <3>2. a \in SeededRoles /\ a = <<a[1], a[2]>>
      BY AccountsListed DEF SeededRoles
    <3>3. ~ Owns(a[1], need)
      <4> SUFFICES ASSUME Owns(a[1], need)
                   PROVE  FALSE
        OBVIOUS
      <4> DEFINE name == a[1]
      <4>1. PICK role \in RoleNames : <<name, role>> \in SeededRoles /\ need \in Granted(role)
        BY <2>0, OwnsGranted
      <4>2. role = a[2]
        BY <3>2, <4>1, OneRole
      <4> QED
        BY <3>1, <4>1, <4>2
    <3> QED
      BY <3>1, <3>3, AdmitsOwner
  <2>2. ASSUME NEW token \in Tokens, NEW need \in Guarded(UserNeeds)
        PROVE  ~ Admits(SignedUp, token, need)
    <3>1. need # Public /\ need # SignedIn
      BY <2>2 DEF Guarded
    <3>2. \A role : <<SignedUp, role>> \notin SeededRoles
      BY DEF SignedUp, SeededRoles
    <3> QED
      BY <2>0, <3>1, <3>2, OwnsGranted, AdmitsOwner
  <2> QED
    BY <2>1, <2>2 DEF RolesConfined
<1> QED
  BY <1>1, SeedInvariant, PTL

=============================================================================
