------------------------ MODULE WebhookDispatchProofs ------------------------
(***************************************************************************)
(* One truthful log row per message, no message after the accepted one,    *)
(* and none to a changed channel later than the retries take, for any      *)
(* number of jobs, channels, retries and faults and any delays.            *)
(***************************************************************************)
EXTENDS WebhookDispatch, WellFoundedInduction, TLAPS

Inv == TypeOK /\ NotStarted /\ DeliveriesTracked /\ LogTruthful

\* There is a last attempt, the first one or the one after all retries.
LEMMA LastAttemptType ==
    ASSUME NEW d \in Deliveries
    PROVE  LastAttempt(d) \in 1..MaxRetry + 1
BY RetryAssumption DEF LastAttempt

\* Nothing is called, sent or logged initially.
LEMMA InvInit == Init => Inv
<1> SUFFICES ASSUME Init
             PROVE  Inv
  OBVIOUS
<1> USE RetryAssumption
<1>1. TypeOK
  BY DEF Init, TypeOK, NoLog, NoRequest, Sending, Never
<1>2. NotStarted /\ DeliveriesTracked /\ LogTruthful
  BY DEF Init, NotStarted, DeliveriesTracked, LogTruthful, NoLog
<1> QED
  BY <1>1, <1>2 DEF Inv

\* A call starts deliveries that had not started, with their first attempt.
LEMMA StartKeeps ==
    ASSUME Inv, NEW j \in Jobs, NEW chosen \in SUBSET Channels,
           job[j] = "find", StartDeliveries(j, chosen)
    PROVE  Inv'
<1> USE DEF Inv
<1>1. \A d \in Deliveries : d[1] = j => pc[d] = "none"
  BY DEF NotStarted
<1>2. \A d \in Deliveries : d[1] \in Jobs /\ d[2] \in Channels
  BY DEF Deliveries
<1>3. /\ \A d \in Deliveries :
           \/ pc'[d] = pc[d] /\ attempts'[d] = attempts[d]
           \/ pc[d] = "none" /\ pc'[d] = "rejected"
           \/ pc[d] = "none" /\ pc'[d] = "post" /\ attempts'[d] = 1
      /\ UNCHANGED <<accepted, logged>>
  BY <1>1, <1>2 DEF StartDeliveries
<1>4. TypeOK'
  <2>1. /\ job' \in [Jobs -> {"new", "find", "sent"}]
        /\ pc' \in [Deliveries -> Sending \cup {"none", "done", "rejected", "lost"}]
    BY DEF TypeOK, StartDeliveries, Sending
  <2>2. target' \in [Deliveries -> Urls \cup {Nowhere}]
    BY <1>2 DEF TypeOK, StartDeliveries
  <2>3. attempts' \in [Deliveries -> 0..MaxRetry + 1] /\ timer' \in [Deliveries -> Nat]
    BY RetryAssumption DEF TypeOK, StartDeliveries
  <2> QED
    BY <2>1, <2>2, <2>3 DEF TypeOK, StartDeliveries, channelVars
<1>5. NotStarted'
  BY <1>2 DEF NotStarted, StartDeliveries, TypeOK
<1>6. DeliveriesTracked'
  BY <1>3, LastAttemptType, RetryAssumption DEF DeliveriesTracked
<1>7. LogTruthful'
  BY <1>3 DEF LogTruthful, DeliveriesTracked
<1> QED
  BY <1>4, <1>5, <1>6, <1>7

\* A step of one delivery does not disturb the others.
LEMMA OthersKept ==
    ASSUME DeliveriesTracked, LogTruthful, NEW d \in Deliveries,
           \A x \in Deliveries \ {d} : /\ pc'[x] = pc[x]
                                       /\ attempts'[x] = attempts[x]
                                       /\ logged'[x] = logged[x]
                                       /\ x \in accepted' <=> x \in accepted,
           pc'[d] # "done" => logged'[d].rows = 0,
           pc'[d] \in {"none", "post", "delay", "saveFailure"} => d \notin accepted',
           pc'[d] \in {"post", "saveSuccess"} => attempts'[d] \in 1..LastAttempt(d),
           pc'[d] = "delay" => attempts'[d] \in 1..LastAttempt(d) - 1,
           pc'[d] = "saveFailure" => attempts'[d] = LastAttempt(d),
           pc'[d] = "saveSuccess" => d \in accepted',
           logged'[d].rows > 0 =>
             /\ logged'[d].rows = 1
             /\ logged'[d].isSuccess <=> d \in accepted'
             /\ \/ logged'[d].isSuccess
                \/ attempts'[d] = IF d[1] \in Alerts THEN MaxRetry + 1 ELSE 1
    PROVE  DeliveriesTracked' /\ LogTruthful'
<1>1. DeliveriesTracked'
  BY DEF DeliveriesTracked, LastAttempt
<1>2. LogTruthful'
  BY DEF LogTruthful, Alerts
<1> QED
  BY <1>1, <1>2

\* Each step of a delivery takes it from one await to the next.
LEMMA DeliveryKeeps ==
    ASSUME Inv, NEW d \in Deliveries, DeliveryStep(d) \/ SaveLogFails(d)
    PROVE  Inv'
<1> USE RetryAssumption DEF Inv
<1>l. LastAttempt(d) \in 1..MaxRetry + 1
  BY LastAttemptType
<1>n. NotStarted'
  BY DEF NotStarted, TypeOK, DeliveryStep, PostSucceeds, PostFails, Retry, SaveLog, SaveLogFails
<1>1. CASE PostSucceeds(d)
  <2>1. TypeOK'
    BY <1>1 DEF PostSucceeds, TypeOK, channelVars, Sending
  <2>2. attempts[d] \in 1..LastAttempt(d) /\ logged[d].rows = 0
    BY <1>1 DEF PostSucceeds, DeliveriesTracked
  <2>3. /\ pc'[d] = "saveSuccess"
        /\ \A x \in Deliveries \ {d} : pc'[x] = pc[x] /\ (x \in accepted' <=> x \in accepted)
        /\ d \in accepted'
        /\ UNCHANGED <<attempts, logged>>
    BY <1>1 DEF PostSucceeds, TypeOK
  <2>4. DeliveriesTracked' /\ LogTruthful'
    BY <2>2, <2>3, OthersKept
  <2> QED
    BY <1>n, <2>1, <2>4
<1>2. CASE PostFails(d)
  <2>1. pc[d] = "post" /\ attempts[d] \in 1..LastAttempt(d) /\ d \notin accepted
        /\ logged[d].rows = 0
    BY <1>2 DEF PostFails, DeliveriesTracked
  <2>2. TypeOK'
    <3>1. timer' \in [Deliveries -> Nat]
      BY <1>l, <1>2, <2>1 DEF PostFails, TypeOK
    <3>2. pc' \in [Deliveries -> Sending \cup {"none", "done", "rejected", "lost"}]
      BY <1>2 DEF PostFails, TypeOK, Sending
    <3> QED
      BY <1>2, <3>1, <3>2 DEF PostFails, TypeOK, channelVars
  <2>3. /\ pc'[d] = IF attempts[d] < LastAttempt(d) THEN "delay" ELSE "saveFailure"
        /\ \A x \in Deliveries \ {d} : pc'[x] = pc[x]
        /\ UNCHANGED <<attempts, accepted, logged>>
    BY <1>2 DEF PostFails, TypeOK
  <2>4. pc'[d] = "delay" => attempts'[d] \in 1..LastAttempt(d) - 1
    BY <1>l, <2>1, <2>3
  <2>5. pc'[d] = "saveFailure" => attempts'[d] = LastAttempt(d)
    BY <1>l, <2>1, <2>3
  <2>6. DeliveriesTracked' /\ LogTruthful'
    BY <2>1, <2>3, <2>4, <2>5, OthersKept
  <2> QED
    BY <1>n, <2>2, <2>6
<1>3. CASE Retry(d)
  <2>1. attempts[d] \in 1..LastAttempt(d) - 1 /\ d \notin accepted /\ logged[d].rows = 0
    BY <1>3 DEF Retry, DeliveriesTracked
  <2>2. attempts' = [attempts EXCEPT ![d] = attempts[d] + 1]
        /\ attempts[d] + 1 \in 1..LastAttempt(d)
    BY <1>l, <1>3, <2>1 DEF Retry
  <2>3. TypeOK'
    BY <1>l, <1>3, <2>2 DEF Retry, TypeOK, channelVars, Sending
  <2>4. DeliveriesTracked' /\ LogTruthful'
    BY <1>3, <2>1, <2>2, OthersKept DEF Retry, TypeOK
  <2> QED
    BY <1>n, <2>3, <2>4
<1>4. CASE SaveLog(d)
  <2>1. /\ logged[d].rows = 0
        /\ attempts[d] \in 1..LastAttempt(d)
        /\ pc[d] = "saveSuccess" <=> d \in accepted
        /\ pc[d] = "saveSuccess" \/ attempts[d] = LastAttempt(d)
    BY <1>l, <1>4 DEF SaveLog, DeliveriesTracked
  <2>2. (pc[d] = "saveSuccess") \in BOOLEAN
    OBVIOUS
  <2>3. logged' = [logged EXCEPT ![d] = [rows |-> 1, isSuccess |-> pc[d] = "saveSuccess",
                                         retryCount |-> attempts[d] - 1]]
    BY <1>4, <2>1 DEF SaveLog
  <2>4. TypeOK'
    BY <1>l, <1>4, <2>1, <2>2, <2>3 DEF SaveLog, TypeOK, channelVars
  <2>5. LastAttempt(d) = IF d[1] \in Alerts THEN MaxRetry + 1 ELSE 1
    BY DEF LastAttempt, Alerts, Deliveries
  <2>6. /\ logged'[d].rows = 1
        /\ logged'[d].isSuccess <=> pc[d] = "saveSuccess"
    BY <2>3 DEF TypeOK
  <2>7. DeliveriesTracked' /\ LogTruthful'
    BY <1>4, <2>1, <2>3, <2>5, <2>6, OthersKept DEF SaveLog, TypeOK
  <2> QED
    BY <1>n, <2>4, <2>7
<1>5. CASE SaveLogFails(d)
  <2>1. TypeOK'
    BY <1>5 DEF SaveLogFails, TypeOK, channelVars
  <2>2. logged[d].rows = 0
    BY <1>5 DEF SaveLogFails, DeliveriesTracked
  <2>3. /\ pc'[d] = "done"
        /\ \A x \in Deliveries \ {d} : pc'[x] = pc[x]
        /\ UNCHANGED <<attempts, accepted, logged>>
    BY <1>5 DEF SaveLogFails, TypeOK
  <2>4. DeliveriesTracked' /\ LogTruthful'
    BY <2>2, <2>3, OthersKept
  <2> QED
    BY <1>n, <2>1, <2>4
<1> QED
  BY <1>1, <1>2, <1>3, <1>4, <1>5 DEF DeliveryStep

\* What happens outside the deliveries leaves them as they are.
LEMMA DeliveriesUntouched ==
    ASSUME DeliveriesTracked, LogTruthful, UNCHANGED deliveryVars
    PROVE  DeliveriesTracked' /\ LogTruthful'
BY DEF deliveryVars, DeliveriesTracked, LogTruthful, LastAttempt

\* Calls, failed queries, requests and time.
LEMMA EnvironmentKeeps ==
    ASSUME Inv,
           \/ \E j \in Jobs : Call(j) \/ FindFails(j)
           \/ \E k \in Clients : RequestFind(k) \/ RequestWrite(k)
           \/ Tick
           \/ UNCHANGED vars
    PROVE  Inv'
<1> USE RetryAssumption DEF Inv
<1>1. UNCHANGED deliveryVars
  BY DEF Call, FindFails, RequestFind, RequestWrite, Tick, vars, deliveryVars
<1>2. DeliveriesTracked' /\ LogTruthful'
  BY <1>1, DeliveriesUntouched
<1>3. NotStarted'
  <2>1. \A d \in Deliveries : d[1] \in Jobs
    BY DEF Deliveries
  <2>2. ASSUME NEW j \in Jobs, Call(j) \/ FindFails(j) PROVE NotStarted'
    <3>1. \A x \in Jobs : job'[x] \in {"new", "find"} => job[x] \in {"new", "find"}
      BY <2>2 DEF Call, FindFails, TypeOK
    <3> QED
      BY <1>1, <2>1, <3>1 DEF NotStarted, deliveryVars
  <2>3. CASE job' = job
    BY <1>1, <2>3 DEF NotStarted, deliveryVars
  <2> QED
    BY <2>2, <2>3 DEF RequestFind, RequestWrite, Tick, vars
<1>4. TypeOK'
  <2>0. ASSUME NEW j \in Jobs, Call(j) PROVE TypeOK'
    <3>1. job' \in [Jobs -> {"new", "find", "sent"}]
      BY <2>0 DEF Call, TypeOK
    <3> QED
      BY <2>0, <3>1 DEF Call, TypeOK, channelVars, deliveryVars
  <2>1. ASSUME NEW j \in Jobs, FindFails(j) PROVE TypeOK'
    <3>1. job' \in [Jobs -> {"new", "find", "sent"}] /\ faults' \in 0..MaxFaults
      BY <2>1 DEF FindFails, TypeOK
    <3> QED
      BY <2>1, <3>1 DEF FindFails, TypeOK, channelVars, deliveryVars
  <2>2. ASSUME NEW k \in Clients, RequestFind(k) PROVE TypeOK'
    BY <2>2 DEF RequestFind, TypeOK, channelVars, deliveryVars
  <2>3. ASSUME NEW k \in Clients, RequestWrite(k) PROVE TypeOK'
    <3>1. PICK c \in Channels : c = request[k].ch
      BY <2>3 DEF RequestWrite, TypeOK
    <3>2. url' \in [Channels -> Urls]
      BY <2>3, <3>1 DEF RequestWrite, TypeOK
    <3>r. readable' = readable \/ readable' = readable \cup {c}
      BY <2>3, <3>1 DEF RequestWrite
    <3>3. isActive' \in [Channels -> BOOLEAN] /\ isDeleted' \in [Channels -> BOOLEAN]
      BY <2>3 DEF RequestWrite, TypeOK
    <3> DEFINE used == IF isActive[c] /\ ~isDeleted[c] THEN now ELSE lastValid[c][url[c]]
               seen == [lastValid[c] EXCEPT ![url[c]] = used]
    <3>a. lastValid \in [Channels -> [Urls -> Nat \cup {Never}]] /\ url[c] \in Urls /\ now \in Nat
      BY DEF TypeOK
    <3>b. lastValid[c] \in [Urls -> Nat \cup {Never}]
      BY <3>a
    <3>c. used \in Nat \cup {Never}
      BY <3>a, <3>b
    <3>d. lastValid' = [lastValid EXCEPT ![c] = seen]
      BY <2>3, <3>1 DEF RequestWrite
    <3> HIDE DEF used
    <3>e. seen \in [Urls -> Nat \cup {Never}]
      BY <3>b, <3>c
    <3> HIDE DEF seen
    <3>4. lastValid' \in [Channels -> [Urls -> Nat \cup {Never}]]
      BY <3>a, <3>d, <3>e
    <3>5. request' \in [Clients -> [op: Operations, ch: Channels] \cup {NoRequest, Answered}]
      BY <2>3 DEF RequestWrite, TypeOK
    <3> QED
      BY <2>3, <3>2, <3>r, <3>3, <3>4, <3>5 DEF RequestWrite, TypeOK, deliveryVars
  <2>4. ASSUME Tick \/ UNCHANGED vars PROVE TypeOK'
    BY <2>4 DEF Tick, vars, TypeOK, channelVars, deliveryVars
  <2> QED
    BY <2>0, <2>1, <2>2, <2>3, <2>4
<1> QED
  BY <1>2, <1>3, <1>4

\* A restart loses the deliveries under way and touches no log row.
LEMMA RestartKeeps ==
    ASSUME Inv, Restart
    PROVE  Inv'
<1> USE RetryAssumption DEF Inv
<1>1. TypeOK'
  BY DEF Restart, TypeOK, channelVars
<1>2. NotStarted'
  BY DEF Restart, NotStarted, TypeOK, Deliveries, Sending
<1>3. \A d \in Deliveries :
        /\ pc'[d] = "lost" \/ pc'[d] = pc[d]
        /\ pc'[d] = "done" => pc[d] = "done"
        /\ pc'[d] # "done" => pc[d] # "done"
  BY DEF Restart, TypeOK, Sending
<1>4. UNCHANGED <<attempts, accepted, logged>>
  BY DEF Restart
<1>5. DeliveriesTracked' /\ LogTruthful'
  BY <1>3, <1>4 DEF DeliveriesTracked, LogTruthful, LastAttempt
<1> QED
  BY <1>1, <1>2, <1>5

\* Every step preserves the invariant.
LEMMA InvStep == Inv /\ [Next]_vars => Inv'
<1> SUFFICES ASSUME Inv, [Next]_vars
             PROVE  Inv'
  OBVIOUS
<1>1. ASSUME NEW j \in Jobs, FindChannels(j) \/ FindTestChannel(j) PROVE Inv'
  <2>1. PICK chosen \in SUBSET Channels : job[j] = "find" /\ StartDeliveries(j, chosen)
    BY <1>1 DEF FindChannels, FindTestChannel
  <2> QED
    BY <2>1, StartKeeps
<1>2. ASSUME NEW d \in Deliveries, DeliveryStep(d) \/ SaveLogFails(d) PROVE Inv'
  BY <1>2, DeliveryKeeps
<1>3. CASE Restart
  BY <1>3, RestartKeeps
<1> QED
  BY <1>1, <1>2, <1>3, EnvironmentKeeps DEF Next

\* The invariant holds in every reachable state.
LEMMA InvCorrect == Spec => []Inv
BY InvInit, InvStep, PTL DEF Spec

\* The types of the rows, the deliveries and the requests hold in every state.
THEOREM TypesCorrect == Spec => []TypeOK
<1>1. Inv => TypeOK
  BY DEF Inv
<1> QED
  BY <1>1, InvCorrect, PTL

\* Whatever fails or restarts, a message leaves at most one log row, and the row
\* tells what happened to it.
THEOREM LogsTruthful == Spec => [](TypeOK /\ LogTruthful)
<1>1. Inv => TypeOK /\ LogTruthful
  BY DEF Inv
<1> QED
  BY <1>1, InvCorrect, PTL

\* No step sends a message again that its receiver has accepted: a delivery is sent
\* when its call starts and after a delay, and neither has been accepted.
THEOREM NeverResent == Spec => NotResent
<1>1. ASSUME Inv, [Next]_vars, NEW d \in accepted
      PROVE  attempts'[d] = attempts[d]
  <2>1. d \in Deliveries /\ pc[d] \notin {"none", "delay"}
    BY <1>1 DEF Inv, TypeOK, DeliveriesTracked
  <2>2. ASSUME NEW j \in Jobs, FindChannels(j) \/ FindTestChannel(j)
        PROVE  attempts'[d] = attempts[d]
    <3>1. PICK chosen \in SUBSET Channels : job[j] = "find" /\ StartDeliveries(j, chosen)
      BY <2>2 DEF FindChannels, FindTestChannel
    <3>2. d[1] # j
      BY <1>1, <2>1, <3>1 DEF Inv, NotStarted
    <3> QED
      BY <2>1, <3>1, <3>2 DEF StartDeliveries
  <2>3. ASSUME NEW x \in Deliveries, DeliveryStep(x) \/ SaveLogFails(x)
        PROVE  attempts'[d] = attempts[d]
    BY <1>1, <2>1, <2>3 DEF DeliveryStep, PostSucceeds, PostFails, Retry, SaveLog,
                           SaveLogFails, Inv, TypeOK
  <2>4. CASE UNCHANGED attempts
    BY <2>4
  <2> QED
    BY <1>1, <2>2, <2>3, <2>4
    DEF Next, Call, FindFails, Restart, RequestFind, RequestWrite, Tick, vars, deliveryVars
<1>2. Inv /\ [Next]_vars => [\A d \in accepted : attempts'[d] = attempts[d]]_vars
  BY <1>1
<1> QED
  BY <1>2, InvCorrect, PTL DEF Spec, NotResent

-----------------------------------------------------------------------------
(* The span of the retries *)

\* The order of the natural numbers, as the set of pairs that WFMin asks for.
NatLess == {p \in Nat \X Nat : p[1] < p[2]}

\* A set of natural numbers that is not empty has a least member.
LEMMA LeastMember ==
    ASSUME NEW T, T \subseteq Nat, T # {}
    PROVE  \E x \in T : \A y \in T : x <= y
<1>1. IsWellFoundedOn(NatLess, Nat)
  <2>1. OpToRel(<, Nat) = NatLess
    BY DEF OpToRel, NatLess
  <2> QED
    BY <2>1, NatLessThanWellFounded
<1>2. PICK x \in T : \A y \in T : ~ (<<y, x>> \in NatLess)
  BY <1>1, WFMin
<1>3. ASSUME NEW y \in T PROVE x <= y
  <2>1. x \in Nat /\ y \in Nat /\ <<y, x>> \notin NatLess
    BY <1>2
  <2>2. <<y, x>> \in Nat \X Nat
    BY <2>1
  <2>3. ~ (y < x)
    BY <2>1, <2>2 DEF NatLess
  <2> QED
    BY <2>1, <2>3
<1> QED
  BY <1>3

\* Induction, said of sets.
LEMMA EveryNumber ==
    ASSUME NEW S, 0 \in S, \A n \in Nat : n \in S => n + 1 \in S
    PROVE  \A n \in Nat : n \in S
<1> SUFFICES ASSUME Nat \ S # {} PROVE FALSE
  OBVIOUS
<1>1. PICK x \in Nat \ S : \A y \in Nat \ S : x <= y
  BY LeastMember
<1>2. x # 0 /\ x - 1 \in Nat
  BY <1>1
<1>3. x - 1 \in S
  BY <1>1, <1>2
<1> QED
  BY <1>1, <1>2, <1>3

\* Timeout and delays are natural numbers.
LEMMA DelaysType ==
    /\ PostTimeout \in Nat
    /\ \A n \in 1..MaxRetry : RetryDelays[n] \in Nat
BY RetryAssumption

\* What RetrySpan says of its values up to m.
Spans(f, m) == \A n \in 0..m : f[n] = IF n = 0 THEN 0 ELSE f[n - 1] + PostTimeout + RetryDelays[n]

\* Sums of the retries exist up to every number of them.
LEMMA SpansExist == \E f \in [0..MaxRetry -> Nat] : Spans(f, MaxRetry)
<1> DEFINE S == {m \in Nat : m <= MaxRetry => \E f \in [0..m -> Nat] : Spans(f, m)}
<1>1. 0 \in S
  <2>1. [n \in 0..0 |-> 0] \in [0..0 -> Nat] /\ Spans([n \in 0..0 |-> 0], 0)
    BY DEF Spans
  <2> QED
    BY <2>1
<1>2. ASSUME NEW m \in Nat, m \in S PROVE m + 1 \in S
  <2> SUFFICES ASSUME m + 1 <= MaxRetry
               PROVE  \E f \in [0..m + 1 -> Nat] : Spans(f, m + 1)
    OBVIOUS
  <2>1. PICK f \in [0..m -> Nat] : Spans(f, m)
    BY <1>2, RetryAssumption
  <2>2. PostTimeout \in Nat /\ RetryDelays[m + 1] \in Nat
    BY DelaysType, RetryAssumption
  <2> DEFINE g == [n \in 0..m + 1 |-> IF n = m + 1 THEN f[m] + PostTimeout + RetryDelays[m + 1] ELSE f[n]]
  <2>3. g \in [0..m + 1 -> Nat]
    BY <2>2
  <2>4. ASSUME NEW n \in 0..m + 1
        PROVE  g[n] = IF n = 0 THEN 0 ELSE g[n - 1] + PostTimeout + RetryDelays[n]
    <3>1. CASE n = m + 1
      BY <3>1
    <3>2. CASE n # m + 1
      <4>1. n \in 0..m /\ g[n] = f[n]
        BY <3>2
      <4>2. n # 0 => g[n - 1] = f[n - 1]
        BY <4>1
      <4>3. f[n] = IF n = 0 THEN 0 ELSE f[n - 1] + PostTimeout + RetryDelays[n]
        BY <2>1, <4>1 DEF Spans
      <4> QED
        BY <4>1, <4>2, <4>3
    <3> QED
      BY <3>1, <3>2
  <2> HIDE DEF g
  <2>5. Spans(g, m + 1)
    BY <2>4 DEF Spans
  <2> QED
    BY <2>3, <2>5
<1> HIDE DEF S
<1>3. \A n \in Nat : n \in S
  BY <1>1, <1>2, EveryNumber
<1>4. MaxRetry \in S
  BY <1>3, RetryAssumption
<1> QED
  BY <1>4, RetryAssumption DEF S

\* RetrySpan is such a sum.
LEMMA RetrySpanSums == Spans(RetrySpan, MaxRetry)
<1>1. PICK f \in [0..MaxRetry -> Nat] : Spans(f, MaxRetry)
  BY SpansExist
<1>2. f = [n \in 0..MaxRetry |-> IF n = 0 THEN 0 ELSE f[n - 1] + PostTimeout + RetryDelays[n]]
  BY <1>1 DEF Spans
<1>3. RetrySpan = [n \in 0..MaxRetry |->
                     IF n = 0 THEN 0 ELSE RetrySpan[n - 1] + PostTimeout + RetryDelays[n]]
  BY <1>2 DEF RetrySpan
<1> QED
  BY <1>3 DEF Spans

\* A span is a natural number.
LEMMA RetrySpanType == \A n \in 0..MaxRetry : RetrySpan[n] \in Nat
<1> DEFINE S == {n \in Nat : n <= MaxRetry => RetrySpan[n] \in Nat}
<1>1. 0 \in S
  BY RetrySpanSums, RetryAssumption DEF Spans
<1>2. ASSUME NEW n \in Nat, n \in S PROVE n + 1 \in S
  <2> SUFFICES ASSUME n + 1 <= MaxRetry
               PROVE  RetrySpan[n + 1] \in Nat
    OBVIOUS
  <2>1. n + 1 \in 1..MaxRetry /\ n + 1 \in 0..MaxRetry /\ n + 1 # 0 /\ (n + 1) - 1 = n
    BY RetryAssumption
  <2>2. RetrySpan[n + 1] = RetrySpan[n] + PostTimeout + RetryDelays[n + 1]
    BY <2>1, RetrySpanSums DEF Spans
  <2>3. RetrySpan[n] \in Nat
    BY <1>2, RetryAssumption
  <2> QED
    BY <2>1, <2>2, <2>3, DelaysType
<1> HIDE DEF S
<1>3. \A n \in Nat : n \in S
  BY <1>1, <1>2, EveryNumber
<1> QED
  BY <1>3, RetryAssumption DEF S

\* One more retry takes a POST and a delay longer.
LEMMA RetrySpanNext ==
    ASSUME NEW n \in 1..MaxRetry
    PROVE  /\ RetrySpan[n] = RetrySpan[n - 1] + PostTimeout + RetryDelays[n]
           /\ RetrySpan[n - 1] \in Nat /\ RetrySpan[n] \in Nat
           /\ RetryDelays[n] \in Nat /\ RetryDelays[n] <= RetrySpan[n]
<1>1. n \in 0..MaxRetry /\ n - 1 \in 0..MaxRetry /\ n # 0
  BY RetryAssumption
<1>2. RetrySpan[n] = RetrySpan[n - 1] + PostTimeout + RetryDelays[n]
  BY <1>1, RetrySpanSums DEF Spans
<1>3. RetrySpan[n - 1] \in Nat /\ RetrySpan[n] \in Nat
  BY <1>1, RetrySpanType
<1> QED
  BY <1>2, <1>3, DelaysType

\* More retries never take less time.
LEMMA RetrySpanGrows == \A n \in 0..MaxRetry : RetrySpan[n] <= RetrySpan[MaxRetry]
<1> SUFFICES ASSUME NEW n \in 0..MaxRetry
             PROVE  RetrySpan[n] <= RetrySpan[MaxRetry]
  OBVIOUS
<1> DEFINE S == {k \in Nat : n + k <= MaxRetry => RetrySpan[n] <= RetrySpan[n + k]}
<1>1. 0 \in S
  BY RetrySpanType
<1>2. ASSUME NEW k \in Nat, k \in S PROVE k + 1 \in S
  <2> SUFFICES ASSUME n + (k + 1) <= MaxRetry
               PROVE  RetrySpan[n] <= RetrySpan[n + (k + 1)]
    OBVIOUS
  <2>1. /\ n + (k + 1) \in 1..MaxRetry /\ (n + (k + 1)) - 1 = n + k
        /\ n + k <= MaxRetry
    BY RetryAssumption
  <2>2. /\ RetrySpan[n + (k + 1)] = RetrySpan[n + k] + PostTimeout + RetryDelays[n + (k + 1)]
        /\ RetrySpan[n + k] \in Nat
        /\ RetryDelays[n + (k + 1)] \in Nat
    BY <2>1, RetrySpanNext
  <2>3. RetrySpan[n] <= RetrySpan[n + k]
    BY <1>2, <2>1
  <2> QED
    BY <2>2, <2>3, RetrySpanType, DelaysType
<1> HIDE DEF S
<1>3. \A k \in Nat : k \in S
  BY <1>1, <1>2, EveryNumber
<1>4. MaxRetry - n \in S /\ n + (MaxRetry - n) = MaxRetry
  BY <1>3, RetryAssumption
<1> QED
  BY <1>4, RetryAssumption DEF S

-----------------------------------------------------------------------------
(* Revocation *)

\* The row is as the delivery has found it.
Valid(d) == isActive[d[2]] /\ ~isDeleted[d[2]] /\ url[d[2]] = target[d]

\* Of the clock: a POST is settled by its timeout, and a delay ends when it is over.
TimersTracked(d) ==
    /\ pc[d] \in {"post", "delay"} => target[d] \in Urls
    /\ pc[d] = "post" => timer[d] <= now /\ now <= timer[d] + PostTimeout
    /\ pc[d] = "delay" => now <= timer[d] /\ timer[d] <= now + RetryDelays[attempts[d]]

\* Once the row has changed, the delivery is as many retries later than the change
\* as it has made or is waiting for.
ChangeTracked(d) ==
    LET seen == lastValid[d[2]][target[d]]
        retries == IF pc[d] = "post" THEN attempts[d] - 1 ELSE attempts[d]
    IN  pc[d] \in {"post", "delay"} =>
          Valid(d) \/ (seen # Never /\ timer[d] <= seen + RetrySpan[retries])

AlertDeliveries == {d \in Deliveries : d[1] \in Alerts}

RevInv ==
    /\ Inv
    /\ \A d \in Deliveries : TimersTracked(d)
    /\ \A d \in AlertDeliveries : ChangeTracked(d)

\* Nothing is on its way initially.
LEMMA RevInit == Init => RevInv
BY InvInit DEF Init, RevInv, TimersTracked, ChangeTracked, AlertDeliveries

\* What a step of one delivery leaves of another.
LEMMA OtherDelivery ==
    ASSUME TypeOK, NEW x \in Deliveries, DeliveryStep(x) \/ SaveLogFails(x),
           NEW d \in Deliveries, d # x
    PROVE  /\ pc'[d] = pc[d] /\ target'[d] = target[d] /\ timer'[d] = timer[d]
           /\ attempts'[d] = attempts[d]
           /\ UNCHANGED <<now, channelVars, lastValid>>
BY DEF DeliveryStep, PostSucceeds, PostFails, Retry, SaveLog, SaveLogFails, TypeOK

\* What starting the deliveries of a call does to one delivery.
LEMMA StartedDelivery ==
    ASSUME Inv, NEW j \in Jobs, NEW chosen \in SUBSET Channels,
           job[j] = "find", StartDeliveries(j, chosen), NEW d \in Deliveries
    PROVE  /\ UNCHANGED <<now, channelVars, lastValid>>
           /\ \/ /\ pc'[d] = pc[d] /\ target'[d] = target[d] /\ timer'[d] = timer[d]
                 /\ attempts'[d] = attempts[d]
              \/ pc'[d] = "rejected"
              \/ /\ d[1] = j /\ d[2] \in chosen
                 /\ pc'[d] = "post" /\ target'[d] = url[d[2]] /\ timer'[d] = now
BY DEF StartDeliveries

\* The attempts of an alert that is under way, with the retries they count for.
LEMMA AlertAttempts ==
    ASSUME Inv, NEW d \in Deliveries
    PROVE  /\ pc[d] = "post" => attempts[d] - 1 \in 0..MaxRetry
           /\ pc[d] = "delay" => attempts[d] \in 1..MaxRetry
           /\ pc[d] = "post" /\ attempts[d] < LastAttempt(d) => attempts[d] \in 1..MaxRetry
<1>1. LastAttempt(d) \in 1..MaxRetry + 1
  BY LastAttemptType
<1>2. /\ pc[d] = "post" => attempts[d] \in 1..LastAttempt(d)
      /\ pc[d] = "delay" => attempts[d] \in 1..LastAttempt(d) - 1
  BY DEF Inv, DeliveriesTracked
<1> QED
  BY <1>1, <1>2, RetryAssumption

\* Every step keeps the timers within their bounds.
LEMMA TimersStep ==
    ASSUME RevInv, [Next]_vars, NEW d \in Deliveries
    PROVE  TimersTracked(d)'
<1>t. TypeOK /\ Inv /\ TimersTracked(d) /\ now \in Nat
  BY DEF RevInv, Inv, TypeOK
<1>p. PostTimeout \in Nat
  BY DelaysType
<1>k. ASSUME pc'[d] = pc[d], target'[d] = target[d], timer'[d] = timer[d],
             attempts'[d] = attempts[d], now' = now
      PROVE  TimersTracked(d)'
  BY <1>t, <1>k DEF TimersTracked
<1>n. ASSUME pc'[d] \notin {"post", "delay"} PROVE TimersTracked(d)'
  BY <1>n DEF TimersTracked
<1>1. ASSUME NEW j \in Jobs, FindChannels(j) \/ FindTestChannel(j) PROVE TimersTracked(d)'
  <2>1. PICK chosen \in SUBSET Channels : job[j] = "find" /\ StartDeliveries(j, chosen)
    BY <1>1 DEF FindChannels, FindTestChannel
  <2>2. url[d[2]] \in Urls
    BY <1>t DEF TypeOK, Deliveries
  <2>3. ASSUME pc'[d] = "post", target'[d] = url[d[2]], timer'[d] = now, now' = now
        PROVE  TimersTracked(d)'
    BY <1>t, <1>p, <2>2, <2>3 DEF TimersTracked
  <2> QED
    BY <1>t, <1>k, <1>n, <2>1, <2>3, StartedDelivery
<1>2. ASSUME NEW x \in Deliveries, DeliveryStep(x) \/ SaveLogFails(x), x # d PROVE TimersTracked(d)'
  BY <1>t, <1>k, <1>2, OtherDelivery
<1>3. CASE PostSucceeds(d) \/ SaveLog(d) \/ SaveLogFails(d)
  BY <1>t, <1>n, <1>3 DEF PostSucceeds, SaveLog, SaveLogFails, TypeOK
<1>4. CASE PostFails(d)
  <2>1. /\ pc[d] = "post" /\ UNCHANGED <<now, target, attempts>>
        /\ pc'[d] = IF attempts[d] < LastAttempt(d) THEN "delay" ELSE "saveFailure"
        /\ timer'[d] = IF attempts[d] < LastAttempt(d) THEN now + RetryDelays[attempts[d]] ELSE timer[d]
    BY <1>t, <1>4 DEF PostFails, TypeOK
  <2>2. CASE attempts[d] < LastAttempt(d)
    <3>1. RetryDelays[attempts[d]] \in Nat
      BY <1>t, <2>1, <2>2, AlertAttempts, DelaysType
    <3> QED
      BY <1>t, <2>1, <2>2, <3>1 DEF TimersTracked
  <2>3. CASE ~ (attempts[d] < LastAttempt(d))
    BY <1>n, <2>1, <2>3
  <2> QED
    BY <2>2, <2>3
<1>5. CASE Retry(d)
  <2>1. /\ pc[d] = "delay" /\ timer'[d] = now /\ pc'[d] = "post"
        /\ UNCHANGED <<now, target>>
    BY <1>t, <1>5 DEF Retry, TypeOK
  <2> QED
    BY <1>t, <1>p, <2>1 DEF TimersTracked
<1>6. CASE Restart
  <2>1. \/ pc'[d] = "lost"
        \/ pc'[d] = pc[d]
    BY <1>6 DEF Restart
  <2>2. UNCHANGED <<now, target, timer, attempts>>
    BY <1>6 DEF Restart
  <2> QED
    BY <1>k, <1>n, <2>1, <2>2
<1>7. CASE Tick
  <2>1. /\ pc[d] = "post" => now < timer[d] + PostTimeout
        /\ pc[d] = "delay" => now < timer[d]
        /\ now' = now + 1
        /\ UNCHANGED <<pc, target, timer, attempts>>
    BY <1>7 DEF Tick, deliveryVars
  <2>2. timer[d] \in Nat
    BY <1>t DEF TypeOK
  <2>3. pc[d] = "delay" => RetryDelays[attempts[d]] \in Nat
    BY <1>t, AlertAttempts, DelaysType
  <2> QED
    BY <1>t, <1>p, <2>1, <2>2, <2>3 DEF TimersTracked
<1>8. CASE \/ UNCHANGED vars
           \/ \E j \in Jobs : Call(j) \/ FindFails(j)
           \/ \E k \in Clients : RequestFind(k) \/ RequestWrite(k)
  <2>1. UNCHANGED <<now, pc, target, timer, attempts>>
    BY <1>8 DEF vars, Call, FindFails, RequestFind, RequestWrite, deliveryVars
  <2> QED
    BY <1>k, <2>1
<1> QED
  BY <1>1, <1>2, <1>3, <1>4, <1>5, <1>6, <1>7, <1>8 DEF Next, DeliveryStep

\* A request that changes the row of a delivery notes the time of the change; what
\* the delivery waits for is then no further away than its next retry.
LEMMA ChangeNoted ==
    ASSUME RevInv, NEW k \in Clients, RequestWrite(k), NEW d \in AlertDeliveries
    PROVE  ChangeTracked(d)'
<1> DEFINE c == d[2]
           t == target[d]
           retries == IF pc[d] = "post" THEN attempts[d] - 1 ELSE attempts[d]
<1> SUFFICES ASSUME pc[d] \in {"post", "delay"}, ~ Valid(d)'
             PROVE  /\ lastValid'[c][t] # Never
                    /\ timer[d] <= lastValid'[c][t] + RetrySpan[retries]
  <2>1. UNCHANGED <<pc, target, attempts, timer>>
    BY DEF RequestWrite, deliveryVars
  <2> QED
    BY <2>1 DEF ChangeTracked
<1>t. /\ TypeOK /\ Inv /\ TimersTracked(d) /\ ChangeTracked(d) /\ now \in Nat
      /\ d \in Deliveries /\ c \in Channels /\ t \in Urls
  BY DEF RevInv, Inv, TypeOK, AlertDeliveries, Deliveries, TimersTracked
<1>w. PICK x \in Channels :
        /\ lastValid' = [lastValid EXCEPT ![x][url[x]] =
                           IF isActive[x] /\ ~isDeleted[x] THEN now ELSE @]
        /\ c # x => isActive'[c] = isActive[c] /\ isDeleted'[c] = isDeleted[c] /\ url'[c] = url[c]
  <2>1. PICK x \in Channels : x = request[k].ch
    BY <1>t DEF RequestWrite, TypeOK
  <2> QED
    BY <1>t, <2>1 DEF RequestWrite, TypeOK
<1>l. lastValid \in [Channels -> [Urls -> Nat \cup {Never}]] /\ url[x] \in Urls
  BY <1>t DEF TypeOK
<1>s. lastValid'[c][t] = IF c = x /\ t = url[x] /\ isActive[x] /\ ~isDeleted[x]
                           THEN now ELSE lastValid[c][t]
  BY <1>t, <1>w, <1>l
<1>u. target' = target
  BY DEF RequestWrite, deliveryVars
<1>1. CASE Valid(d)
  <2>1. c = x /\ t = url[x] /\ isActive[x] /\ ~isDeleted[x]
    BY <1>1, <1>w, <1>u DEF Valid
  <2>2. lastValid'[c][t] = now
    BY <1>s, <2>1
  <2>3. pc[d] = "post" => timer[d] <= now /\ RetrySpan[retries] \in Nat
    BY <1>t, AlertAttempts, RetrySpanType DEF TimersTracked
  <2>4. pc[d] = "delay" => /\ timer[d] <= now + RetryDelays[attempts[d]]
                           /\ RetryDelays[attempts[d]] \in Nat /\ RetrySpan[retries] \in Nat
                           /\ RetryDelays[attempts[d]] <= RetrySpan[retries]
    BY <1>t, AlertAttempts, RetrySpanNext DEF TimersTracked
  <2>5. timer[d] \in Nat
    BY <1>t DEF TypeOK
  <2> HIDE DEF retries, c, t
  <2>6. now # Never
    BY <1>t DEF Never
  <2>7. timer[d] <= now + RetrySpan[retries]
    BY <1>t, <2>3, <2>4, <2>5
  <2> QED
    BY <2>2, <2>6, <2>7
<1>2. CASE ~ Valid(d)
  <2>1. lastValid'[c][t] = lastValid[c][t]
    BY <1>2, <1>s DEF Valid
  <2> QED
    BY <1>2, <1>t, <2>1 DEF ChangeTracked
<1> QED
  BY <1>1, <1>2

\* Every step keeps an alert within the retries after a change of its row.
LEMMA ChangeStep ==
    ASSUME RevInv, [Next]_vars, NEW d \in AlertDeliveries
    PROVE  ChangeTracked(d)'
<1>t. /\ TypeOK /\ Inv /\ TimersTracked(d) /\ ChangeTracked(d) /\ now \in Nat
      /\ d \in Deliveries /\ d[1] \notin TestJobs
  BY DEF RevInv, Inv, TypeOK, AlertDeliveries, Alerts
<1>k. ASSUME pc'[d] = pc[d], target'[d] = target[d], timer'[d] = timer[d],
             attempts'[d] = attempts[d], UNCHANGED <<channelVars, lastValid>>
      PROVE  ChangeTracked(d)'
  BY <1>t, <1>k DEF ChangeTracked, Valid, channelVars
<1>n. ASSUME pc'[d] \notin {"post", "delay"} PROVE ChangeTracked(d)'
  BY <1>n DEF ChangeTracked
<1>1. ASSUME NEW j \in Jobs, FindChannels(j) PROVE ChangeTracked(d)'
  <2> DEFINE chosen == {c \in Channels : isActive[c] /\ ~isDeleted[c]}
  <2>1. job[j] = "find" /\ StartDeliveries(j, chosen) /\ chosen \in SUBSET Channels
    BY <1>1 DEF FindChannels
  <2>2. ASSUME d[2] \in chosen, target'[d] = url[d[2]], UNCHANGED channelVars
        PROVE  ChangeTracked(d)'
    BY <2>2 DEF ChangeTracked, Valid, channelVars
  <2> HIDE DEF chosen
  <2> QED
    BY <1>t, <1>k, <1>n, <2>1, <2>2, StartedDelivery
<1>2. ASSUME NEW j \in Jobs, FindTestChannel(j) PROVE ChangeTracked(d)'
  <2>1. PICK chosen \in SUBSET Channels : job[j] = "find" /\ StartDeliveries(j, chosen)
    BY <1>2 DEF FindTestChannel
  <2>2. d[1] # j
    BY <1>t, <1>2 DEF FindTestChannel
  <2> QED
    BY <1>t, <1>k, <1>n, <2>1, <2>2, StartedDelivery
<1>3. ASSUME NEW x \in Deliveries, DeliveryStep(x) \/ SaveLogFails(x), x # d PROVE ChangeTracked(d)'
  BY <1>t, <1>k, <1>3, OtherDelivery
<1>4. CASE PostSucceeds(d) \/ SaveLog(d) \/ SaveLogFails(d)
  BY <1>t, <1>n, <1>4 DEF PostSucceeds, SaveLog, SaveLogFails, TypeOK
<1>5. CASE PostFails(d)
  <2>1. /\ pc[d] = "post" /\ UNCHANGED <<channelVars, lastValid, target, attempts>>
        /\ pc'[d] = IF attempts[d] < LastAttempt(d) THEN "delay" ELSE "saveFailure"
        /\ timer'[d] = IF attempts[d] < LastAttempt(d) THEN now + RetryDelays[attempts[d]] ELSE timer[d]
    BY <1>t, <1>5 DEF PostFails, TypeOK
  <2>2. CASE attempts[d] < LastAttempt(d)
    <3> DEFINE seen == lastValid[d[2]][target[d]]
               n == attempts[d]
    <3>1. /\ n \in 1..MaxRetry
          /\ RetrySpan[n] = RetrySpan[n - 1] + PostTimeout + RetryDelays[n]
          /\ RetrySpan[n - 1] \in Nat /\ RetryDelays[n] \in Nat /\ PostTimeout \in Nat
      BY <1>t, <2>1, <2>2, AlertAttempts, RetrySpanNext, DelaysType
    <3>2. Valid(d) \/ (seen # Never /\ timer[d] <= seen + RetrySpan[n - 1])
      BY <1>t, <2>1 DEF ChangeTracked
    <3>3. /\ now <= timer[d] + PostTimeout /\ timer[d] \in Nat
          /\ seen # Never => seen \in Nat
      <4>1. d[2] \in Channels /\ target[d] \in Urls
        BY <1>t, <2>1 DEF TimersTracked, Deliveries
      <4>2. lastValid[d[2]] \in [Urls -> Nat \cup {Never}]
        BY <1>t, <4>1 DEF TypeOK
      <4> QED
        BY <1>t, <2>1, <4>1, <4>2 DEF TimersTracked, TypeOK
    <3>4. Valid(d) => Valid(d)'
      BY <2>1 DEF Valid, channelVars
    <3>5. ~ Valid(d) => seen # Never /\ now + RetryDelays[n] <= seen + RetrySpan[n]
      <4> HIDE DEF seen, n
      <4> QED
        BY <1>t, <3>1, <3>2, <3>3
    <3>6. lastValid' = lastValid /\ target'[d] = target[d] /\ attempts'[d] = n
      BY <2>1
    <3> QED
      BY <2>1, <2>2, <3>4, <3>5, <3>6 DEF ChangeTracked
  <2>3. CASE ~ (attempts[d] < LastAttempt(d))
    BY <1>n, <2>1, <2>3
  <2> QED
    BY <2>2, <2>3
<1>6. CASE Retry(d)
  <2>1. /\ pc[d] = "delay" /\ timer[d] <= now /\ timer'[d] = now /\ pc'[d] = "post"
        /\ attempts'[d] = attempts[d] + 1
        /\ UNCHANGED <<channelVars, lastValid, target>>
    BY <1>t, <1>6 DEF Retry, TypeOK
  <2>2. now = timer[d]
    <3>1. timer[d] \in Nat
      BY <1>t DEF TypeOK
    <3>2. now <= timer[d]
      BY <1>t, <2>1 DEF TimersTracked
    <3> QED
      BY <1>t, <2>1, <3>1, <3>2
  <2>3. attempts'[d] - 1 = attempts[d]
    BY <1>t, <2>1 DEF TypeOK
  <2>4. Valid(d) => Valid(d)'
    BY <2>1 DEF Valid, channelVars
  <2> QED
    BY <1>t, <2>1, <2>2, <2>3, <2>4 DEF ChangeTracked
<1>7. CASE Restart
  <2>1. \/ pc'[d] = "lost"
        \/ pc'[d] = pc[d]
    BY <1>t, <1>7 DEF Restart
  <2>2. UNCHANGED <<channelVars, lastValid, target, timer, attempts>>
    BY <1>7 DEF Restart
  <2> QED
    BY <1>k, <1>n, <2>1, <2>2
<1>8. ASSUME NEW k \in Clients, RequestWrite(k) PROVE ChangeTracked(d)'
  BY <1>8, ChangeNoted
<1>9. CASE \/ UNCHANGED vars
           \/ Tick
           \/ \E j \in Jobs : Call(j) \/ FindFails(j)
           \/ \E k \in Clients : RequestFind(k)
  <2>1. UNCHANGED <<channelVars, lastValid, pc, target, timer, attempts>>
    BY <1>9 DEF vars, Tick, Call, FindFails, RequestFind, deliveryVars
  <2> QED
    BY <1>k, <2>1
<1> QED
  BY <1>1, <1>2, <1>3, <1>4, <1>5, <1>6, <1>7, <1>8, <1>9 DEF Next, DeliveryStep

\* dispatchToChannel keeps the URL it decrypted through all retries: whatever the
\* timeout and the delays, an alert is still sent to a channel that was deactivated,
\* removed or given another URL, but not once the span of all retries has passed.
THEOREM RevocationIsBounded == Spec => []RevocationTakesHold
<1>1. RevInv /\ [Next]_vars => RevInv'
  BY InvStep, TimersStep, ChangeStep DEF RevInv, AlertDeliveries, Alerts, Deliveries
<1>2. RevInv => RevocationTakesHold
  <2> SUFFICES ASSUME RevInv, NEW j \in Alerts, NEW c \in Channels, pc[<<j, c>>] = "post",
                      ~ Valid(<<j, c>>)
               PROVE  /\ lastValid[c][target[<<j, c>>]] # Never
                      /\ timer[<<j, c>>] <= lastValid[c][target[<<j, c>>]] + RetrySpan[MaxRetry]
    BY DEF RevocationTakesHold, Valid
  <2> DEFINE d == <<j, c>>
             seen == lastValid[c][target[d]]
             n == attempts[d] - 1
  <2>1. d \in AlertDeliveries /\ d \in Deliveries
    BY DEF AlertDeliveries, Deliveries, Alerts
  <2>2. Inv /\ TypeOK /\ TimersTracked(d) /\ ChangeTracked(d)
    BY <2>1 DEF RevInv, Inv
  <2>3. seen # Never /\ timer[d] <= seen + RetrySpan[n]
    BY <2>2 DEF ChangeTracked
  <2>4. target[d] \in Urls
    BY <2>2 DEF TimersTracked
  <2>5. seen \in Nat /\ timer[d] \in Nat
    BY <2>1, <2>2, <2>3, <2>4 DEF TypeOK
  <2>6. n \in 0..MaxRetry
    BY <2>1, <2>2, AlertAttempts
  <2>7. RetrySpan[n] \in Nat /\ RetrySpan[MaxRetry] \in Nat /\ RetrySpan[n] <= RetrySpan[MaxRetry]
    BY <2>6, RetrySpanType, RetrySpanGrows, RetryAssumption
  <2> HIDE DEF seen, n
  <2>8. timer[d] <= seen + RetrySpan[MaxRetry]
    BY <2>3, <2>5, <2>7
  <2> QED
    BY <2>3, <2>8 DEF seen
<1> QED
  BY <1>1, <1>2, RevInit, PTL DEF Spec

=============================================================================
