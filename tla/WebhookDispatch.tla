--------------------------- MODULE WebhookDispatch ---------------------------
(***************************************************************************)
(* WebhookDispatchService: the external messages of an alert (dispatchAll)  *)
(* and of the test button (dispatchTest), with the channel rows that the   *)
(* webhook endpoints of the user application change meanwhile.             *)
(*                                                                         *)
(* A delivery is one message on its way to one channel.  All that is known *)
(* of it between two attempts is in the memory of the process: the URL     *)
(* decrypted at the start, the attempt and the timer.                      *)
(***************************************************************************)
EXTENDS Integers, FiniteSets

CONSTANTS
    Jobs,         \* calls of dispatchAll and dispatchTest
    TestJobs,     \* the calls of dispatchTest
    Channels,     \* webhook_channel rows of the user
    Urls,
    Clients,      \* update and remove requests, one operation each
    MaxRetry,     \* MAX_RETRY
    RetryDelays,  \* RETRY_DELAYS, from the first retry on
    PostTimeout,  \* timeout of a POST
    MaxTime,      \* bound: the clock stops here
    MaxFaults     \* bound: failed queries and restarts

Deliveries == Jobs \X Channels

ASSUME RetryAssumption ==
    /\ TestJobs \subseteq Jobs
    /\ MaxRetry \in Nat
    /\ RetryDelays \in [1..MaxRetry -> Nat \ {0}]
    /\ PostTimeout \in Nat \ {0}
    /\ MaxTime \in Nat
    /\ MaxFaults \in Nat

VARIABLES
    now,
    url,       \* columns of webhook_channel; url stands for its plain text
    isActive,
    isDeleted,
    readable,  \* the channels whose ciphertext this process can decrypt
    lastValid, \* per channel and URL, until when an active channel is known to have used it
    job,       \* per job: "new", "find" (awaiting the rows) or "sent"
    pc,        \* per delivery, the await it is at
    target,    \* per delivery, decryptedUrl
    attempts,  \* per delivery, POSTs sent so far: attempt + 1
    timer,     \* per delivery, when its POST was sent or its delay ends
    accepted,  \* the deliveries whose POST was answered with success
    logged,    \* per delivery, its webhook_log rows and the last of them
    request,   \* per client, what it does once its find has returned
    faults

channelVars == <<url, isActive, isDeleted>>
deliveryVars == <<pc, target, attempts, timer, accepted, logged>>
vars == <<now, channelVars, readable, lastValid, job, deliveryVars, request, faults>>

Operations == {"activate", "deactivate", "remove", "update"}
Nowhere == "nowhere"
Never == -1
NoRequest == [op |-> "none"]
Answered == [op |-> "answered"]
NoLog == [rows |-> 0, isSuccess |-> FALSE, retryCount |-> 0]
Sending == {"post", "delay", "saveSuccess", "saveFailure"}

\* The longest time from the first POST of a delivery to its n-th retry.
RetrySpan[n \in 0..MaxRetry] ==
    IF n = 0 THEN 0 ELSE RetrySpan[n - 1] + PostTimeout + RetryDelays[n]

TypeOK ==
    /\ now \in Nat
    /\ url \in [Channels -> Urls]
    /\ isActive \in [Channels -> BOOLEAN]
    /\ isDeleted \in [Channels -> BOOLEAN]
    /\ readable \subseteq Channels
    /\ lastValid \in [Channels -> [Urls -> Nat \cup {Never}]]
    /\ job \in [Jobs -> {"new", "find", "sent"}]
    /\ pc \in [Deliveries -> Sending \cup {"none", "done", "rejected", "lost"}]
    /\ target \in [Deliveries -> Urls \cup {Nowhere}]
    /\ attempts \in [Deliveries -> 0..MaxRetry + 1]
    /\ timer \in [Deliveries -> Nat]
    /\ accepted \subseteq Deliveries
    /\ logged \in [Deliveries -> [rows: Nat, isSuccess: BOOLEAN, retryCount: 0..MaxRetry]]
    /\ request \in [Clients -> [op: Operations, ch: Channels] \cup {NoRequest, Answered}]
    /\ faults \in 0..MaxFaults

Init ==
    /\ now = 0
    /\ url \in [Channels -> Urls]
    /\ isActive \in [Channels -> BOOLEAN]
    /\ isDeleted = [c \in Channels |-> FALSE]
    /\ readable \in SUBSET Channels
    /\ lastValid = [c \in Channels |-> [u \in Urls |-> Never]]
    /\ job = [j \in Jobs |-> "new"]
    /\ pc = [d \in Deliveries |-> "none"]
    /\ target = [d \in Deliveries |-> Nowhere]
    /\ attempts = [d \in Deliveries |-> 0]
    /\ timer = [d \in Deliveries |-> 0]
    /\ accepted = {}
    /\ logged = [d \in Deliveries |-> NoLog]
    /\ request = [k \in Clients |-> NoRequest]
    /\ faults = 0

-----------------------------------------------------------------------------
(* dispatchAll and dispatchTest *)

\* sendAlert calls dispatchAll, the controller testDispatch.
\* Bound: early enough for the clock to see the last retry.
Call(j) ==
    /\ job[j] = "new"
    /\ now + RetrySpan[MaxRetry] + PostTimeout <= MaxTime
    /\ job' = [job EXCEPT ![j] = "find"]
    /\ UNCHANGED <<now, channelVars, readable, lastValid, deliveryVars, request, faults>>

\* The first POST to the channels in `chosen`: sent at once where the URL can be
\* decrypted, otherwise the delivery rejects before its try.
StartDeliveries(j, chosen) ==
    /\ job' = [job EXCEPT ![j] = "sent"]
    /\ pc' = [d \in Deliveries |->
                IF d[1] = j /\ d[2] \in chosen
                THEN IF d[2] \in readable THEN "post" ELSE "rejected"
                ELSE pc[d]]
    /\ target' = [d \in Deliveries |->
                    IF d[1] = j /\ d[2] \in chosen \cap readable THEN url[d[2]] ELSE target[d]]
    /\ attempts' = [d \in Deliveries |->
                      IF d[1] = j /\ d[2] \in chosen \cap readable THEN 1 ELSE attempts[d]]
    /\ timer' = [d \in Deliveries |->
                   IF d[1] = j /\ d[2] \in chosen \cap readable THEN now ELSE timer[d]]
    /\ UNCHANGED <<now, channelVars, readable, lastValid, accepted, logged, request, faults>>

\* Mutant: the rows are not filtered.
FindAllChannels(j) ==
    /\ job[j] = "find"
    /\ j \notin TestJobs
    /\ StartDeliveries(j, Channels)

FindChannels(j) ==
    /\ job[j] = "find"
    /\ j \notin TestJobs
    /\ StartDeliveries(j, {c \in Channels : isActive[c] /\ ~isDeleted[c]})

\* findOwnChannel, which does not ask for an active channel, then dispatchTest; a
\* channel that is gone answers NOT_FOUND.
FindTestChannel(j) ==
    /\ job[j] = "find"
    /\ j \in TestJobs
    /\ \E c \in Channels : StartDeliveries(j, {c} \ {x \in Channels : isDeleted[x]})

\* The query rejects: sendAlert catches it, the controller answers an error.
FindFails(j) ==
    /\ job[j] = "find"
    /\ faults < MaxFaults
    /\ faults' = faults + 1
    /\ job' = [job EXCEPT ![j] = "sent"]
    /\ UNCHANGED <<now, channelVars, readable, lastValid, deliveryVars, request>>

\* Mutant: the loop ends one retry early.
LastAttemptEarly(d) == IF d[1] \in TestJobs THEN 1 ELSE MaxRetry

\* The number of attempts: dispatchTest does not retry.
LastAttempt(d) == IF d[1] \in TestJobs THEN 1 ELSE MaxRetry + 1

PostSucceeds(d) ==
    /\ pc[d] = "post"
    /\ accepted' = accepted \cup {d}
    /\ pc' = [pc EXCEPT ![d] = "saveSuccess"]
    /\ UNCHANGED <<now, channelVars, readable, lastValid, job, target, attempts, timer,
                   logged, request, faults>>

\* Mutant: nothing is stored after the last attempt.
PostFailsUnlogged(d) ==
    /\ pc[d] = "post"
    /\ pc' = [pc EXCEPT ![d] = IF attempts[d] < LastAttempt(d) THEN "delay" ELSE "done"]
    /\ timer' = [timer EXCEPT ![d] = IF attempts[d] < LastAttempt(d)
                                     THEN now + RetryDelays[attempts[d]] ELSE @]
    /\ UNCHANGED <<now, channelVars, readable, lastValid, job, target, attempts, accepted,
                   logged, request, faults>>

\* An error status, a broken connection or the timeout.
PostFails(d) ==
    /\ pc[d] = "post"
    /\ pc' = [pc EXCEPT ![d] = IF attempts[d] < LastAttempt(d) THEN "delay" ELSE "saveFailure"]
    /\ timer' = [timer EXCEPT ![d] = IF attempts[d] < LastAttempt(d)
                                     THEN now + RetryDelays[attempts[d]] ELSE @]
    /\ UNCHANGED <<now, channelVars, readable, lastValid, job, target, attempts, accepted,
                   logged, request, faults>>

Retry(d) ==
    /\ pc[d] = "delay"
    /\ timer[d] <= now
    /\ pc' = [pc EXCEPT ![d] = "post"]
    /\ attempts' = [attempts EXCEPT ![d] = @ + 1]
    /\ timer' = [timer EXCEPT ![d] = now]
    /\ UNCHANGED <<now, channelVars, readable, lastValid, job, target, accepted, logged,
                   request, faults>>

\* Mutant: retryCount counts the POSTs.
SaveLogPosts(d) ==
    /\ pc[d] \in {"saveSuccess", "saveFailure"}
    /\ logged' = [logged EXCEPT ![d] = [rows |-> @.rows + 1,
                                        isSuccess |-> pc[d] = "saveSuccess",
                                        retryCount |-> attempts[d]]]
    /\ pc' = [pc EXCEPT ![d] = "done"]
    /\ UNCHANGED <<now, channelVars, readable, lastValid, job, target, attempts, timer,
                   accepted, request, faults>>

\* retryCount is the attempt of the loop, one less than the POSTs sent.
SaveLog(d) ==
    /\ pc[d] \in {"saveSuccess", "saveFailure"}
    /\ logged' = [logged EXCEPT ![d] = [rows |-> @.rows + 1,
                                        isSuccess |-> pc[d] = "saveSuccess",
                                        retryCount |-> attempts[d] - 1]]
    /\ pc' = [pc EXCEPT ![d] = "done"]
    /\ UNCHANGED <<now, channelVars, readable, lastValid, job, target, attempts, timer,
                   accepted, request, faults>>

\* Mutant: saveLog lets the error through, into the catch of the attempt.
SaveLogThrows(d) ==
    /\ pc[d] \in {"saveSuccess", "saveFailure"}
    /\ faults < MaxFaults
    /\ faults' = faults + 1
    /\ pc' = [pc EXCEPT ![d] =
                IF pc[d] = "saveSuccess" /\ attempts[d] < LastAttempt(d) THEN "delay" ELSE "done"]
    /\ UNCHANGED <<now, channelVars, readable, lastValid, job, target, attempts, timer,
                   accepted, logged, request>>

\* The insert rejects; saveLog swallows it, inside the try of a successful POST.
SaveLogFails(d) ==
    /\ pc[d] \in {"saveSuccess", "saveFailure"}
    /\ faults < MaxFaults
    /\ faults' = faults + 1
    /\ pc' = [pc EXCEPT ![d] = "done"]
    /\ UNCHANGED <<now, channelVars, readable, lastValid, job, target, attempts, timer,
                   accepted, logged, request>>

-----------------------------------------------------------------------------
(* Failures, requests and time *)

\* The process dies: calls, timers and deliveries are gone, nothing resumes them.
Restart ==
    /\ faults < MaxFaults
    /\ (\E j \in Jobs : job[j] = "find") \/ (\E d \in Deliveries : pc[d] \in Sending)
    /\ faults' = faults + 1
    /\ job' = [j \in Jobs |-> IF job[j] = "find" THEN "sent" ELSE job[j]]
    /\ pc' = [d \in Deliveries |-> IF pc[d] \in Sending THEN "lost" ELSE pc[d]]
    /\ UNCHANGED <<now, channelVars, readable, lastValid, target, attempts, timer, accepted,
                   logged, request>>

\* findOwnChannel returns the row.
RequestFind(k) ==
    /\ request[k] = NoRequest
    /\ \E op \in Operations, c \in Channels :
         /\ ~isDeleted[c]
         /\ request' = [request EXCEPT ![k] = [op |-> op, ch |-> c]]
    /\ UNCHANGED <<now, channelVars, readable, lastValid, job, deliveryVars, faults>>

\* repository.update and softDelete; a new URL is encrypted with the present key.
RequestWrite(k) ==
    LET c == request[k].ch IN
    /\ request[k] \notin {NoRequest, Answered}
    /\ \/ /\ request[k].op = "activate"
          /\ isActive' = [isActive EXCEPT ![c] = TRUE]
          /\ UNCHANGED <<url, isDeleted, readable>>
       \/ /\ request[k].op = "deactivate"
          /\ isActive' = [isActive EXCEPT ![c] = FALSE]
          /\ UNCHANGED <<url, isDeleted, readable>>
       \/ /\ request[k].op = "remove"
          /\ isDeleted' = [isDeleted EXCEPT ![c] = TRUE]
          /\ UNCHANGED <<url, isActive, readable>>
       \/ /\ request[k].op = "update"
          /\ \E u \in Urls : url' = [url EXCEPT ![c] = u]
          /\ readable' = readable \cup {c}
          /\ UNCHANGED <<isActive, isDeleted>>
    /\ lastValid' = [lastValid EXCEPT ![c][url[c]] =
                     IF isActive[c] /\ ~isDeleted[c] THEN now ELSE @]
    /\ request' = [request EXCEPT ![k] = Answered]
    /\ UNCHANGED <<now, job, deliveryVars, faults>>

\* A POST is settled by its timeout, the timer of a retry fires when it ends, and
\* the query of a call takes less than a clock unit.
Tick ==
    /\ now < MaxTime
    /\ \A j \in Jobs : job[j] # "find"
    /\ \A d \in Deliveries :
         /\ pc[d] = "post" => now < timer[d] + PostTimeout
         /\ pc[d] = "delay" => now < timer[d]
    /\ now' = now + 1
    /\ UNCHANGED <<channelVars, readable, lastValid, job, deliveryVars, request, faults>>

-----------------------------------------------------------------------------
DeliveryStep(d) ==
    \/ PostSucceeds(d)
    \/ PostFails(d)
    \/ Retry(d)
    \/ SaveLog(d)

Next ==
    \/ \E j \in Jobs : Call(j) \/ FindChannels(j) \/ FindTestChannel(j) \/ FindFails(j)
    \/ \E d \in Deliveries : DeliveryStep(d) \/ SaveLogFails(d)
    \/ Restart
    \/ \E k \in Clients : RequestFind(k) \/ RequestWrite(k)
    \/ Tick

Spec == Init /\ [][Next]_vars

\* Queries and POSTs settle, timers fire and time passes.
Fairness ==
    /\ \A j \in Jobs : WF_vars(FindChannels(j) \/ FindTestChannel(j))
    /\ \A d \in Deliveries : WF_vars(DeliveryStep(d))
    /\ WF_vars(Tick)

FairSpec == Spec /\ Fairness

-----------------------------------------------------------------------------
(* Properties *)

Alerts == Jobs \ TestJobs

\* What the process sends is older than the row: an alert may still go to a channel
\* that was deactivated, removed or given another URL, but only within the span of
\* the retries.
RevocationTakesHold ==
    \A j \in Alerts, c \in Channels :
      LET d == <<j, c>> IN
      pc[d] = "post" =>
        \/ isActive[c] /\ ~isDeleted[c] /\ url[c] = target[d]
        \/ /\ lastValid[c][target[d]] # Never
           /\ timer[d] <= lastValid[c][target[d]] + RetrySpan[MaxRetry]

\* A delivery leaves at most one row, which says success if and only if a POST was
\* accepted, and says failure only after the one POST of a test or the first POST
\* and all retries of an alert, whatever fails or restarts in between.
LogTruthful ==
    \A d \in Deliveries :
      logged[d].rows > 0 =>
        /\ logged[d].rows = 1
        /\ logged[d].isSuccess <=> d \in accepted
        /\ logged[d].isSuccess \/ attempts[d] = IF d[1] \in Alerts THEN MaxRetry + 1 ELSE 1

\* A message that its receiver has accepted is not sent again: a failure to store
\* the log row does not run into the retries.
NotResent ==
    [][\A d \in accepted : attempts'[d] = attempts[d]]_vars

\* Every call ends with one row per message sent, unless a query failed or the
\* process died; only a URL that cannot be decrypted leaves no trace.
CallsSettle ==
    \A j \in Jobs :
      job[j] = "find" ~>
        \/ faults > 0
        \/ /\ job[j] = "sent"
           /\ \A c \in Channels : pc[<<j, c>>] \in {"none", "rejected"} \/ logged[<<j, c>>].rows = 1

-----------------------------------------------------------------------------
(* What makes the invariants inductive *)

\* Nothing is known of a delivery before its call has read the channels.
NotStarted ==
    \A d \in Deliveries : job[d[1]] \in {"new", "find"} => pc[d] = "none"

\* What each await of a delivery has behind it.
DeliveriesTracked ==
    \A d \in Deliveries :
      /\ pc[d] # "done" => logged[d].rows = 0
      /\ pc[d] \in {"none", "post", "delay", "saveFailure"} => d \notin accepted
      /\ pc[d] \in {"post", "saveSuccess"} => attempts[d] \in 1..LastAttempt(d)
      /\ pc[d] = "delay" => attempts[d] \in 1..LastAttempt(d) - 1
      /\ pc[d] = "saveFailure" => attempts[d] = LastAttempt(d)
      /\ pc[d] = "saveSuccess" => d \in accepted

=============================================================================
