----------------------------- MODULE Monitoring -----------------------------
(***************************************************************************)
(* The health-check scheduler (libs/common/src/monitoring) together with   *)
(* the rows it shares with the endpoint services of the user and admin     *)
(* applications.                                                           *)
(*                                                                         *)
(* Both applications import MonitoringCommonModule, so every deployment    *)
(* holds one MonitoringSchedulerService per application; each is a member  *)
(* of Schedulers.  An invocation of handleCron is a run.  The cron library *)
(* starts a new invocation at every firing whether or not the previous one *)
(* has returned, so a scheduler has several Slots for runs that overlap.   *)
(*                                                                         *)
(* Every await of the code is the boundary between two actions.  Time is a *)
(* discrete clock read by every process (`new Date()`, the Redis TTL).     *)
(***************************************************************************)
EXTENDS Integers, FiniteSets

CONSTANTS
    Endpoints,      \* rows of api_endpoint
    Schedulers,     \* processes that hold a MonitoringSchedulerService
    Slots,          \* overlapping handleCron invocations of one process
    Clients,        \* HTTP requests to the endpoint services, one operation each
    Intervals,      \* values of CheckInterval, in clock units
    Thresholds,     \* values of failureThreshold
    CronPeriod,     \* EVERY_30_SECONDS, in clock units
    CooldownTTL,    \* ALERT_COOLDOWN_TTL, in clock units
    MaxConcurrent,  \* MAX_CONCURRENT
    MaxTime,        \* bound: the clock stops here
    MaxFaults       \* bound: number of aborted runs

Runs == Schedulers \X Slots

ASSUME CadenceAssumption ==
    /\ Intervals \subseteq Nat \ {0}
    /\ Thresholds \subseteq Nat \ {0}
    /\ CronPeriod \in Nat \ {0}
    /\ CooldownTTL \in Nat \ {0}
    /\ MaxConcurrent \in Nat \ {0}
    /\ MaxTime \in Nat
    /\ MaxFaults \in Nat

ASSUME FiniteAssumption ==
    /\ IsFiniteSet(Endpoints)
    /\ IsFiniteSet(Schedulers)
    /\ IsFiniteSet(Slots)

VARIABLES
    now,         \* wall clock
    status,              \* api_endpoint, one variable per column
    consecutiveFailures,
    lastCheckedAt,
    failureThreshold,
    interval,
    isPaused,
    isDeleted,
    log,         \* monitoring_log, summarised per endpoint
    notified,    \* notification rows per endpoint and alert type: number, time of the last
    cooldown,    \* Redis key monitoring:alert:<endpoint>:<type>: the time it expires
    dispatched,  \* calls of WebhookDispatchService.dispatchAll
    ticked,      \* per scheduler, its last cron firing
    pc,          \* per run, the await it is at
    at,          \* per run, `now` of handleCron
    todo,        \* per run, targets of the chunks to come
    snap,        \* per run, the fields of its targets as findMany returned them
    verdict,     \* per run, settled results of the current chunk not yet processed
    cur,         \* per run, the endpoint being processed
    alert,       \* per run, the alert being sent
    request,     \* per client, what it does once its find has returned
    faults       \* number of runs aborted so far

rowVars == <<status, consecutiveFailures, lastCheckedAt, failureThreshold,
             interval, isPaused, isDeleted>>
runVars == <<pc, at, todo, snap, verdict, cur, alert>>
vars == <<now, rowVars, log, notified, cooldown, dispatched, ticked, runVars,
          request, faults>>

Statuses == {"UP", "DOWN", "SLOW", "PAUSED"}
AlertTypes == {"DOWN", "UP", "SLOW"}
Verdicts == {"fast", "slow", "failed"}   \* success <= 5 s, success > 5 s, no success
Operations == {"pause", "resume", "delete", "update"}
Never == -1
None == "none"

NoSnapshot == [status |-> "UP", failures |-> 0, threshold |-> 0]
NoResult == [e \in Endpoints |-> None]
NoRequest == [op |-> None]        \* not received yet
Answered == [op |-> "answered"]

TypeOK ==
    /\ now \in Nat
    /\ status \in [Endpoints -> Statuses]
    /\ consecutiveFailures \in [Endpoints -> Nat]
    /\ lastCheckedAt \in [Endpoints -> Nat \cup {Never}]
    /\ failureThreshold \in [Endpoints -> Thresholds]
    /\ interval \in [Endpoints -> Intervals]
    /\ isPaused \in [Endpoints -> BOOLEAN]
    /\ isDeleted \in [Endpoints -> BOOLEAN]
    /\ log \in [Endpoints -> [failed: Nat, slow: Nat, streak: Nat]]
    /\ notified \in [Endpoints -> [AlertTypes -> [count: Nat, last: Nat]]]
    /\ cooldown \in [Endpoints -> [AlertTypes -> Nat]]
    /\ dispatched \in [Endpoints -> [AlertTypes -> Nat]]
    /\ ticked \in [Schedulers -> Nat \cup {Never}]
    /\ pc \in [Runs -> {"idle", "find", "check", "log", "update", "exists",
                        "notify", "setex", "dispatch"}]
    /\ at \in [Runs -> Nat]
    /\ todo \in [Runs -> SUBSET Endpoints]
    /\ snap \in [Runs -> [Endpoints -> [status: Statuses, failures: Nat,
                                        threshold: Nat]]]
    /\ verdict \in [Runs -> [Endpoints -> Verdicts \cup {None}]]
    /\ cur \in [Runs -> Endpoints \cup {None}]
    /\ alert \in [Runs -> AlertTypes \cup {None}]
    /\ request \in [Clients -> [op: Operations, ep: Endpoints] \cup {NoRequest, Answered}]
    /\ faults \in 0..MaxFaults

\* What a run holds while it processes a result and sends an alert.
ControlOK ==
    \A r \in Runs :
      /\ pc[r] \in {"idle", "find", "check"} => \A e \in Endpoints : verdict[r][e] = None
      /\ \A e \in Endpoints : verdict[r][e] # None => e \notin todo[r]
      /\ pc[r] \in {"update", "exists", "notify", "setex", "dispatch"} => cur[r] \in Endpoints
      /\ pc[r] = "update" => verdict[r][cur[r]] \in Verdicts
      /\ pc[r] \in {"exists", "notify", "setex", "dispatch"} => alert[r] \in AlertTypes

Init ==
    /\ now = 0
    /\ status = [e \in Endpoints |-> "UP"]
    /\ consecutiveFailures = [e \in Endpoints |-> 0]
    /\ lastCheckedAt = [e \in Endpoints |-> Never]
    /\ failureThreshold \in [Endpoints -> Thresholds]
    /\ interval \in [Endpoints -> Intervals]
    /\ isPaused = [e \in Endpoints |-> FALSE]
    /\ isDeleted = [e \in Endpoints |-> FALSE]
    /\ log = [e \in Endpoints |-> [failed |-> 0, slow |-> 0, streak |-> 0]]
    /\ notified = [e \in Endpoints |-> [t \in AlertTypes |-> [count |-> 0, last |-> 0]]]
    /\ cooldown = [e \in Endpoints |-> [t \in AlertTypes |-> 0]]
    /\ dispatched = [e \in Endpoints |-> [t \in AlertTypes |-> 0]]
    /\ ticked = [s \in Schedulers |-> Never]
    /\ pc = [r \in Runs |-> "idle"]
    /\ at = [r \in Runs |-> 0]
    /\ todo = [r \in Runs |-> {}]
    /\ snap = [r \in Runs |-> [e \in Endpoints |-> NoSnapshot]]
    /\ verdict = [r \in Runs |-> NoResult]
    /\ cur = [r \in Runs |-> None]
    /\ alert = [r \in Runs |-> None]
    /\ request = [c \in Clients |-> NoRequest]
    /\ faults = 0

-----------------------------------------------------------------------------
(* handleCron *)

\* The cron library fires on the wall-clock multiples of the period.
CronFire(r) ==
    /\ pc[r] = "idle"
    /\ now % CronPeriod = 0
    /\ ticked[r[1]] < now
    /\ ticked' = [ticked EXCEPT ![r[1]] = now]
    /\ at' = [at EXCEPT ![r] = now]
    /\ pc' = [pc EXCEPT ![r] = "find"]
    /\ UNCHANGED <<now, rowVars, log, notified, cooldown, dispatched, todo, snap,
                   verdict, cur, alert, request, faults>>

Due(e, t) ==
    /\ ~isPaused[e]
    /\ ~isDeleted[e]
    /\ lastCheckedAt[e] = Never \/ t - lastCheckedAt[e] >= interval[e]

\* findMany and the filter: the rows are read now, the clock was read at firing.
FindTargets(r) ==
    LET targets == {e \in Endpoints : Due(e, at[r])} IN
    /\ pc[r] = "find"
    /\ todo' = [todo EXCEPT ![r] = targets]
    /\ snap' = [snap EXCEPT ![r] = [e \in Endpoints |->
                  IF e \in targets
                  THEN [status |-> status[e], failures |-> consecutiveFailures[e],
                        threshold |-> failureThreshold[e]]
                  ELSE NoSnapshot]]
    /\ pc' = [pc EXCEPT ![r] = IF targets = {} THEN "idle" ELSE "check"]
    /\ UNCHANGED <<now, rowVars, log, notified, cooldown, dispatched, ticked, at,
                   verdict, cur, alert, request, faults>>

\* Promise.allSettled over the next chunk; HealthCheckerService.check never rejects.
CheckChunk(r) ==
    /\ pc[r] = "check"
    /\ \E chunk \in SUBSET todo[r] :
         /\ chunk # {}
         /\ Cardinality(chunk) <= MaxConcurrent
         /\ chunk = todo[r] \/ Cardinality(chunk) = MaxConcurrent
         /\ \E results \in [chunk -> Verdicts] :
              verdict' = [verdict EXCEPT ![r] = [e \in Endpoints |->
                            IF e \in chunk THEN results[e] ELSE None]]
         /\ todo' = [todo EXCEPT ![r] = @ \ chunk]
    /\ pc' = [pc EXCEPT ![r] = "log"]
    /\ UNCHANGED <<now, rowVars, log, notified, cooldown, dispatched, ticked, at,
                   snap, cur, alert, request, faults>>

\* Mutant: only the first chunk is checked.
AfterResultOneChunk(r, pending) ==
    IF \E e \in Endpoints : pending[e] # None THEN "log" ELSE "idle"

\* The loops of handleCron: the next result, the next chunk, or the end.
AfterResult(r, pending) ==
    IF \E e \in Endpoints : pending[e] # None THEN "log"
    ELSE IF todo[r] # {} THEN "check" ELSE "idle"

-----------------------------------------------------------------------------
(* processResult *)

LogResult(r) ==
    /\ pc[r] = "log"
    /\ \E e \in Endpoints :
         /\ verdict[r][e] # None
         /\ cur' = [cur EXCEPT ![r] = e]
         /\ log' = [log EXCEPT ![e] =
              [failed |-> IF verdict[r][e] = "failed" THEN @.failed + 1 ELSE @.failed,
               slow   |-> IF verdict[r][e] = "slow" THEN @.slow + 1 ELSE @.slow,
               streak |-> IF verdict[r][e] = "failed" THEN @.streak + 1 ELSE 0]]
    /\ pc' = [pc EXCEPT ![r] = "update"]
    /\ UNCHANGED <<now, rowVars, notified, cooldown, dispatched, ticked, at, todo,
                   snap, verdict, alert, request, faults>>

\* Mutant: a success takes one failure back instead of all.
NewFailuresDecay(s, v) == IF v = "failed" THEN s.failures + 1 ELSE s.failures - 1

\* Mutant: a slow answer counts as a failure.
NewFailuresSlow(s, v) == IF v # "fast" THEN s.failures + 1 ELSE 0

\* Mutant: a slow answer does not end a series of failures.
NewFailuresKept(s, v) ==
    IF v = "failed" THEN s.failures + 1 ELSE IF v = "slow" THEN s.failures ELSE 0

NewFailures(s, v) == IF v = "failed" THEN s.failures + 1 ELSE 0

\* Mutant: the threshold is compared one failure too early.
NewStatusEarly(s, v) ==
    IF v = "fast" THEN "UP"
    ELSE IF v = "slow" THEN "SLOW"
    ELSE IF NewFailures(s, v) + 1 >= s.threshold THEN "DOWN" ELSE s.status

NewStatus(s, v) ==
    IF v = "fast" THEN "UP"
    ELSE IF v = "slow" THEN "SLOW"
    ELSE IF NewFailures(s, v) >= s.threshold THEN "DOWN" ELSE s.status

\* Which alert the change from the status of the snapshot to `new` sends.
AlertFor(old, new, v) ==
    IF v # "failed" /\ new = "UP" /\ old \in {"DOWN", "SLOW"} THEN "UP"
    ELSE IF v # "failed" /\ new = "SLOW" /\ old # "SLOW" THEN "SLOW"
    ELSE IF v = "failed" /\ new = "DOWN" /\ old # "DOWN" THEN "DOWN"
    ELSE None

\* The row is computed from the snapshot and written without a condition.
UpdateRow(r) ==
    LET e == cur[r]
        s == snap[r][e]
        v == verdict[r][e]
        send == AlertFor(s.status, NewStatus(s, v), v)
        pending == [verdict[r] EXCEPT ![e] = None]
    IN
    /\ pc[r] = "update"
    /\ consecutiveFailures' = [consecutiveFailures EXCEPT ![e] = NewFailures(s, v)]
    /\ status' = [status EXCEPT ![e] = NewStatus(s, v)]
    /\ lastCheckedAt' = [lastCheckedAt EXCEPT ![e] = now]
    /\ verdict' = [verdict EXCEPT ![r] = pending]
    /\ snap' = [snap EXCEPT ![r][e] = NoSnapshot]
    /\ alert' = [alert EXCEPT ![r] = send]
    /\ cur' = [cur EXCEPT ![r] = IF send = None THEN None ELSE e]
    /\ pc' = [pc EXCEPT ![r] = IF send = None THEN AfterResult(r, pending) ELSE "exists"]
    /\ UNCHANGED <<now, failureThreshold, interval, isPaused, isDeleted, log,
                   notified, cooldown, dispatched, ticked, at, todo, request, faults>>

-----------------------------------------------------------------------------
(* MonitoringAlertService.sendAlert *)

EndAlert(r) ==
    /\ alert' = [alert EXCEPT ![r] = None]
    /\ cur' = [cur EXCEPT ![r] = None]
    /\ pc' = [pc EXCEPT ![r] = AfterResult(r, verdict[r])]

\* Mutant: one cooldown key for all alert types.
CooldownAliveAnyType(e, t) == \E x \in AlertTypes : now < cooldown[e][x]

CooldownAlive(e, t) == now < cooldown[e][t]

\* Mutant: a live key suppresses the notification and not the webhooks.
SkipNotification(r) ==
    /\ pc[r] = "exists"
    /\ CooldownAlive(cur[r], alert[r])
    /\ pc' = [pc EXCEPT ![r] = "dispatch"]
    /\ UNCHANGED <<now, rowVars, log, notified, cooldown, dispatched, ticked, at,
                   todo, snap, verdict, cur, alert, request, faults>>

\* redis.exists: a live key ends the alert here.
SkipAlert(r) ==
    /\ pc[r] = "exists"
    /\ CooldownAlive(cur[r], alert[r])
    /\ EndAlert(r)
    /\ UNCHANGED <<now, rowVars, log, notified, cooldown, dispatched, ticked, at,
                   todo, snap, verdict, request, faults>>

PassCooldown(r) ==
    /\ pc[r] = "exists"
    /\ ~CooldownAlive(cur[r], alert[r])
    /\ pc' = [pc EXCEPT ![r] = "notify"]
    /\ UNCHANGED <<now, rowVars, log, notified, cooldown, dispatched, ticked, at,
                   todo, snap, verdict, cur, alert, request, faults>>

Notify(r) ==
    /\ pc[r] = "notify"
    /\ notified' = [notified EXCEPT ![cur[r]][alert[r]] =
                      [count |-> @.count + 1, last |-> now]]
    /\ pc' = [pc EXCEPT ![r] = "setex"]
    /\ UNCHANGED <<now, rowVars, log, cooldown, dispatched, ticked, at, todo, snap,
                   verdict, cur, alert, request, faults>>

\* Mutant: psetex, the key is gone after 300 milliseconds.
SetCooldownMillis(r) ==
    /\ pc[r] = "setex"
    /\ cooldown' = [cooldown EXCEPT ![cur[r]][alert[r]] = now]
    /\ pc' = [pc EXCEPT ![r] = "dispatch"]
    /\ UNCHANGED <<now, rowVars, log, notified, dispatched, ticked, at, todo, snap,
                   verdict, cur, alert, request, faults>>

SetCooldown(r) ==
    /\ pc[r] = "setex"
    /\ cooldown' = [cooldown EXCEPT ![cur[r]][alert[r]] = now + CooldownTTL]
    /\ pc' = [pc EXCEPT ![r] = "dispatch"]
    /\ UNCHANGED <<now, rowVars, log, notified, dispatched, ticked, at, todo, snap,
                   verdict, cur, alert, request, faults>>

\* dispatchAll is called and not awaited.
Dispatch(r) ==
    /\ pc[r] = "dispatch"
    /\ dispatched' = [dispatched EXCEPT ![cur[r]][alert[r]] = @ + 1]
    /\ EndAlert(r)
    /\ UNCHANGED <<now, rowVars, log, notified, cooldown, ticked, at, todo, snap,
                   verdict, request, faults>>

-----------------------------------------------------------------------------
(* Failures, requests and time *)

\* A query or a Redis command rejects, or the process dies: no statement of
\* handleCron or processResult catches it, so the rest of the run is lost.
Abort(r) ==
    /\ pc[r] # "idle"
    /\ faults < MaxFaults
    /\ faults' = faults + 1
    /\ pc' = [pc EXCEPT ![r] = "idle"]
    /\ todo' = [todo EXCEPT ![r] = {}]
    /\ snap' = [snap EXCEPT ![r] = [e \in Endpoints |-> NoSnapshot]]
    /\ verdict' = [verdict EXCEPT ![r] = NoResult]
    /\ cur' = [cur EXCEPT ![r] = None]
    /\ alert' = [alert EXCEPT ![r] = None]
    /\ UNCHANGED <<now, rowVars, log, notified, cooldown, dispatched, ticked, at, request>>

\* findByIdAndUserId (user) or findById (admin) returns the row.
RequestFind(c) ==
    /\ request[c] = NoRequest
    /\ \E op \in Operations, e \in Endpoints :
         /\ ~isDeleted[e]
         /\ request' = [request EXCEPT ![c] = [op |-> op, ep |-> e]]
    /\ UNCHANGED <<now, rowVars, log, notified, cooldown, dispatched, ticked,
                   runVars, faults>>

\* repository.update and softDelete: WHERE id only, whatever happened since the find.
RequestWrite(c) ==
    LET e == request[c].ep IN
    /\ request[c] \notin {NoRequest, Answered}
    /\ \/ /\ request[c].op = "pause"
          /\ isPaused' = [isPaused EXCEPT ![e] = TRUE]
          /\ status' = [status EXCEPT ![e] = "PAUSED"]
          /\ UNCHANGED <<consecutiveFailures, failureThreshold, interval, isDeleted>>
       \/ /\ request[c].op = "resume"
          /\ isPaused' = [isPaused EXCEPT ![e] = FALSE]
          /\ status' = [status EXCEPT ![e] = "UP"]
          /\ consecutiveFailures' = [consecutiveFailures EXCEPT ![e] = 0]
          /\ UNCHANGED <<failureThreshold, interval, isDeleted>>
       \/ /\ request[c].op = "delete"
          /\ isDeleted' = [isDeleted EXCEPT ![e] = TRUE]
          /\ UNCHANGED <<status, consecutiveFailures, failureThreshold, interval, isPaused>>
       \/ /\ request[c].op = "update"
          /\ \E t \in Thresholds, i \in Intervals :
               /\ failureThreshold' = [failureThreshold EXCEPT ![e] = t]
               /\ interval' = [interval EXCEPT ![e] = i]
          /\ UNCHANGED <<status, consecutiveFailures, isPaused, isDeleted>>
    /\ request' = [request EXCEPT ![c] = Answered]
    /\ UNCHANGED <<now, lastCheckedAt, log, notified, cooldown, dispatched,
                   ticked, runVars, faults>>

Tick ==
    /\ now < MaxTime
    /\ now' = now + 1
    /\ UNCHANGED <<rowVars, log, notified, cooldown, dispatched, ticked, runVars,
                   request, faults>>

-----------------------------------------------------------------------------
RunStep(r) ==
    \/ FindTargets(r)
    \/ CheckChunk(r)
    \/ LogResult(r)
    \/ UpdateRow(r)
    \/ SkipAlert(r)
    \/ PassCooldown(r)
    \/ Notify(r)
    \/ SetCooldown(r)
    \/ Dispatch(r)

Environment ==
    \/ \E c \in Clients : RequestFind(c) \/ RequestWrite(c)
    \/ Tick

Next ==
    \/ \E r \in Runs : CronFire(r) \/ RunStep(r) \/ Abort(r)
    \/ Environment

Spec == Init /\ [][Next]_vars

\* Every await of a run settles: the queries, the commands, and the checks,
\* which carry a timeout.
Fairness == \A r \in Runs : WF_vars(RunStep(r))

FairSpec == Spec /\ Fairness

\* One deployed scheduler whose runs end before its next firing.
AllIdle == \A r \in Runs : pc[r] = "idle"

SerialNext ==
    \/ \E r \in Runs : (AllIdle /\ CronFire(r)) \/ RunStep(r) \/ Abort(r)
    \/ Environment

SerialSpec == Init /\ [][SerialNext]_vars

-----------------------------------------------------------------------------
(* Properties *)

\* consecutiveFailures never claims more failures than monitoring_log records,
\* although every run writes it from a snapshot that other runs, requests and
\* aborted runs may have made stale.
FailureCountBacked ==
    \A e \in Endpoints : consecutiveFailures[e] <= log[e].failed

\* As many failed checks on record as some permitted threshold.
FailedEnough(e) == \E t \in Thresholds : log[e].failed >= t

\* An alert has its cause on record: a DOWN status or alert as many failed checks
\* as some permitted threshold, a SLOW one a slow check, an UP one an earlier
\* failed or slow check.  The alert is decided from snapshots of several runs.
AlertsJustified ==
    \A e \in Endpoints :
      /\ status[e] = "DOWN" \/ notified[e]["DOWN"].count > 0
           => FailedEnough(e)
      /\ status[e] = "SLOW" \/ notified[e]["SLOW"].count > 0
           => log[e].slow > 0
      /\ notified[e]["UP"].count > 0
           => log[e].failed + log[e].slow > 0

\* A webhook is dispatched at most once per stored notification, so what holds
\* back notifications holds back external alerts too, in any interleaving of the
\* runs and whatever run is aborted.
DispatchBacked ==
    \A e \in Endpoints, t \in AlertTypes : dispatched[e][t] <= notified[e][t].count

\* While no run has been aborted: once every run has ended, an endpoint shown DOWN
\* has had its DOWN notification.
DownAnnounced ==
    faults = 0 /\ AllIdle =>
      \A e \in Endpoints : status[e] = "DOWN" => notified[e]["DOWN"].count > 0

\* Two notifications of one type for one endpoint are CooldownTTL apart: what
\* "Redis 중복 방지" over sendAlert says (monitoring-alert.service.ts:19).
CooldownRespected ==
    [][\A e \in Endpoints, t \in AlertTypes :
         notified[e][t].count > 0 /\ notified'[e][t] # notified[e][t]
           => now >= notified[e][t].last + CooldownTTL]_vars

\* An endpoint turns DOWN only when its last checks in a row, as many as some
\* permitted threshold, are recorded as failed.
DownOnConsecutive ==
    [][\A e \in Endpoints :
         status'[e] = "DOWN" /\ status[e] # "DOWN"
           => \E t \in Thresholds : log[e].streak >= t]_vars

\* No target is lost between the chunks: what a run has found due is checked and
\* written at a time not before that run's firing, unless the run is aborted.
TargetsChecked ==
    \A r \in Runs, e \in Endpoints :
      e \in todo[r] ~> faults > 0 \/ lastCheckedAt[e] >= at[r]

-----------------------------------------------------------------------------
(* What makes the invariants inductive: the same facts about the copies a run *)
(* holds in memory.                                                           *)

\* The failures of a snapshot are on record, and so is the one being added.
SnapshotsBacked ==
    \A r \in Runs, e \in Endpoints :
      /\ snap[r][e].failures <= log[e].failed
      /\ pc[r] = "update" /\ cur[r] = e /\ verdict[r][e] = "failed"
           => snap[r][e].failures < log[e].failed

\* The status of a snapshot and the alert of a run have their cause on record.
SnapshotsJustified ==
    \A r \in Runs, e \in Endpoints :
      /\ snap[r][e].status = "DOWN" => FailedEnough(e)
      /\ snap[r][e].status = "SLOW" => log[e].slow > 0
      /\ e \in todo[r] \/ verdict[r][e] # None => snap[r][e].threshold \in Thresholds
      /\ pc[r] = "update" /\ cur[r] = e /\ verdict[r][e] = "slow" => log[e].slow > 0

AlertsInFlightJustified ==
    \A r \in Runs, e \in Endpoints :
      pc[r] \in {"exists", "notify", "setex", "dispatch"} /\ cur[r] = e =>
        /\ alert[r] = "DOWN" => FailedEnough(e)
        /\ alert[r] = "SLOW" => log[e].slow > 0
        /\ alert[r] = "UP" => log[e].failed + log[e].slow > 0

\* A DOWN that is not announced yet is in the hands of a run.
DownInFlight(e) ==
    \E r \in Runs : pc[r] \in {"exists", "notify"} /\ cur[r] = e /\ alert[r] = "DOWN"

DownNotified(e) == notified[e]["DOWN"].count > 0

DownTracked ==
    /\ \A e \in Endpoints : cooldown[e]["DOWN"] > 0 => DownNotified(e)
    /\ \A r \in Runs, e \in Endpoints :
         pc[r] \in {"setex", "dispatch"} /\ cur[r] = e /\ alert[r] = "DOWN"
           => DownNotified(e)
    /\ faults = 0 =>
         \A e \in Endpoints :
           status[e] = "DOWN" \/ (\E r \in Runs : snap[r][e].status = "DOWN")
             => DownNotified(e) \/ DownInFlight(e)

=============================================================================
