---------------------------- MODULE CheckCadence ----------------------------
(***************************************************************************)
(* How often one active endpoint is really checked.  Every process that    *)
(* holds a MonitoringSchedulerService calls handleCron on the same grid.   *)
(* A call is a run; it reads `now` first and the row later, and the        *)
(* endpoint is its target when `now - lastCheckedAt` has reached the       *)
(* interval.  The check waits for the chunks before its own, takes as long *)
(* as it takes, and lastCheckedAt becomes the time at which the update was *)
(* sent.  Nothing relates the length of a run to the period, so runs of    *)
(* one process overlap as well, and their updates may take effect in       *)
(* another order than they were sent in.  A run may be lost at any await.  *)
(***************************************************************************)
EXTENDS Integers, FiniteSets

CONSTANTS
    Schedulers,   \* processes that hold a MonitoringSchedulerService
    CronPeriod,   \* EVERY_30_SECONDS
    Interval,     \* INTERVAL_MS of the endpoint
    MaxJitter,    \* how far behind the grid the cron library still fires
    MaxTime,      \* bound: the clock stops here
    MaxRuns,      \* bound: runs in progress at a time
    MaxFaults     \* bound: runs lost and firings missed

ASSUME TimingAssumption ==
    /\ CronPeriod \in Nat \ {0}
    /\ Interval \in Nat \ {0}
    /\ MaxJitter \in Nat
    /\ MaxTime \in Nat
    /\ MaxRuns \in Nat
    /\ MaxFaults \in Nat

VARIABLES
    now,
    nextFiring,     \* per scheduler, the instant of the grid not yet handled
    runs,           \* calls of handleCron that have, or may have, the endpoint to check
    lastCheckedAt,  \* column of api_endpoint
    faults,
    \* History, which no step depends on:
    lost,           \* schedulers whose last firing was missed, or its run lost
    freshest,       \* the latest time ever written to lastCheckedAt
    checkedSince    \* start of the latest check whose result has been written

rowVars == <<lastCheckedAt, freshest, checkedSince>>
vars == <<now, nextFiring, runs, faults, lost, rowVars>>

Never == -1
Times == Nat \cup {Never}

\* A run finds the row, queues for its chunk, checks, and sends its update.
Stages == {"find", "queued", "checking", "update"}
Run == [by : Schedulers, firing : Nat, at : Nat, stage : Stages, startedAt : Times, stamp : Times]

TypeOK ==
    /\ now \in Nat
    /\ nextFiring \in [Schedulers -> Nat]
    /\ runs \subseteq Run
    /\ faults \in Nat
    /\ lost \subseteq Schedulers
    /\ {lastCheckedAt, freshest, checkedSince} \subseteq Times

Init ==
    /\ now = 0
    /\ nextFiring = [s \in Schedulers |-> 0]
    /\ runs = {}
    /\ faults = 0
    /\ lost = {}
    /\ lastCheckedAt = Never
    /\ freshest = Never
    /\ checkedSince = Never

Later(a, b) == IF a > b THEN a ELSE b

OfLastFiring(r) == nextFiring[r.by] = r.firing + CronPeriod

Become(r, next) == runs' = (runs \ {r}) \cup {next}

-----------------------------------------------------------------------------
\* The cron library starts handleCron whether or not earlier runs have ended.
CronFire(s) ==
    /\ nextFiring[s] <= now
    /\ Cardinality(runs) < MaxRuns
    /\ nextFiring' = [nextFiring EXCEPT ![s] = @ + CronPeriod]
    /\ runs' = runs \cup {[by |-> s, firing |-> nextFiring[s], at |-> now, stage |-> "find",
                           startedAt |-> Never, stamp |-> Never]}
    /\ lost' = lost \ {s}
    /\ UNCHANGED <<now, faults, rowVars>>

\* The process is down or its event loop blocked: the firing is skipped.
MissFiring(s) ==
    /\ nextFiring[s] <= now
    /\ faults < MaxFaults
    /\ faults' = faults + 1
    /\ nextFiring' = [nextFiring EXCEPT ![s] = @ + CronPeriod]
    /\ lost' = lost \cup {s}
    /\ UNCHANGED <<now, runs, rowVars>>

\* Mutant: the interval is taken one period too long.
DueLate(at) == lastCheckedAt = Never \/ at - lastCheckedAt >= Interval + CronPeriod

Due(at) == lastCheckedAt = Never \/ at - lastCheckedAt >= Interval

\* findMany and the filter.
FindDue(r) ==
    /\ r.stage = "find"
    /\ Due(r.at)
    /\ Become(r, [r EXCEPT !.stage = "queued"])
    /\ UNCHANGED <<now, nextFiring, faults, lost, rowVars>>

FindNotDue(r) ==
    /\ r.stage = "find"
    /\ ~Due(r.at)
    /\ runs' = runs \ {r}
    /\ UNCHANGED <<now, nextFiring, faults, lost, rowVars>>

\* The chunks before the endpoint's own have been processed.
StartCheck(r) ==
    /\ r.stage = "queued"
    /\ Become(r, [r EXCEPT !.stage = "checking", !.startedAt = now])
    /\ UNCHANGED <<now, nextFiring, faults, lost, rowVars>>

\* Mutant: lastCheckedAt is `now` of the run, whenever its check started.
SendUpdateOfFiring(r) ==
    /\ r.stage = "checking"
    /\ r.startedAt < now
    /\ Become(r, [r EXCEPT !.stage = "update", !.stamp = r.at])
    /\ UNCHANGED <<now, nextFiring, faults, lost, rowVars>>

\* The request, the results of the chunk before this one and the log row are behind:
\* `new Date()`.  A request takes time.
SendUpdate(r) ==
    /\ r.stage = "checking"
    /\ r.startedAt < now
    /\ Become(r, [r EXCEPT !.stage = "update", !.stamp = now])
    /\ UNCHANGED <<now, nextFiring, faults, lost, rowVars>>

\* The update takes effect, whatever the row holds.
UpdateRow(r) ==
    /\ r.stage = "update"
    /\ runs' = runs \ {r}
    /\ lastCheckedAt' = r.stamp
    /\ freshest' = Later(freshest, r.stamp)
    /\ checkedSince' = Later(checkedSince, r.startedAt)
    /\ UNCHANGED <<now, nextFiring, faults, lost>>

\* A query or a command rejects, for this endpoint or one before it in the run, or
\* the process dies: the check, or its result, is lost.
Abort(r) ==
    /\ faults < MaxFaults
    /\ faults' = faults + 1
    /\ runs' = runs \ {r}
    /\ lost' = IF OfLastFiring(r) THEN lost \cup {r.by} ELSE lost
    /\ UNCHANGED <<now, nextFiring, rowVars>>

\* Time passes as long as no firing is overdue, however long the runs take.
Tick ==
    /\ now < MaxTime
    /\ \A s \in Schedulers : now < nextFiring[s] + MaxJitter
    /\ now' = now + 1
    /\ UNCHANGED <<nextFiring, runs, faults, lost, rowVars>>

RunStep(r) ==
    FindDue(r) \/ FindNotDue(r) \/ StartCheck(r) \/ SendUpdate(r) \/ UpdateRow(r) \/ Abort(r)

Next ==
    \/ \E s \in Schedulers : CronFire(s) \/ MissFiring(s)
    \/ \E r \in runs : RunStep(r)
    \/ Tick

Spec == Init /\ [][Next]_vars

-----------------------------------------------------------------------------
(* Properties *)

\* The endpoint is taken by a run.
Taken == {r \in runs' \ runs : r.stage = "queued"}

\* A run takes the endpoint only if its firing is more than one interval after the
\* start of every check whose result has been written: what is checked twice within
\* an interval, by two processes or by overlapping runs, is checked again before the
\* first result is in the row.  Excepted is a row whose time an update sent earlier
\* has set back.
NeverEarly ==
    [][\A r \in Taken :
         lastCheckedAt = freshest /\ checkedSince # Never
           => r.at - checkedSince > Interval]_vars

\* The last run of s still has the endpoint to check.
Busy(s) == \E r \in runs : r.by = s /\ OfLastFiring(r)

\* Unless its last firing was lost or its last run still has the endpoint, a scheduler
\* vouches for a result no older than the interval, one cron period and the delay of a
\* firing.  However long checks and chunks take, and whatever is lost, an endpoint is
\* left out no longer than until the next firing of any process.
NeverForgotten ==
    \A s \in Schedulers \ lost :
      ~Busy(s) => now < freshest + Interval + CronPeriod + MaxJitter

\* An endpoint is checked once per interval: "Cron 기반 주기적 헬스체크 (30초~5분)"
\* (saas-api-monitoring.plan.md, FR-14) offers 30 seconds with a 30-second cron.
CheckedEachInterval ==
    [][\A r \in Taken : checkedSince # Never => r.at - checkedSince <= Interval]_vars

=============================================================================
