-------------------------- MODULE MonitoringProofs --------------------------
(***************************************************************************)
(* Theorems about Monitoring for any number of endpoints, schedulers,      *)
(* overlapping runs and requests, with any number of aborted runs; and, at *)
(* the end, about one scheduler whose runs neither overlap nor abort.      *)
(***************************************************************************)
EXTENDS Monitoring, FiniteSetTheorems, TLAPS

-----------------------------------------------------------------------------
(* Type correctness *)

\* A status computed from a well-typed snapshot is a status.
LEMMA NewStatusType ==
    ASSUME NEW s, s.status \in Statuses, NEW v
    PROVE  NewStatus(s, v) \in Statuses
BY DEF NewStatus, Statuses

\* An alert decision is an alert type or none.
LEMMA AlertForType ==
    ASSUME NEW old, NEW new, NEW v
    PROVE  AlertFor(old, new, v) \in AlertTypes \cup {None}
BY DEF AlertFor, AlertTypes, None

\* Where a run goes after a result is one of its control points.
LEMMA AfterResultType ==
    ASSUME NEW r, NEW pending
    PROVE  /\ AfterResult(r, pending) \in {"log", "check", "idle"}
           /\ AfterResult(r, pending) # "log" => \A e \in Endpoints : pending[e] = None
BY DEF AfterResult

\* A run is one process's: its scheduler is the first component.
LEMMA RunScheduler ==
    ASSUME NEW r \in Runs
    PROVE  r[1] \in Schedulers
BY DEF Runs

\* The initial state is well typed, with every run idle.
LEMMA TypeInit == Init => TypeOK /\ ControlOK
BY CadenceAssumption
DEF Init, TypeOK, ControlOK, Statuses, AlertTypes, Verdicts, NoSnapshot,
    NoResult, Never, None

\* Every action, of a run or of its environment, keeps the types.
LEMMA TypeStep == TypeOK /\ ControlOK /\ [Next]_vars => TypeOK' /\ ControlOK'
<1> SUFFICES ASSUME TypeOK, ControlOK, [Next]_vars
             PROVE  TypeOK' /\ ControlOK'
  OBVIOUS
<1> USE DEF TypeOK, ControlOK, rowVars
<1>1. ASSUME NEW r \in Runs, CronFire(r)
      PROVE  TypeOK' /\ ControlOK'
  BY <1>1, RunScheduler DEF CronFire
<1>2. ASSUME NEW r \in Runs, FindTargets(r)
      PROVE  TypeOK' /\ ControlOK'
  <2> DEFINE targets == {e \in Endpoints : Due(e, at[r])}
  <2>1. targets \subseteq Endpoints
    OBVIOUS
  <2>2. snap' \in [Runs -> [Endpoints -> [status: Statuses, failures: Nat, threshold: Nat]]]
    BY <1>2, CadenceAssumption DEF FindTargets, NoSnapshot, Statuses
  <2> QED
    BY <1>2, <2>1, <2>2 DEF FindTargets, rowVars
<1>3. ASSUME NEW r \in Runs, CheckChunk(r)
      PROVE  TypeOK' /\ ControlOK'
  BY <1>3 DEF CheckChunk, None
<1>4. ASSUME NEW r \in Runs, LogResult(r)
      PROVE  TypeOK' /\ ControlOK'
  BY <1>4 DEF LogResult
<1>5. ASSUME NEW r \in Runs, UpdateRow(r)
      PROVE  TypeOK' /\ ControlOK'
  <2> DEFINE e == cur[r]
             s == snap[r][e]
             v == verdict[r][e]
             pending == [verdict[r] EXCEPT ![e] = None]
             send == AlertFor(s.status, NewStatus(s, v), v)
  <2>1. e \in Endpoints /\ v \in Verdicts
    BY <1>5 DEF UpdateRow
  <2>0. s \in [status: Statuses, failures: Nat, threshold: Nat]
    BY <1>5, <2>1
  <2>2. NewFailures(s, v) \in Nat /\ NewStatus(s, v) \in Statuses
    <3>1. NewFailures(s, v) \in Nat
      BY <2>0 DEF NewFailures
    <3>2. NewStatus(s, v) \in Statuses
      BY <2>0, NewStatusType
    <3> QED
      BY <3>1, <3>2
  <2>3. /\ status' \in [Endpoints -> Statuses]
        /\ consecutiveFailures' \in [Endpoints -> Nat]
        /\ lastCheckedAt' \in [Endpoints -> Nat \cup {Never}]
    BY <1>5, <2>1, <2>2 DEF UpdateRow
  <2>4. snap' \in [Runs -> [Endpoints -> [status: Statuses, failures: Nat, threshold: Nat]]]
    BY <1>5, <2>1 DEF UpdateRow, NoSnapshot, Statuses
  <2>5. verdict' \in [Runs -> [Endpoints -> Verdicts \cup {None}]]
    BY <1>5, <2>1 DEF UpdateRow
  <2>4a. /\ send \in AlertTypes \cup {None}
         /\ AfterResult(r, pending) \in {"log", "check", "idle"}
         /\ AfterResult(r, pending) # "log" => \A x \in Endpoints : pending[x] = None
    BY AlertForType, AfterResultType
  <2>4b. /\ alert' = [alert EXCEPT ![r] = send]
        /\ cur' = [cur EXCEPT ![r] = IF send = None THEN None ELSE e]
        /\ pc' = [pc EXCEPT ![r] = IF send = None THEN AfterResult(r, pending) ELSE "exists"]
        /\ verdict' = [verdict EXCEPT ![r] = pending]
        /\ todo' = todo
        /\ \A x \in Endpoints : pending[x] = IF x = e THEN None ELSE verdict[r][x]
    BY <1>5 DEF UpdateRow
  <2> HIDE DEF send, pending
  <2>6. /\ pc' \in [Runs -> {"idle", "find", "check", "log", "update", "exists",
                             "notify", "setex", "dispatch"}]
        /\ cur' \in [Runs -> Endpoints \cup {None}]
        /\ alert' \in [Runs -> AlertTypes \cup {None}]
    BY <2>1, <2>4a, <2>4b
  <2>7. ControlOK'
    BY <2>1, <2>4a, <2>4b
  <2> QED
    BY <1>5, <2>3, <2>4, <2>5, <2>6, <2>7 DEF UpdateRow
<1>6. ASSUME NEW r \in Runs, SkipAlert(r)
      PROVE  TypeOK' /\ ControlOK'
  BY <1>6, AfterResultType DEF SkipAlert, EndAlert
<1>7. ASSUME NEW r \in Runs, PassCooldown(r)
      PROVE  TypeOK' /\ ControlOK'
  BY <1>7 DEF PassCooldown
<1>8. ASSUME NEW r \in Runs, Notify(r)
      PROVE  TypeOK' /\ ControlOK'
  BY <1>8 DEF Notify
<1>9. ASSUME NEW r \in Runs, SetCooldown(r)
      PROVE  TypeOK' /\ ControlOK'
  BY <1>9, CadenceAssumption DEF SetCooldown
<1>10. ASSUME NEW r \in Runs, Dispatch(r)
       PROVE  TypeOK' /\ ControlOK'
  BY <1>10, AfterResultType DEF Dispatch, EndAlert
<1>11. ASSUME NEW r \in Runs, Abort(r)
       PROVE  TypeOK' /\ ControlOK'
  BY <1>11, CadenceAssumption DEF Abort, NoSnapshot, NoResult, Statuses
<1>12. ASSUME NEW c \in Clients, RequestFind(c)
       PROVE  TypeOK' /\ ControlOK'
  BY <1>12 DEF RequestFind, runVars
<1>13. ASSUME NEW c \in Clients, RequestWrite(c)
       PROVE  TypeOK' /\ ControlOK'
  <2>1. request[c].ep \in Endpoints
    BY <1>13 DEF RequestWrite
  <2>2. CASE request[c].op = "pause"
    BY <1>13, <2>1, <2>2 DEF RequestWrite, runVars, Statuses
  <2>3. CASE request[c].op = "resume"
    <3>1. /\ isPaused' = [isPaused EXCEPT ![request[c].ep] = FALSE]
          /\ status' = [status EXCEPT ![request[c].ep] = "UP"]
          /\ consecutiveFailures' = [consecutiveFailures EXCEPT ![request[c].ep] = 0]
          /\ request' = [request EXCEPT ![c] = Answered]
          /\ UNCHANGED <<failureThreshold, interval, isDeleted, now, lastCheckedAt,
                         log, notified, cooldown, dispatched, ticked, runVars, faults>>
      BY <1>13, <2>3 DEF RequestWrite
    <3> QED
      BY <2>1, <3>1 DEF runVars, Statuses
  <2>4. CASE request[c].op = "delete"
    BY <1>13, <2>1, <2>4 DEF RequestWrite, runVars, Statuses
  <2>5. CASE request[c].op = "update"
    <3>1. PICK t \in Thresholds, i \in Intervals :
            /\ failureThreshold' = [failureThreshold EXCEPT ![request[c].ep] = t]
            /\ interval' = [interval EXCEPT ![request[c].ep] = i]
      BY <1>13, <2>5 DEF RequestWrite
    <3>2. /\ request' = [request EXCEPT ![c] = Answered]
          /\ UNCHANGED <<status, consecutiveFailures, isPaused, isDeleted, now,
                         lastCheckedAt, log, notified, cooldown, dispatched, ticked,
                         runVars, faults>>
      BY <1>13, <2>5 DEF RequestWrite
    <3> QED
      BY <2>1, <3>1, <3>2 DEF runVars
  <2> QED
    BY <1>13, <2>2, <2>3, <2>4, <2>5 DEF RequestWrite
<1>14. ASSUME Tick
       PROVE  TypeOK' /\ ControlOK'
  BY <1>14 DEF Tick, runVars
<1>15. CASE UNCHANGED vars
  BY <1>15 DEF vars, runVars
<1> QED
  BY <1>1, <1>2, <1>3, <1>4, <1>5, <1>6, <1>7, <1>8, <1>9, <1>10, <1>11,
     <1>12, <1>13, <1>14, <1>15 DEF Next, RunStep, Environment

\* Every variable keeps its type, and a run holds what its control point needs,
\* in every reachable state.
THEOREM TypeCorrect == Spec => [](TypeOK /\ ControlOK)
BY TypeInit, TypeStep, PTL DEF Spec

-----------------------------------------------------------------------------
(* The failure counter *)

FailureInv == FailureCountBacked /\ SnapshotsBacked

\* No failure is counted initially.
LEMMA FailureInit == Init => FailureInv
BY DEF Init, FailureInv, FailureCountBacked, SnapshotsBacked, NoSnapshot

\* A counter is written from a snapshot, and the snapshot was a counter: what was on
\* record then is on record now, and the check being added is on record too.
LEMMA FailureStep ==
    TypeOK /\ ControlOK /\ FailureInv /\ [Next]_vars => FailureInv'
<1> SUFFICES ASSUME TypeOK, ControlOK, FailureInv, [Next]_vars
             PROVE  FailureInv'
  OBVIOUS
<1> USE DEF TypeOK, FailureInv, FailureCountBacked, SnapshotsBacked
<1>1. ASSUME NEW r \in Runs, CronFire(r)
      PROVE  FailureInv'
  BY <1>1 DEF CronFire, rowVars
<1>2. ASSUME NEW r \in Runs, FindTargets(r)
      PROVE  FailureInv'
  BY <1>2 DEF FindTargets, rowVars, NoSnapshot
<1>3. ASSUME NEW r \in Runs, CheckChunk(r)
      PROVE  FailureInv'
  BY <1>3 DEF CheckChunk, rowVars
<1>4. ASSUME NEW r \in Runs, LogResult(r)
      PROVE  FailureInv'
  BY <1>4 DEF LogResult, rowVars
<1>5. ASSUME NEW r \in Runs, UpdateRow(r)
      PROVE  FailureInv'
  <2> DEFINE e == cur[r]
  <2>1. e \in Endpoints
    BY <1>5 DEF UpdateRow, ControlOK
  <2>2. NewFailures(snap[r][e], verdict[r][e]) <= log[e].failed
    BY <1>5, <2>1 DEF UpdateRow, NewFailures
  <2>3. FailureCountBacked'
    BY <1>5, <2>1, <2>2 DEF UpdateRow
  <2>4. ASSUME NEW q \in Runs, NEW x \in Endpoints
        PROVE  snap'[q][x].failures <= log'[x].failed
    BY <1>5, <2>1 DEF UpdateRow, NoSnapshot
  <2>5. ASSUME NEW q \in Runs, NEW x \in Endpoints, pc'[q] = "update",
               cur'[q] = x, verdict'[q][x] = "failed"
        PROVE  snap'[q][x].failures < log'[x].failed
    <3>1. pc'[r] # "update"
      BY <1>5, AfterResultType DEF UpdateRow
    <3>2. q # r
      BY <2>5, <3>1
    <3> QED
      BY <1>5, <2>1, <2>5, <3>2 DEF UpdateRow
  <2> QED
    BY <2>3, <2>4, <2>5
<1>6. ASSUME NEW r \in Runs, SkipAlert(r) \/ Dispatch(r)
      PROVE  FailureInv'
  <2>1. AfterResult(r, verdict[r]) # "update"
    BY AfterResultType
  <2>2. /\ pc' = [pc EXCEPT ![r] = AfterResult(r, verdict[r])]
        /\ cur' = [cur EXCEPT ![r] = None]
        /\ UNCHANGED <<consecutiveFailures, log, snap, verdict>>
    BY <1>6 DEF SkipAlert, Dispatch, EndAlert, rowVars
  <2> QED
    BY <2>1, <2>2
<1>6a. ASSUME NEW r \in Runs, PassCooldown(r) \/ Notify(r) \/ SetCooldown(r)
       PROVE  FailureInv'
  BY <1>6a DEF PassCooldown, Notify, SetCooldown, rowVars
<1>7. ASSUME NEW r \in Runs, Abort(r)
      PROVE  FailureInv'
  BY <1>7 DEF Abort, rowVars, NoSnapshot
<1>8. ASSUME Environment
      PROVE  FailureInv'
  <2>1. UNCHANGED <<log, runVars>>
    BY <1>8 DEF Environment, RequestFind, RequestWrite, Tick
  <2>2. \A e \in Endpoints : consecutiveFailures'[e] \in {consecutiveFailures[e], 0}
    BY <1>8 DEF Environment, RequestFind, RequestWrite, Tick, rowVars
  <2>3. FailureCountBacked'
    <3> SUFFICES ASSUME NEW e \in Endpoints
                 PROVE  consecutiveFailures'[e] <= log'[e].failed
      OBVIOUS
    <3>1. log' = log /\ log[e].failed \in Nat
      BY <2>1
    <3>2. consecutiveFailures[e] <= log[e].failed /\ 0 <= log[e].failed
      BY <3>1
    <3> QED
      BY <2>2, <3>1, <3>2
  <2>4. SnapshotsBacked'
    BY <2>1 DEF runVars
  <2> QED
    BY <2>3, <2>4
<1>9. CASE UNCHANGED vars
  BY <1>9 DEF vars, runVars, rowVars
<1> QED
  BY <1>1, <1>2, <1>3, <1>4, <1>5, <1>6, <1>6a, <1>7, <1>8, <1>9 DEF Next, RunStep

\* The counter of an endpoint never exceeds the failed checks on record, whatever
\* runs, requests and aborted runs interleave.
THEOREM FailureCountCorrect == Spec => []FailureCountBacked
<1>1. FailureInv => FailureCountBacked
  BY DEF FailureInv
<1>2. QED
  BY <1>1, TypeCorrect, FailureInit, FailureStep, PTL DEF Spec

-----------------------------------------------------------------------------
(* Alerts have their cause on record *)

\* monitoring_log only grows.
LEMMA LogGrows ==
    ASSUME TypeOK, [Next]_vars, NEW e \in Endpoints
    PROVE  /\ log[e].failed \in Nat /\ log'[e].failed \in Nat
           /\ log[e].slow \in Nat /\ log'[e].slow \in Nat
           /\ log[e].failed <= log'[e].failed
           /\ log[e].slow <= log'[e].slow
<1> USE DEF TypeOK
<1>1. ASSUME NEW r \in Runs, LogResult(r)
      PROVE  /\ log'[e].failed \in Nat /\ log'[e].slow \in Nat
             /\ log[e].failed <= log'[e].failed
             /\ log[e].slow <= log'[e].slow
  BY <1>1 DEF LogResult
<1>2. CASE UNCHANGED log
  BY <1>2
<1> QED
  BY <1>1, <1>2
  DEF Next, RunStep, Environment, CronFire, FindTargets, CheckChunk, UpdateRow,
      SkipAlert, PassCooldown, Notify, SetCooldown, Dispatch, Abort, RequestFind,
      RequestWrite, Tick, vars

\* Enough failed checks stay enough.
LEMMA FailedEnoughStable ==
    ASSUME TypeOK, [Next]_vars, NEW e \in Endpoints, FailedEnough(e)
    PROVE  FailedEnough(e)'
BY LogGrows, CadenceAssumption DEF FailedEnough

\* Enough failed checks are at least one.
LEMMA FailedEnoughPositive ==
    ASSUME TypeOK, NEW e \in Endpoints, FailedEnough(e)
    PROVE  log[e].failed > 0
BY CadenceAssumption DEF FailedEnough, TypeOK

JustifiedInv ==
    /\ AlertsJustified
    /\ SnapshotsJustified
    /\ AlertsInFlightJustified

\* Every endpoint is UP and nothing is announced initially.
LEMMA JustifiedInit == Init => JustifiedInv
BY DEF Init, JustifiedInv, AlertsJustified, SnapshotsJustified,
       AlertsInFlightJustified, NoSnapshot, NoResult, AlertTypes, None

\* The row that a run computes from its snapshot, and the alert it decides on.
LEMMA UpdateJustified ==
    ASSUME TypeOK, ControlOK, FailureInv, SnapshotsJustified,
           NEW r \in Runs, UpdateRow(r)
    PROVE  LET s == snap[r][cur[r]]
               v == verdict[r][cur[r]]
               send == AlertFor(s.status, NewStatus(s, v), v)
           IN  /\ NewStatus(s, v) = "DOWN" => FailedEnough(cur[r])
               /\ NewStatus(s, v) = "SLOW" => log[cur[r]].slow > 0
               /\ send = "DOWN" => FailedEnough(cur[r])
               /\ send = "SLOW" => log[cur[r]].slow > 0
               /\ send = "UP" => log[cur[r]].failed + log[cur[r]].slow > 0
<1> DEFINE e == cur[r]
           s == snap[r][e]
           v == verdict[r][e]
<1>1. e \in Endpoints /\ v \in Verdicts /\ pc[r] = "update"
  BY DEF UpdateRow, ControlOK
<1>2. s.threshold \in Thresholds
  BY <1>1 DEF SnapshotsJustified, Verdicts, None
<1>3. s \in [status: Statuses, failures: Nat, threshold: Nat]
      /\ log[e].failed \in Nat /\ log[e].slow \in Nat
  BY <1>1 DEF TypeOK
<1>4. NewStatus(s, v) = "DOWN" => FailedEnough(e)
  <2>1. CASE v = "failed" /\ NewFailures(s, v) >= s.threshold
    <3>1. s.failures < log[e].failed
      BY <1>1, <2>1 DEF FailureInv, SnapshotsBacked
    <3> QED
      BY <1>2, <1>3, <2>1, <3>1, CadenceAssumption DEF NewFailures, FailedEnough
  <2>2. CASE v = "failed" /\ ~(NewFailures(s, v) >= s.threshold)
    BY <1>1, <2>2 DEF NewStatus, SnapshotsJustified
  <2>3. CASE v # "failed"
    BY <1>1, <2>3 DEF NewStatus, Verdicts
  <2> QED
    BY <2>1, <2>2, <2>3
<1>5. NewStatus(s, v) = "SLOW" => log[e].slow > 0
  BY <1>1 DEF NewStatus, SnapshotsJustified, Verdicts
<1>6. s.status \in {"DOWN", "SLOW"} => log[e].failed + log[e].slow > 0
  BY <1>1, <1>3, FailedEnoughPositive DEF SnapshotsJustified
<1> QED
  BY <1>4, <1>5, <1>6 DEF AlertFor, None

\* Statuses, snapshots, alerts in flight and notifications hand their cause on.
LEMMA JustifiedStep ==
    TypeOK /\ ControlOK /\ FailureInv /\ JustifiedInv /\ [Next]_vars => JustifiedInv'
<1> SUFFICES ASSUME TypeOK, ControlOK, FailureInv, JustifiedInv, [Next]_vars
             PROVE  JustifiedInv'
  OBVIOUS
<1>0. \A e \in Endpoints :
        /\ FailedEnough(e) => FailedEnough(e)'
        /\ log[e].slow > 0 => log'[e].slow > 0
        /\ log[e].failed + log[e].slow > 0 => log'[e].failed + log'[e].slow > 0
  BY LogGrows, FailedEnoughStable
<1> USE DEF JustifiedInv, AlertsJustified, SnapshotsJustified, AlertsInFlightJustified
<1>1. ASSUME NEW r \in Runs, CronFire(r)
      PROVE  JustifiedInv'
  BY <1>1 DEF CronFire, rowVars, FailedEnough, TypeOK
<1>2. ASSUME NEW r \in Runs, FindTargets(r)
      PROVE  JustifiedInv'
  BY <1>2 DEF FindTargets, rowVars, FailedEnough, TypeOK, ControlOK, NoSnapshot
<1>3. ASSUME NEW r \in Runs, CheckChunk(r)
      PROVE  JustifiedInv'
  BY <1>3 DEF CheckChunk, rowVars, FailedEnough, TypeOK, ControlOK
<1>4. ASSUME NEW r \in Runs, LogResult(r)
      PROVE  JustifiedInv'
  <2>1. AlertsJustified'
    BY <1>0, <1>4 DEF LogResult, rowVars
  <2>2. PICK x \in Endpoints :
          /\ cur' = [cur EXCEPT ![r] = x]
          /\ log' = [log EXCEPT ![x] =
               [failed |-> IF verdict[r][x] = "failed" THEN @.failed + 1 ELSE @.failed,
                slow   |-> IF verdict[r][x] = "slow" THEN @.slow + 1 ELSE @.slow,
                streak |-> IF verdict[r][x] = "failed" THEN @.streak + 1 ELSE 0]]
    BY <1>4 DEF LogResult
  <2>3. verdict[r][x] = "slow" => log'[x].slow > 0
    BY <2>2 DEF TypeOK
  <2>4. /\ pc' = [pc EXCEPT ![r] = "update"]
        /\ UNCHANGED <<todo, snap, verdict, alert>>
    BY <1>4 DEF LogResult
  <2>5. SnapshotsJustified'
    BY <1>0, <2>2, <2>3, <2>4 DEF TypeOK
  <2>6. AlertsInFlightJustified'
    BY <1>0, <2>2, <2>4 DEF TypeOK, ControlOK
  <2> QED
    BY <2>1, <2>5, <2>6
<1>5. ASSUME NEW r \in Runs, UpdateRow(r)
      PROVE  JustifiedInv'
  <2> DEFINE e == cur[r]
             s == snap[r][e]
             v == verdict[r][e]
             send == AlertFor(s.status, NewStatus(s, v), v)
             pending == [verdict[r] EXCEPT ![e] = None]
             new == NewStatus(s, v)
  <2>1. /\ e \in Endpoints
        /\ status' = [status EXCEPT ![e] = new]
        /\ verdict' = [verdict EXCEPT ![r] = pending]
        /\ snap' = [snap EXCEPT ![r][e] = NoSnapshot]
        /\ alert' = [alert EXCEPT ![r] = send]
        /\ cur' = [cur EXCEPT ![r] = IF send = None THEN None ELSE e]
        /\ pc' = [pc EXCEPT ![r] = IF send = None THEN AfterResult(r, pending) ELSE "exists"]
        /\ UNCHANGED <<log, notified, todo>>
    BY <1>5 DEF UpdateRow, ControlOK
  <2>2. /\ new = "DOWN" => FailedEnough(e)
        /\ new = "SLOW" => log[e].slow > 0
        /\ send = "DOWN" => FailedEnough(e)
        /\ send = "SLOW" => log[e].slow > 0
        /\ send = "UP" => log[e].failed + log[e].slow > 0
    BY <1>5, UpdateJustified
  <2>3. AfterResult(r, pending) \in {"log", "check", "idle"}
    BY AfterResultType
  <2>4. send = None => /\ pc'[r] \in {"log", "check", "idle"}
                       /\ \A q \in Runs \ {r} : pc'[q] = pc[q]
    BY <2>1, <2>3 DEF TypeOK
  <2> HIDE DEF send, new
  <2>5. AlertsJustified'
    BY <1>0, <2>1, <2>2 DEF TypeOK
  <2>6. SnapshotsJustified'
    <3> SUFFICES ASSUME NEW q \in Runs, NEW x \in Endpoints
                 PROVE  /\ snap'[q][x].status = "DOWN" => FailedEnough(x)'
                        /\ snap'[q][x].status = "SLOW" => log'[x].slow > 0
                        /\ x \in todo'[q] \/ verdict'[q][x] # None
                             => snap'[q][x].threshold \in Thresholds
                        /\ pc'[q] = "update" /\ cur'[q] = x /\ verdict'[q][x] = "slow"
                             => log'[x].slow > 0
      BY Zenon
    <3>1. CASE q = r /\ x = e
      <4>1. snap'[q][x] = NoSnapshot /\ verdict'[q][x] = None
        BY <2>1, <3>1 DEF TypeOK
      <4>2. x \notin todo'[q]
        BY <1>5, <2>1, <3>1 DEF ControlOK, UpdateRow, Verdicts, None
      <4> QED
        BY <4>1, <4>2 DEF NoSnapshot, None
    <3>2. CASE ~(q = r /\ x = e)
      <4>1. snap'[q][x] = snap[q][x] /\ verdict'[q][x] = verdict[q][x]
        BY <2>1, <3>2 DEF TypeOK
      <4>2. pc'[q] = "update" => pc[q] = "update" /\ cur'[q] = cur[q]
        BY <2>1, <2>3 DEF TypeOK
      <4> QED
        BY <1>0, <2>1, <4>1, <4>2
    <3> QED
      BY <3>1, <3>2
  <2>7. AlertsInFlightJustified'
    BY <1>0, <2>1, <2>2, <2>4 DEF TypeOK
  <2> QED
    BY <2>5, <2>6, <2>7
<1>6. ASSUME NEW r \in Runs, SkipAlert(r) \/ Dispatch(r)
      PROVE  JustifiedInv'
  <2>1. AfterResult(r, verdict[r]) \in {"log", "check", "idle"}
    BY AfterResultType
  <2>2. /\ pc' = [pc EXCEPT ![r] = AfterResult(r, verdict[r])]
        /\ cur' = [cur EXCEPT ![r] = None]
        /\ alert' = [alert EXCEPT ![r] = None]
        /\ UNCHANGED <<status, log, notified, todo, snap, verdict>>
    BY <1>6 DEF SkipAlert, Dispatch, EndAlert, rowVars
  <2>3. AlertsJustified' /\ SnapshotsJustified'
    BY <1>0, <2>1, <2>2 DEF TypeOK
  <2>4. AlertsInFlightJustified'
    BY <1>0, <2>1, <2>2 DEF TypeOK
  <2> QED
    BY <2>3, <2>4
<1>7. ASSUME NEW r \in Runs, Notify(r)
      PROVE  JustifiedInv'
  BY <1>7 DEF Notify, rowVars, FailedEnough, TypeOK, ControlOK
<1>8. ASSUME NEW r \in Runs, PassCooldown(r) \/ SetCooldown(r)
      PROVE  JustifiedInv'
  <2>1. /\ pc[r] \in {"exists", "setex"}
        /\ pc' \in {[pc EXCEPT ![r] = "notify"], [pc EXCEPT ![r] = "dispatch"]}
        /\ UNCHANGED <<status, log, notified, todo, snap, verdict, cur, alert>>
    BY <1>8 DEF PassCooldown, SetCooldown, rowVars
  <2>2. AlertsJustified' /\ SnapshotsJustified'
    BY <1>0, <2>1 DEF TypeOK
  <2>3. AlertsInFlightJustified'
    BY <1>0, <2>1 DEF TypeOK
  <2> QED
    BY <2>2, <2>3
<1>9. ASSUME NEW r \in Runs, Abort(r)
      PROVE  JustifiedInv'
  BY <1>9 DEF Abort, rowVars, FailedEnough, TypeOK, NoSnapshot, NoResult
<1>10. ASSUME Environment
       PROVE  JustifiedInv'
  <2>1. UNCHANGED <<log, notified, runVars>>
    BY <1>10 DEF Environment, RequestFind, RequestWrite, Tick
  <2>2. \A e \in Endpoints : status'[e] \in {status[e], "UP", "PAUSED"}
    BY <1>10 DEF Environment, RequestFind, RequestWrite, Tick, rowVars, TypeOK
  <2> QED
    BY <2>1, <2>2 DEF runVars, FailedEnough
<1>11. CASE UNCHANGED vars
  BY <1>11 DEF vars, runVars, rowVars, FailedEnough
<1> QED
  BY <1>1, <1>2, <1>3, <1>4, <1>5, <1>6, <1>7, <1>8, <1>9, <1>10, <1>11
  DEF Next, RunStep

\* No DOWN, SLOW or UP alert, and no DOWN or SLOW status, without its cause among
\* the recorded checks, whatever runs, requests and aborted runs interleave.
THEOREM AlertsAlwaysJustified == Spec => []AlertsJustified
<1>1. JustifiedInv => AlertsJustified
  BY DEF JustifiedInv
<1>2. QED
  BY <1>1, TypeCorrect, FailureInit, FailureStep, JustifiedInit, JustifiedStep, PTL
  DEF Spec

-----------------------------------------------------------------------------
(* A DOWN status is announced *)

\* No endpoint is DOWN initially.
LEMMA DownInit == Init => DownTracked
BY DEF Init, DownTracked, NoSnapshot, AlertTypes

\* A snapshot that is not DOWN and becomes DOWN sends the DOWN alert.
LEMMA DownIsSent ==
    ASSUME NEW s, NEW v \in Verdicts, NewStatus(s, v) = "DOWN", s.status # "DOWN"
    PROVE  AlertFor(s.status, NewStatus(s, v), v) = "DOWN"
BY DEF NewStatus, AlertFor, Verdicts

\* What a step has to respect: notifications stay, a DOWN in flight stays in
\* flight until it is notified, and a DOWN of a row or a snapshot was there before
\* or is in flight now.
LEMMA DownKept ==
    ASSUME DownTracked,
           faults' = 0 => faults = 0,
           \A x \in Endpoints : DownNotified(x) => DownNotified(x)',
           \A x \in Endpoints : DownInFlight(x) => DownNotified(x)' \/ DownInFlight(x)',
           \A x \in Endpoints :
             cooldown'[x]["DOWN"] > 0 => cooldown[x]["DOWN"] > 0 \/ DownNotified(x)',
           \A q \in Runs, x \in Endpoints :
             pc'[q] \in {"setex", "dispatch"} /\ cur'[q] = x /\ alert'[q] = "DOWN"
               => \/ pc[q] \in {"setex", "dispatch"} /\ cur[q] = x /\ alert[q] = "DOWN"
                  \/ DownNotified(x)',
           \A x \in Endpoints :
             status'[x] = "DOWN" => \/ status[x] = "DOWN"
                                    \/ \E q \in Runs : snap[q][x].status = "DOWN"
                                    \/ DownInFlight(x)',
           \A q \in Runs, x \in Endpoints :
             snap'[q][x].status = "DOWN" => snap[q][x].status = "DOWN" \/ status[x] = "DOWN"
    PROVE  DownTracked'
BY DEF DownTracked

\* A run that is not about to notify can move without touching the DOWNs in flight.
LEMMA InFlightKept ==
    ASSUME NEW r \in Runs, NEW x \in Endpoints,
           pc[r] \notin {"exists", "notify"},
           \A q \in Runs \ {r} : pc'[q] = pc[q] /\ cur'[q] = cur[q] /\ alert'[q] = alert[q],
           DownInFlight(x)
    PROVE  DownInFlight(x)'
BY DEF DownInFlight

\* A run that makes an endpoint DOWN takes the alert with it until it is notified or
\* finds the key of an earlier one.
LEMMA DownStep ==
    TypeOK /\ ControlOK /\ DownTracked /\ [Next]_vars => DownTracked'
<1> SUFFICES ASSUME TypeOK, ControlOK, DownTracked, [Next]_vars
             PROVE  DownTracked'
  OBVIOUS
<1>0. UNCHANGED notified => \A x \in Endpoints : DownNotified(x) => DownNotified(x)'
  BY DEF DownNotified
<1>1. ASSUME NEW r \in Runs, CronFire(r) \/ CheckChunk(r) \/ LogResult(r)
      PROVE  DownTracked'
  <2>1. /\ pc[r] \notin {"exists", "notify"}
        /\ pc'[r] \notin {"setex", "dispatch"}
        /\ \A q \in Runs \ {r} : pc'[q] = pc[q] /\ cur'[q] = cur[q]
        /\ UNCHANGED <<status, notified, cooldown, snap, alert, faults>>
    BY <1>1 DEF CronFire, CheckChunk, LogResult, rowVars, TypeOK
  <2>2. \A x \in Endpoints : DownInFlight(x) => DownInFlight(x)'
    BY <2>1, InFlightKept
  <2> QED
    BY <1>0, <2>1, <2>2, DownKept
<1>2. ASSUME NEW r \in Runs, FindTargets(r)
      PROVE  DownTracked'
  <2>1. /\ pc[r] \notin {"exists", "notify"}
        /\ pc'[r] \notin {"setex", "dispatch"}
        /\ \A q \in Runs \ {r} : pc'[q] = pc[q]
        /\ UNCHANGED <<status, notified, cooldown, cur, alert, faults>>
    BY <1>2 DEF FindTargets, rowVars, TypeOK
  <2>2. \A x \in Endpoints : DownInFlight(x) => DownInFlight(x)'
    BY <2>1, InFlightKept
  <2>3. \A q \in Runs, x \in Endpoints :
          snap'[q][x].status = "DOWN" => snap[q][x].status = "DOWN" \/ status[x] = "DOWN"
    BY <1>2 DEF FindTargets, NoSnapshot, TypeOK
  <2> QED
    BY <1>0, <2>1, <2>2, <2>3, DownKept
<1>3. ASSUME NEW r \in Runs, UpdateRow(r)
      PROVE  DownTracked'
  <2>0. PICK e \in Endpoints : e = cur[r]
    BY <1>3 DEF UpdateRow, ControlOK
  <2> DEFINE s == snap[r][e]
             v == verdict[r][e]
             pending == [verdict[r] EXCEPT ![e] = None]
             new == NewStatus(s, v)
             send == AlertFor(s.status, new, v)
  <2>1. /\ e \in Endpoints /\ v \in Verdicts
        /\ pc[r] = "update"
        /\ status' = [status EXCEPT ![e] = new]
        /\ snap' = [snap EXCEPT ![r][e] = NoSnapshot]
        /\ alert' = [alert EXCEPT ![r] = send]
        /\ cur' = [cur EXCEPT ![r] = IF send = None THEN None ELSE e]
        /\ pc' = [pc EXCEPT ![r] = IF send = None THEN AfterResult(r, pending) ELSE "exists"]
        /\ UNCHANGED <<notified, cooldown, faults>>
    BY <1>3, <2>0 DEF UpdateRow, ControlOK
  <2>2. new = "DOWN" => s.status = "DOWN" \/ send = "DOWN"
    BY <2>1, DownIsSent
  <2>3. AfterResult(r, pending) \in {"log", "check", "idle"}
    BY AfterResultType
  <2> HIDE DEF send, new, pending
  <2>4. /\ pc'[r] \notin {"setex", "dispatch"}
        /\ \A q \in Runs \ {r} : pc'[q] = pc[q] /\ cur'[q] = cur[q] /\ alert'[q] = alert[q]
    BY <2>1, <2>3 DEF TypeOK
  <2>5. \A x \in Endpoints : DownInFlight(x) => DownInFlight(x)'
    BY <2>1, <2>4, InFlightKept
  <2>6. send = "DOWN" => DownInFlight(e)'
    BY <2>1 DEF None, DownInFlight, TypeOK
  <2>7. \A x \in Endpoints :
          status'[x] = "DOWN" => \/ status[x] = "DOWN"
                                 \/ \E q \in Runs : snap[q][x].status = "DOWN"
                                 \/ DownInFlight(x)'
    <3> SUFFICES ASSUME NEW x \in Endpoints, status'[x] = "DOWN"
                 PROVE  \/ status[x] = "DOWN"
                        \/ \E q \in Runs : snap[q][x].status = "DOWN"
                        \/ DownInFlight(x)'
      OBVIOUS
    <3>2. CASE x = e
      BY <2>1, <2>2, <2>6, <3>2 DEF TypeOK
    <3>3. CASE x # e
      BY <2>1, <3>3 DEF TypeOK
    <3> QED
      BY <3>2, <3>3
  <2>8. \A q \in Runs, x \in Endpoints :
          snap'[q][x].status = "DOWN" => snap[q][x].status = "DOWN" \/ status[x] = "DOWN"
    BY <2>1 DEF NoSnapshot, TypeOK
  <2> QED
    BY <1>0, <2>1, <2>4, <2>5, <2>7, <2>8, DownKept
<1>4. ASSUME NEW r \in Runs, SkipAlert(r)
      PROVE  DownTracked'
  <2>1. AfterResult(r, verdict[r]) \in {"log", "check", "idle"}
    BY AfterResultType
  <2>2. /\ pc[r] = "exists" /\ now < cooldown[cur[r]][alert[r]]
        /\ pc' = [pc EXCEPT ![r] = AfterResult(r, verdict[r])]
        /\ cur' = [cur EXCEPT ![r] = None]
        /\ alert' = [alert EXCEPT ![r] = None]
        /\ UNCHANGED <<status, notified, cooldown, snap, faults>>
    BY <1>4 DEF SkipAlert, CooldownAlive, EndAlert, rowVars
  <2>3. alert[r] = "DOWN" => DownNotified(cur[r])
    BY <2>2 DEF ControlOK, AlertTypes, DownTracked, TypeOK
  <2>4. \A x \in Endpoints : DownInFlight(x) => DownNotified(x) \/ DownInFlight(x)'
    BY <2>1, <2>2, <2>3 DEF DownInFlight
  <2>5. /\ pc'[r] \notin {"setex", "dispatch"}
        /\ \A q \in Runs \ {r} : pc'[q] = pc[q] /\ cur'[q] = cur[q] /\ alert'[q] = alert[q]
    BY <2>1, <2>2 DEF TypeOK
  <2> QED
    BY <1>0, <2>2, <2>4, <2>5, DownKept
<1>5. ASSUME NEW r \in Runs, PassCooldown(r)
      PROVE  DownTracked'
  <2>1. /\ pc[r] = "exists" /\ pc'[r] = "notify"
        /\ \A q \in Runs \ {r} : pc'[q] = pc[q]
        /\ UNCHANGED <<status, notified, cooldown, snap, cur, alert, faults>>
    BY <1>5 DEF PassCooldown, rowVars, TypeOK
  <2>2. \A x \in Endpoints : DownInFlight(x) => DownInFlight(x)'
    BY <2>1 DEF DownInFlight
  <2> QED
    BY <1>0, <2>1, <2>2, DownKept
<1>6. ASSUME NEW r \in Runs, Notify(r)
      PROVE  DownTracked'
  <2>1. /\ pc[r] = "notify" /\ cur[r] \in Endpoints /\ alert[r] \in AlertTypes
        /\ notified' = [notified EXCEPT ![cur[r]][alert[r]] =
                          [count |-> @.count + 1, last |-> now]]
        /\ pc'[r] = "setex"
        /\ \A q \in Runs \ {r} : pc'[q] = pc[q]
        /\ UNCHANGED <<status, cooldown, snap, cur, alert, faults>>
    BY <1>6 DEF Notify, ControlOK, rowVars, TypeOK
  <2>2. \A x \in Endpoints : DownNotified(x) => DownNotified(x)'
    BY <2>1 DEF DownNotified, TypeOK
  <2>3. alert[r] = "DOWN" => DownNotified(cur[r])'
    BY <2>1 DEF AlertTypes, DownNotified, TypeOK
  <2>4. \A x \in Endpoints : DownInFlight(x) => DownNotified(x)' \/ DownInFlight(x)'
    BY <2>1, <2>3 DEF DownInFlight
  <2>5. \A q \in Runs, x \in Endpoints :
          pc'[q] \in {"setex", "dispatch"} /\ cur'[q] = x /\ alert'[q] = "DOWN"
            => \/ pc[q] \in {"setex", "dispatch"} /\ cur[q] = x /\ alert[q] = "DOWN"
               \/ DownNotified(x)'
    BY <2>1, <2>3
  <2> QED
    BY <2>1, <2>2, <2>4, <2>5, DownKept
<1>7. ASSUME NEW r \in Runs, SetCooldown(r)
      PROVE  DownTracked'
  <2>1. /\ pc[r] = "setex" /\ cur[r] \in Endpoints /\ alert[r] \in AlertTypes
        /\ cooldown' = [cooldown EXCEPT ![cur[r]][alert[r]] = now + CooldownTTL]
        /\ pc'[r] = "dispatch"
        /\ \A q \in Runs \ {r} : pc'[q] = pc[q]
        /\ UNCHANGED <<status, notified, snap, cur, alert, faults>>
    BY <1>7 DEF SetCooldown, ControlOK, rowVars, TypeOK
  <2>2. \A x \in Endpoints : DownInFlight(x) => DownInFlight(x)'
    BY <2>1, InFlightKept
  <2>3. \A x \in Endpoints :
          cooldown'[x]["DOWN"] > 0 => cooldown[x]["DOWN"] > 0 \/ DownNotified(x)
    BY <2>1 DEF DownTracked, AlertTypes, TypeOK
  <2>4. \A q \in Runs, x \in Endpoints :
          pc'[q] \in {"setex", "dispatch"} /\ cur'[q] = x /\ alert'[q] = "DOWN"
            => pc[q] \in {"setex", "dispatch"} /\ cur[q] = x /\ alert[q] = "DOWN"
    BY <2>1
  <2> QED
    BY <1>0, <2>1, <2>2, <2>3, <2>4, DownKept
<1>8. ASSUME NEW r \in Runs, Dispatch(r)
      PROVE  DownTracked'
  <2>1. AfterResult(r, verdict[r]) \in {"log", "check", "idle"}
    BY AfterResultType
  <2>2. /\ pc[r] = "dispatch"
        /\ pc'[r] \notin {"setex", "dispatch"}
        /\ \A q \in Runs \ {r} : pc'[q] = pc[q] /\ cur'[q] = cur[q] /\ alert'[q] = alert[q]
        /\ UNCHANGED <<status, notified, cooldown, snap, faults>>
    BY <1>8, <2>1 DEF Dispatch, EndAlert, rowVars, TypeOK
  <2>3. \A x \in Endpoints : DownInFlight(x) => DownInFlight(x)'
    BY <2>2, InFlightKept
  <2> QED
    BY <1>0, <2>2, <2>3, DownKept
<1>9. ASSUME NEW r \in Runs, Abort(r)
      PROVE  DownTracked'
  <2>1. faults' # 0
    BY <1>9 DEF Abort, TypeOK
  <2>2. /\ \A q \in Runs \ {r} : pc'[q] = pc[q] /\ cur'[q] = cur[q] /\ alert'[q] = alert[q]
        /\ pc'[r] = "idle"
        /\ UNCHANGED <<notified, cooldown>>
    BY <1>9 DEF Abort, TypeOK
  <2> QED
    BY <1>0, <2>1, <2>2 DEF DownTracked
<1>10. ASSUME Environment
       PROVE  DownTracked'
  <2>1. UNCHANGED <<notified, cooldown, faults, pc, snap, cur, alert>>
    BY <1>10 DEF Environment, RequestFind, RequestWrite, Tick, runVars
  <2>2. \A e \in Endpoints : status'[e] \in {status[e], "UP", "PAUSED"}
    BY <1>10 DEF Environment, RequestFind, RequestWrite, Tick, rowVars, TypeOK
  <2>3. \A x \in Endpoints : DownInFlight(x) => DownInFlight(x)'
    BY <2>1 DEF DownInFlight
  <2> QED
    BY <1>0, <2>1, <2>2, <2>3, DownKept
<1>11. CASE UNCHANGED vars
  BY <1>11 DEF vars, runVars, rowVars, DownTracked, DownNotified, DownInFlight
<1> QED
  BY <1>1, <1>2, <1>3, <1>4, <1>5, <1>6, <1>7, <1>8, <1>9, <1>10, <1>11
  DEF Next, RunStep

\* As long as no run has been aborted, an endpoint shown DOWN while every run is
\* idle has had its DOWN notification, however many schedulers and requests write
\* to its row.
THEOREM DownAlwaysAnnounced == Spec => []DownAnnounced
<1>1. DownTracked => DownAnnounced
  BY DEF DownTracked, DownAnnounced, DownNotified, DownInFlight, AllIdle
<1>2. QED
  BY <1>1, TypeCorrect, DownInit, DownStep, PTL DEF Spec

-----------------------------------------------------------------------------
(* Webhooks follow notifications *)

\* The runs that have stored a notification and not dispatched it yet.
Carrying(e, t) ==
    {r \in Runs : pc[r] \in {"setex", "dispatch"} /\ cur[r] = e /\ alert[r] = t}

\* A notification pays for one dispatch, made or still to be made.
DispatchInv ==
    \A e \in Endpoints, t \in AlertTypes :
      dispatched[e][t] + Cardinality(Carrying(e, t)) <= notified[e][t].count

\* There are finitely many runs, so those that carry a notification can be counted.
LEMMA CarryingFinite ==
    ASSUME NEW S \in SUBSET Runs
    PROVE  IsFiniteSet(S) /\ Cardinality(S) \in Nat
<1>1. IsFiniteSet(Runs)
  BY FiniteAssumption, FS_Product DEF Runs
<1> QED
  BY <1>1, FS_Subset, FS_CardinalityType

\* Nothing is notified and no run carries an alert initially.
LEMMA DispatchInit == Init => DispatchInv
<1> SUFFICES ASSUME Init, NEW e \in Endpoints, NEW t \in AlertTypes
             PROVE  dispatched[e][t] + Cardinality(Carrying(e, t)) <= notified[e][t].count
  BY DEF DispatchInv
<1>1. Carrying(e, t) = {}
  BY DEF Init, Carrying
<1>2. Cardinality(Carrying(e, t)) = 0
  BY <1>1, FS_EmptySet
<1> QED
  BY <1>2 DEF Init

\* A step that neither stores a notification nor dispatches one, and gives no run a
\* notification to carry, keeps the balance.
LEMMA DispatchKept ==
    ASSUME TypeOK, DispatchInv, UNCHANGED <<notified, dispatched>>,
           \A q \in Runs :
             pc'[q] \in {"setex", "dispatch"} =>
               /\ pc[q] \in {"setex", "dispatch"}
               /\ cur'[q] = cur[q]
               /\ alert'[q] = alert[q]
    PROVE  DispatchInv'
<1> SUFFICES ASSUME NEW e \in Endpoints, NEW t \in AlertTypes
             PROVE  dispatched'[e][t] + Cardinality(Carrying(e, t)') <= notified'[e][t].count
  BY DEF DispatchInv
<1>1. Carrying(e, t)' \subseteq Carrying(e, t) /\ Carrying(e, t) \subseteq Runs
  BY DEF Carrying
<1>2. /\ Cardinality(Carrying(e, t)') <= Cardinality(Carrying(e, t))
      /\ Cardinality(Carrying(e, t)') \in Nat
      /\ Cardinality(Carrying(e, t)) \in Nat
  BY <1>1, CarryingFinite, FS_Subset
<1>3. dispatched[e][t] + Cardinality(Carrying(e, t)) <= notified[e][t].count
  BY DEF DispatchInv
<1>4. dispatched[e][t] \in Nat /\ notified[e][t].count \in Nat
  BY DEF TypeOK
<1> QED
  BY <1>2, <1>3, <1>4

\* Storing a notification gives its run one dispatch to make, dispatching uses it up,
\* and an abort loses it.
LEMMA DispatchStep ==
    TypeOK /\ ControlOK /\ DispatchInv /\ [Next]_vars => DispatchInv'
<1> SUFFICES ASSUME TypeOK, ControlOK, DispatchInv, [Next]_vars
             PROVE  DispatchInv'
  OBVIOUS
<1>1. ASSUME NEW r \in Runs,
             \/ CronFire(r) \/ FindTargets(r) \/ CheckChunk(r) \/ LogResult(r)
             \/ SkipAlert(r) \/ PassCooldown(r) \/ SetCooldown(r) \/ Abort(r)
      PROVE  DispatchInv'
  <2>1. AfterResult(r, verdict[r]) \in {"log", "check", "idle"}
    BY AfterResultType
  <2>2. UNCHANGED <<notified, dispatched>>
    BY <1>1 DEF CronFire, FindTargets, CheckChunk, LogResult, SkipAlert, PassCooldown,
               SetCooldown, Abort
  <2>3. ASSUME NEW q \in Runs, pc'[q] \in {"setex", "dispatch"}
        PROVE  pc[q] \in {"setex", "dispatch"} /\ cur'[q] = cur[q] /\ alert'[q] = alert[q]
    <3>1. CASE SkipAlert(r)
      BY <2>1, <2>3, <3>1 DEF SkipAlert, EndAlert, TypeOK
    <3>2. CASE CronFire(r) \/ FindTargets(r) \/ CheckChunk(r) \/ LogResult(r)
      BY <2>3, <3>2 DEF CronFire, FindTargets, CheckChunk, LogResult, TypeOK
    <3>3. CASE PassCooldown(r) \/ SetCooldown(r)
      BY <2>3, <3>3 DEF PassCooldown, SetCooldown, TypeOK
    <3>4. CASE Abort(r)
      BY <2>3, <3>4 DEF Abort, TypeOK
    <3> QED
      BY <1>1, <3>1, <3>2, <3>3, <3>4
  <2> QED
    BY <2>2, <2>3, DispatchKept
<1>2. ASSUME NEW r \in Runs, UpdateRow(r)
      PROVE  DispatchInv'
  <2> DEFINE e == cur[r]
             s == snap[r][e]
             v == verdict[r][e]
             send == AlertFor(s.status, NewStatus(s, v), v)
             pending == [verdict[r] EXCEPT ![e] = None]
  <2>1. /\ alert' = [alert EXCEPT ![r] = send]
        /\ cur' = [cur EXCEPT ![r] = IF send = None THEN None ELSE e]
        /\ pc' = [pc EXCEPT ![r] = IF send = None THEN AfterResult(r, pending) ELSE "exists"]
        /\ UNCHANGED <<notified, dispatched>>
    BY <1>2 DEF UpdateRow
  <2>2. AfterResult(r, pending) \in {"log", "check", "idle"}
    BY AfterResultType
  <2> HIDE DEF send, pending
  <2>3. ASSUME NEW q \in Runs, pc'[q] \in {"setex", "dispatch"}
        PROVE  pc[q] \in {"setex", "dispatch"} /\ cur'[q] = cur[q] /\ alert'[q] = alert[q]
    BY <2>1, <2>2, <2>3 DEF TypeOK
  <2> QED
    BY <2>1, <2>3, DispatchKept
<1>3. ASSUME NEW r \in Runs, Notify(r)
      PROVE  DispatchInv'
  <2> SUFFICES ASSUME NEW e \in Endpoints, NEW t \in AlertTypes
               PROVE  dispatched'[e][t] + Cardinality(Carrying(e, t)') <= notified'[e][t].count
    BY DEF DispatchInv
  <2>1. /\ dispatched' = dispatched
        /\ notified' = [notified EXCEPT ![cur[r]][alert[r]] =
                          [count |-> @.count + 1, last |-> now]]
        /\ pc' = [pc EXCEPT ![r] = "setex"]
        /\ UNCHANGED <<cur, alert>>
        /\ pc[r] = "notify"
    BY <1>3 DEF Notify
  <2>2. /\ dispatched[e][t] \in Nat /\ notified[e][t].count \in Nat
        /\ Carrying(e, t) \subseteq Runs
        /\ Carrying(e, t)' \subseteq Runs
    BY DEF TypeOK, Carrying
  <2>3. /\ dispatched[e][t] + Cardinality(Carrying(e, t)) <= notified[e][t].count
        /\ Cardinality(Carrying(e, t)) \in Nat
        /\ Cardinality(Carrying(e, t)') \in Nat
    BY <2>2, CarryingFinite DEF DispatchInv
  <2>4. CASE cur[r] = e /\ alert[r] = t
    <3>1. Carrying(e, t)' = Carrying(e, t) \cup {r} /\ r \notin Carrying(e, t)
      BY <2>1, <2>4 DEF Carrying, TypeOK
    <3>2. Cardinality(Carrying(e, t)') = Cardinality(Carrying(e, t)) + 1
      BY <2>2, <3>1, CarryingFinite, FS_AddElement
    <3>3. notified'[e][t].count = notified[e][t].count + 1
      BY <2>1, <2>4 DEF TypeOK
    <3> QED
      BY <2>1, <2>2, <2>3, <3>2, <3>3
  <2>5. CASE ~(cur[r] = e /\ alert[r] = t)
    <3>1. Carrying(e, t)' = Carrying(e, t)
      BY <2>1, <2>5 DEF Carrying, TypeOK
    <3>2. notified'[e][t] = notified[e][t]
      BY <2>1, <2>5 DEF TypeOK
    <3> QED
      BY <2>1, <2>3, <3>1, <3>2
  <2> QED
    BY <2>4, <2>5
<1>4. ASSUME NEW r \in Runs, Dispatch(r)
      PROVE  DispatchInv'
  <2> SUFFICES ASSUME NEW e \in Endpoints, NEW t \in AlertTypes
               PROVE  dispatched'[e][t] + Cardinality(Carrying(e, t)') <= notified'[e][t].count
    BY DEF DispatchInv
  <2>0. AfterResult(r, verdict[r]) \in {"log", "check", "idle"}
    BY AfterResultType
  <2>1. /\ notified' = notified
        /\ dispatched' = [dispatched EXCEPT ![cur[r]][alert[r]] = @ + 1]
        /\ pc' = [pc EXCEPT ![r] = AfterResult(r, verdict[r])]
        /\ cur' = [cur EXCEPT ![r] = None]
        /\ alert' = [alert EXCEPT ![r] = None]
        /\ pc[r] = "dispatch"
    BY <1>4 DEF Dispatch, EndAlert
  <2>2. /\ dispatched[e][t] \in Nat /\ notified[e][t].count \in Nat
        /\ Carrying(e, t) \subseteq Runs
        /\ Carrying(e, t)' \subseteq Runs
    BY DEF TypeOK, Carrying
  <2>3. /\ dispatched[e][t] + Cardinality(Carrying(e, t)) <= notified[e][t].count
        /\ Cardinality(Carrying(e, t)) \in Nat
        /\ Cardinality(Carrying(e, t)') \in Nat
    BY <2>2, CarryingFinite DEF DispatchInv
  <2>4. CASE cur[r] = e /\ alert[r] = t
    <3>1. Carrying(e, t)' = Carrying(e, t) \ {r} /\ r \in Carrying(e, t)
      BY <2>0, <2>1, <2>4 DEF Carrying, TypeOK
    <3>2. Cardinality(Carrying(e, t)') = Cardinality(Carrying(e, t)) - 1
      BY <2>2, <3>1, CarryingFinite, FS_RemoveElement
    <3>3. dispatched'[e][t] = dispatched[e][t] + 1
      BY <2>1, <2>4 DEF TypeOK
    <3> QED
      BY <2>1, <2>2, <2>3, <3>2, <3>3
  <2>5. CASE ~(cur[r] = e /\ alert[r] = t)
    <3>1. Carrying(e, t)' = Carrying(e, t)
      BY <2>0, <2>1, <2>5 DEF Carrying, TypeOK
    <3>2. dispatched'[e][t] = dispatched[e][t]
      BY <2>1, <2>5 DEF TypeOK
    <3> QED
      BY <2>1, <2>3, <3>1, <3>2
  <2> QED
    BY <2>4, <2>5
<1>5. CASE Environment \/ UNCHANGED vars
  <2>1. UNCHANGED <<notified, dispatched, pc, cur, alert>>
    BY <1>5 DEF Environment, RequestFind, RequestWrite, Tick, vars, runVars
  <2> QED
    BY <2>1, DispatchKept
<1> QED
  BY <1>1, <1>2, <1>3, <1>4, <1>5 DEF Next, RunStep

\* Webhooks are never dispatched more often than notifications are stored, for any
\* number of runs in any interleaving and whatever run is aborted.
THEOREM DispatchesBacked == Spec => []DispatchBacked
<1>1. TypeOK /\ DispatchInv => DispatchBacked
  <2> SUFFICES ASSUME TypeOK, DispatchInv, NEW e \in Endpoints, NEW t \in AlertTypes
               PROVE  dispatched[e][t] <= notified[e][t].count
    BY DEF DispatchBacked
  <2>1. Cardinality(Carrying(e, t)) \in Nat
    BY CarryingFinite DEF Carrying
  <2>2. dispatched[e][t] \in Nat /\ notified[e][t].count \in Nat
    BY DEF TypeOK
  <2> QED
    BY <2>1, <2>2 DEF DispatchInv
<1> QED
  BY <1>1, TypeCorrect, DispatchInit, DispatchStep, PTL DEF Spec

-----------------------------------------------------------------------------
(* One scheduler whose runs end before its next firing *)

\* A step of the serial system is a step of the system.
LEMMA SerialStep == [SerialNext]_vars => [Next]_vars
BY DEF SerialNext, Next

\* What holds of every reachable state of the system holds of the serial one.
LEMMA SerialTypeCorrect == SerialSpec => [](TypeOK /\ ControlOK)
BY TypeInit, TypeStep, SerialStep, PTL DEF SerialSpec

OneRun == \A r, q \in Runs : pc[r] # "idle" /\ pc[q] # "idle" => r = q

\* No run is under way initially.
LEMMA OneRunInit == Init => OneRun
BY DEF Init, OneRun

\* A run starts only when no other one is under way.
LEMMA OneRunStep == TypeOK /\ OneRun /\ [SerialNext]_vars => OneRun'
<1> SUFFICES ASSUME TypeOK, OneRun, [SerialNext]_vars
             PROVE  OneRun'
  OBVIOUS
<1>1. ASSUME NEW r \in Runs, AllIdle /\ CronFire(r)
      PROVE  OneRun'
  BY <1>1 DEF AllIdle, CronFire, OneRun, TypeOK
<1>2. ASSUME NEW r \in Runs, RunStep(r) \/ Abort(r)
      PROVE  OneRun'
  <2>1. pc[r] # "idle" /\ \A q \in Runs \ {r} : pc'[q] = pc[q]
    BY <1>2
    DEF RunStep, FindTargets, CheckChunk, LogResult, UpdateRow, SkipAlert, PassCooldown,
        Notify, SetCooldown, Dispatch, Abort, EndAlert, TypeOK
  <2> QED
    BY <2>1 DEF OneRun
<1>3. CASE Environment \/ UNCHANGED vars
  <2>1. UNCHANGED pc
    BY <1>3 DEF Environment, RequestFind, RequestWrite, Tick, vars, runVars
  <2> QED
    BY <2>1 DEF OneRun
<1> QED
  BY <1>1, <1>2, <1>3 DEF SerialNext

-----------------------------------------------------------------------------
(* The cooldown of a serial scheduler *)

\* The key of the last notification is alive until its cooldown has passed, except
\* between storing the notification and writing the key.
CooldownTracked ==
    /\ \A e \in Endpoints, t \in AlertTypes :
         notified[e][t].count > 0 =>
           /\ notified[e][t].last <= now
           /\ \/ cooldown[e][t] >= notified[e][t].last + CooldownTTL
              \/ \E r \in Runs : pc[r] = "setex" /\ cur[r] = e /\ alert[r] = t
    /\ \A r \in Runs : pc[r] = "notify" => ~CooldownAlive(cur[r], alert[r])

\* Nothing is notified initially.
LEMMA CooldownInit == Init => CooldownTracked
BY DEF Init, CooldownTracked, AlertTypes

\* A step that stores no notification, writes no key and leaves the runs between a
\* notification and its key where they are keeps the keys tracked.
LEMMA CooldownKept ==
    ASSUME TypeOK, CooldownTracked, UNCHANGED <<notified, cooldown>>,
           now' \in Nat, now' >= now,
           \A q \in Runs : pc[q] = "setex" =>
             pc'[q] = "setex" /\ cur'[q] = cur[q] /\ alert'[q] = alert[q],
           \A q \in Runs : pc'[q] = "notify" =>
             /\ pc[q] = "notify" \/ ~CooldownAlive(cur[q], alert[q])
             /\ cur'[q] = cur[q] /\ cur[q] \in Endpoints
             /\ alert'[q] = alert[q] /\ alert[q] \in AlertTypes
    PROVE  CooldownTracked'
<1>1. ASSUME NEW e \in Endpoints, NEW t \in AlertTypes, notified'[e][t].count > 0
      PROVE  /\ notified'[e][t].last <= now'
             /\ \/ cooldown'[e][t] >= notified'[e][t].last + CooldownTTL
                \/ \E r \in Runs : pc'[r] = "setex" /\ cur'[r] = e /\ alert'[r] = t
  <2>1. notified[e][t].last \in Nat /\ now \in Nat
    BY DEF TypeOK
  <2>2. notified[e][t].last <= now
    BY <1>1 DEF CooldownTracked
  <2>3. \/ cooldown[e][t] >= notified[e][t].last + CooldownTTL
        \/ \E r \in Runs : pc[r] = "setex" /\ cur[r] = e /\ alert[r] = t
    BY <1>1 DEF CooldownTracked
  <2>4. \/ cooldown'[e][t] >= notified'[e][t].last + CooldownTTL
        \/ \E r \in Runs : pc'[r] = "setex" /\ cur'[r] = e /\ alert'[r] = t
    BY <2>3
  <2> QED
    BY <2>1, <2>2, <2>4
<1>2. ASSUME NEW q \in Runs, pc'[q] = "notify"
      PROVE  ~(now' < cooldown'[cur'[q]][alert'[q]])
  <2>1. /\ ~(now < cooldown[cur[q]][alert[q]])
        /\ cur'[q] = cur[q] /\ cur[q] \in Endpoints
        /\ alert'[q] = alert[q] /\ alert[q] \in AlertTypes
    BY <1>2 DEF CooldownTracked, CooldownAlive
  <2>2. now \in Nat /\ cooldown[cur[q]][alert[q]] \in Nat
    BY <2>1 DEF TypeOK
  <2>3. cooldown'[cur'[q]][alert'[q]] = cooldown[cur[q]][alert[q]]
    BY <2>1
  <2> QED
    BY <2>1, <2>2, <2>3
<1> QED
  BY <1>1, <1>2 DEF CooldownTracked, CooldownAlive

\* The only run under way stores a notification when no key is alive, and writes the
\* key before it does anything else.
LEMMA CooldownStep ==
    ASSUME MaxFaults = 0
    PROVE  TypeOK /\ ControlOK /\ OneRun /\ CooldownTracked /\ [SerialNext]_vars
             => CooldownTracked'
<1> SUFFICES ASSUME TypeOK, ControlOK, OneRun, CooldownTracked, [SerialNext]_vars
             PROVE  CooldownTracked'
  OBVIOUS
<1>0. /\ now \in Nat
      /\ \A q \in Runs : pc[q] = "notify" => cur[q] \in Endpoints /\ alert[q] \in AlertTypes
  BY DEF TypeOK, ControlOK
<1>1. ASSUME NEW r \in Runs,
             \/ CronFire(r) \/ FindTargets(r) \/ CheckChunk(r) \/ LogResult(r)
             \/ SkipAlert(r) \/ Dispatch(r)
      PROVE  CooldownTracked'
  <2>1. AfterResult(r, verdict[r]) \in {"log", "check", "idle"}
    BY AfterResultType
  <2>2. UNCHANGED <<notified, cooldown, now>>
    BY <1>1 DEF CronFire, FindTargets, CheckChunk, LogResult, SkipAlert, Dispatch
  <2>3. /\ pc[r] # "setex" /\ pc'[r] \notin {"setex", "notify"}
        /\ \A q \in Runs \ {r} : pc'[q] = pc[q] /\ cur'[q] = cur[q] /\ alert'[q] = alert[q]
    BY <1>1, <2>1
    DEF CronFire, FindTargets, CheckChunk, LogResult, SkipAlert, Dispatch, EndAlert, TypeOK
  <2> QED
    BY <1>0, <2>2, <2>3, CooldownKept
<1>2. ASSUME NEW r \in Runs, UpdateRow(r)
      PROVE  CooldownTracked'
  <2> DEFINE e == cur[r]
             s == snap[r][e]
             v == verdict[r][e]
             send == AlertFor(s.status, NewStatus(s, v), v)
             pending == [verdict[r] EXCEPT ![e] = None]
  <2>1. /\ pc[r] = "update"
        /\ alert' = [alert EXCEPT ![r] = send]
        /\ cur' = [cur EXCEPT ![r] = IF send = None THEN None ELSE e]
        /\ pc' = [pc EXCEPT ![r] = IF send = None THEN AfterResult(r, pending) ELSE "exists"]
        /\ UNCHANGED <<notified, cooldown, now>>
    BY <1>2 DEF UpdateRow
  <2>2. AfterResult(r, pending) \in {"log", "check", "idle"}
    BY AfterResultType
  <2> HIDE DEF send, pending
  <2>3. /\ pc[r] # "setex" /\ pc'[r] \notin {"setex", "notify"}
        /\ \A q \in Runs \ {r} : pc'[q] = pc[q] /\ cur'[q] = cur[q] /\ alert'[q] = alert[q]
    BY <2>1, <2>2 DEF TypeOK
  <2> QED
    BY <1>0, <2>1, <2>3, CooldownKept
<1>3. ASSUME NEW r \in Runs, PassCooldown(r)
      PROVE  CooldownTracked'
  <2>1. /\ pc[r] = "exists" /\ ~CooldownAlive(cur[r], alert[r])
        /\ cur[r] \in Endpoints /\ alert[r] \in AlertTypes
        /\ pc' = [pc EXCEPT ![r] = "notify"]
        /\ UNCHANGED <<notified, cooldown, now, cur, alert>>
    BY <1>3 DEF PassCooldown, ControlOK
  <2>2. /\ pc[r] # "setex"
        /\ \A q \in Runs \ {r} : pc'[q] = pc[q]
    BY <2>1 DEF TypeOK
  <2> QED
    BY <1>0, <2>1, <2>2, CooldownKept
<1>4. ASSUME NEW r \in Runs, Notify(r)
      PROVE  CooldownTracked'
  <2>1. /\ pc[r] = "notify"
        /\ cur[r] \in Endpoints /\ alert[r] \in AlertTypes
        /\ notified' = [notified EXCEPT ![cur[r]][alert[r]] =
                          [count |-> @.count + 1, last |-> now]]
        /\ pc' = [pc EXCEPT ![r] = "setex"]
        /\ UNCHANGED <<cooldown, now, cur, alert>>
    BY <1>4 DEF Notify, ControlOK
  <2>2. \A q \in Runs : pc'[q] # "notify"
    BY <2>1 DEF OneRun, TypeOK
  <2>3. ASSUME NEW e \in Endpoints, NEW t \in AlertTypes, notified'[e][t].count > 0
        PROVE  /\ notified'[e][t].last <= now'
               /\ \/ cooldown'[e][t] >= notified'[e][t].last + CooldownTTL
                  \/ \E q \in Runs : pc'[q] = "setex" /\ cur'[q] = e /\ alert'[q] = t
    <3>1. CASE cur[r] = e /\ alert[r] = t
      <4>1. notified'[e][t].last = now /\ pc'[r] = "setex" /\ now <= now
        BY <1>0, <2>1, <3>1 DEF TypeOK
      <4> QED
        BY <2>1, <3>1, <4>1
    <3>2. CASE ~(cur[r] = e /\ alert[r] = t)
      <4>1. notified'[e][t] = notified[e][t]
        BY <2>1, <3>2 DEF TypeOK
      <4>2. ~\E q \in Runs : pc[q] = "setex"
        BY <2>1 DEF OneRun
      <4> QED
        BY <2>1, <2>3, <4>1, <4>2 DEF CooldownTracked
    <3> QED
      BY <3>1, <3>2
  <2> QED
    BY <2>2, <2>3 DEF CooldownTracked
<1>5. ASSUME NEW r \in Runs, SetCooldown(r)
      PROVE  CooldownTracked'
  <2>1. /\ pc[r] = "setex"
        /\ cur[r] \in Endpoints /\ alert[r] \in AlertTypes
        /\ cooldown' = [cooldown EXCEPT ![cur[r]][alert[r]] = now + CooldownTTL]
        /\ pc' = [pc EXCEPT ![r] = "dispatch"]
        /\ UNCHANGED <<notified, now, cur, alert>>
    BY <1>5 DEF SetCooldown, ControlOK
  <2>2. \A q \in Runs : pc'[q] # "notify"
    BY <2>1 DEF OneRun, TypeOK
  <2>3. ASSUME NEW e \in Endpoints, NEW t \in AlertTypes, notified'[e][t].count > 0
        PROVE  /\ notified'[e][t].last <= now'
               /\ cooldown'[e][t] >= notified'[e][t].last + CooldownTTL
    <3>1. notified[e][t].last \in Nat /\ notified[e][t].last <= now
      BY <2>1, <2>3 DEF TypeOK, CooldownTracked
    <3>2. CASE cur[r] = e /\ alert[r] = t
      <4>1. cooldown'[e][t] = now + CooldownTTL
        BY <2>1, <3>2 DEF TypeOK
      <4> QED
        BY <1>0, <2>1, <3>1, <4>1, CadenceAssumption
    <3>3. CASE ~(cur[r] = e /\ alert[r] = t)
      <4>1. cooldown'[e][t] = cooldown[e][t]
        BY <2>1, <3>3 DEF TypeOK
      <4>2. ~\E q \in Runs : pc[q] = "setex" /\ cur[q] = e /\ alert[q] = t
        BY <2>1, <3>3 DEF OneRun
      <4> QED
        BY <2>1, <2>3, <3>1, <4>1, <4>2 DEF CooldownTracked
    <3> QED
      BY <3>2, <3>3
  <2> QED
    BY <2>2, <2>3 DEF CooldownTracked
<1>6. ASSUME NEW r \in Runs, Abort(r)
      PROVE  FALSE
  BY <1>6 DEF Abort, TypeOK
<1>7. CASE Environment \/ UNCHANGED vars
  <2>1. UNCHANGED <<notified, cooldown, pc, cur, alert>>
    BY <1>7 DEF Environment, RequestFind, RequestWrite, Tick, vars, runVars
  <2>2. now' \in Nat /\ now' >= now
    BY <1>0, <1>7 DEF Environment, RequestFind, RequestWrite, Tick, vars
  <2> QED
    BY <1>0, <2>1, <2>2, CooldownKept
<1> QED
  BY <1>1, <1>2, <1>3, <1>4, <1>5, <1>6, <1>7 DEF SerialNext, RunStep

\* The run that stores a notification has found no live key, and the key of the last
\* one lives for the whole cooldown.
LEMMA CooldownAction ==
    TypeOK /\ ControlOK /\ OneRun /\ CooldownTracked /\ [SerialNext]_vars
      => \A e \in Endpoints, t \in AlertTypes :
           notified[e][t].count > 0 /\ notified'[e][t] # notified[e][t]
             => now >= notified[e][t].last + CooldownTTL
<1> SUFFICES ASSUME TypeOK, ControlOK, OneRun, CooldownTracked, [SerialNext]_vars,
                    NEW e \in Endpoints, NEW t \in AlertTypes,
                    notified[e][t].count > 0, notified'[e][t] # notified[e][t]
             PROVE  now >= notified[e][t].last + CooldownTTL
  OBVIOUS
<1>1. PICK r \in Runs : Notify(r)
  BY DEF SerialNext, RunStep, Environment, CronFire, FindTargets, CheckChunk, LogResult,
         UpdateRow, SkipAlert, PassCooldown, SetCooldown, Dispatch, Abort, RequestFind,
         RequestWrite, Tick, vars
<1>2. pc[r] = "notify" /\ cur[r] = e /\ alert[r] = t
  BY <1>1 DEF Notify, ControlOK, TypeOK
<1>3. ~(now < cooldown[e][t])
  BY <1>2 DEF CooldownTracked, CooldownAlive
<1>4. ~\E q \in Runs : pc[q] = "setex"
  BY <1>2 DEF OneRun
<1>5. cooldown[e][t] >= notified[e][t].last + CooldownTTL
  BY <1>4 DEF CooldownTracked
<1>6. now \in Nat /\ cooldown[e][t] \in Nat /\ notified[e][t].last + CooldownTTL \in Nat
  BY CadenceAssumption DEF TypeOK
<1> QED
  BY <1>3, <1>5, <1>6

\* Without aborted runs, one scheduler whose runs do not overlap keeps two
\* notifications of one type CooldownTTL apart, for any number of endpoints and
\* requests.
THEOREM SerialCooldown ==
    ASSUME MaxFaults = 0
    PROVE  SerialSpec => CooldownRespected
<1>1. Init /\ [][SerialNext]_vars => [](TypeOK /\ ControlOK)
  BY SerialTypeCorrect DEF SerialSpec
<1> QED
  BY <1>1, OneRunInit, OneRunStep, CooldownInit, CooldownStep, CooldownAction, PTL
  DEF SerialSpec, CooldownRespected

-----------------------------------------------------------------------------
(* DOWN of a serial scheduler *)

StreakEnough(e) == \E t \in Thresholds : log[e].streak >= t

\* A success or a failure of e is in the log and not yet in the row.
Recovering(r, e) == pc[r] = "update" /\ cur[r] = e /\ verdict[r][e] # "failed"
Counting(r, e) == pc[r] = "update" /\ cur[r] = e /\ verdict[r][e] = "failed"

\* A run keeps no snapshot but those of the targets it has still to write.
SnapshotsPending ==
    \A r \in Runs :
      /\ pc[r] \in {"idle", "find"} => todo[r] = {}
      /\ \A e \in Endpoints :
           snap[r][e] # NoSnapshot => e \in todo[r] \/ verdict[r][e] # None

\* The counter of a row and the one of a snapshot are backed by the failures in a
\* row on record, except while a success is on its way from the log to the row.
RowStreak(e) ==
    \/ \E r \in Runs : Recovering(r, e)
    \/ /\ consecutiveFailures[e] <= log[e].streak
       /\ status[e] = "DOWN" => StreakEnough(e)

SnapStreak(r, e) ==
    \/ Recovering(r, e)
    \/ /\ snap[r][e].failures <= log[e].streak
       /\ Counting(r, e) => snap[r][e].failures < log[e].streak
       /\ snap[r][e].status = "DOWN" => StreakEnough(e)

StreakInv ==
    /\ SnapshotsPending
    /\ \A e \in Endpoints : RowStreak(e)
    /\ \A r \in Runs, e \in Endpoints : SnapStreak(r, e)

\* No check has failed and nothing is DOWN initially.
LEMMA StreakInit == Init => StreakInv
BY DEF Init, StreakInv, SnapshotsPending, RowStreak, SnapStreak, Recovering, Counting,
       NoSnapshot

\* Where a run goes when it has nothing left to do.
LEMMA AfterResultIdle ==
    ASSUME NEW r, NEW pending, AfterResult(r, pending) = "idle"
    PROVE  todo[r] = {}
BY DEF AfterResult

\* A run forgets a target's snapshot when it has written its row.
LEMMA PendingStep ==
    ASSUME MaxFaults = 0
    PROVE  TypeOK /\ ControlOK /\ SnapshotsPending /\ [SerialNext]_vars
             => SnapshotsPending'
<1> SUFFICES ASSUME TypeOK, ControlOK, SnapshotsPending, [SerialNext]_vars
             PROVE  SnapshotsPending'
  OBVIOUS
<1> USE DEF SnapshotsPending
<1>1. ASSUME NEW r \in Runs, CronFire(r)
      PROVE  SnapshotsPending'
  BY <1>1 DEF CronFire, TypeOK
<1>2. ASSUME NEW r \in Runs, FindTargets(r)
      PROVE  SnapshotsPending'
  BY <1>2 DEF FindTargets, TypeOK
<1>3. ASSUME NEW r \in Runs, CheckChunk(r)
      PROVE  SnapshotsPending'
  <2>0. PICK chunk \in SUBSET todo[r] :
          /\ \E results \in [chunk -> Verdicts] :
               verdict' = [verdict EXCEPT ![r] = [e \in Endpoints |->
                             IF e \in chunk THEN results[e] ELSE None]]
          /\ todo' = [todo EXCEPT ![r] = @ \ chunk]
    BY <1>3 DEF CheckChunk
  <2>1. /\ \A e \in Endpoints \cap chunk : verdict'[r][e] \in Verdicts
        /\ \A q \in Runs \ {r} : verdict'[q] = verdict[q]
        /\ todo' = [todo EXCEPT ![r] = @ \ chunk]
    BY <2>0 DEF TypeOK
  <2>2. /\ pc[r] = "check" /\ pc' = [pc EXCEPT ![r] = "log"]
        /\ UNCHANGED snap
    BY <1>3 DEF CheckChunk
  <2>3. \A e \in Endpoints :
          snap[r][e] # NoSnapshot => e \in todo'[r] \/ verdict'[r][e] # None
    <3>1. \A e \in Endpoints : verdict[r][e] = None
      BY <2>2 DEF ControlOK
    <3> SUFFICES ASSUME NEW e \in Endpoints, snap[r][e] # NoSnapshot
                 PROVE  e \in todo'[r] \/ verdict'[r][e] # None
      OBVIOUS
    <3>2. e \in todo[r]
      BY <3>1
    <3>3. CASE e \in chunk
      BY <2>1, <3>3 DEF TypeOK, Verdicts, None
    <3>4. CASE e \notin chunk
      BY <2>1, <3>2, <3>4 DEF TypeOK
    <3> QED
      BY <3>3, <3>4
  <2> QED
    BY <2>1, <2>2, <2>3 DEF TypeOK
<1>4. ASSUME NEW r \in Runs, LogResult(r)
      PROVE  SnapshotsPending'
  BY <1>4 DEF LogResult, TypeOK
<1>5. ASSUME NEW r \in Runs, UpdateRow(r)
      PROVE  SnapshotsPending'
  <2>0. PICK e \in Endpoints : e = cur[r]
    BY <1>5 DEF UpdateRow, ControlOK
  <2> DEFINE s == snap[r][e]
             v == verdict[r][e]
             send == AlertFor(s.status, NewStatus(s, v), v)
             pending == [verdict[r] EXCEPT ![e] = None]
  <2>1. /\ verdict' = [verdict EXCEPT ![r] = pending]
        /\ snap' = [snap EXCEPT ![r][e] = NoSnapshot]
        /\ pc' = [pc EXCEPT ![r] = IF send = None THEN AfterResult(r, pending) ELSE "exists"]
        /\ UNCHANGED todo
        /\ \A x \in Endpoints \ {e} : pending[x] = verdict[r][x]
    BY <1>5, <2>0 DEF UpdateRow, TypeOK
  <2>2. /\ AfterResult(r, pending) \in {"log", "check", "idle"}
        /\ AfterResult(r, pending) = "idle" => todo[r] = {}
    BY AfterResultType, AfterResultIdle
  <2> HIDE DEF send, pending
  <2> QED
    BY <2>1, <2>2 DEF TypeOK
<1>6. ASSUME NEW r \in Runs, SkipAlert(r) \/ Dispatch(r)
      PROVE  SnapshotsPending'
  <2>1. /\ AfterResult(r, verdict[r]) \in {"log", "check", "idle"}
        /\ AfterResult(r, verdict[r]) = "idle" => todo[r] = {}
    BY AfterResultType, AfterResultIdle
  <2>2. /\ pc' = [pc EXCEPT ![r] = AfterResult(r, verdict[r])]
        /\ UNCHANGED <<todo, snap, verdict>>
    BY <1>6 DEF SkipAlert, Dispatch, EndAlert
  <2> QED
    BY <2>1, <2>2 DEF TypeOK
<1>7. ASSUME NEW r \in Runs, PassCooldown(r) \/ Notify(r) \/ SetCooldown(r)
      PROVE  SnapshotsPending'
  <2>1. /\ pc[r] \notin {"idle", "find"} /\ pc'[r] \notin {"idle", "find"}
        /\ \A q \in Runs \ {r} : pc'[q] = pc[q]
        /\ UNCHANGED <<todo, snap, verdict>>
    BY <1>7 DEF PassCooldown, Notify, SetCooldown, TypeOK
  <2> QED
    BY <2>1
<1>8. ASSUME NEW r \in Runs, Abort(r)
      PROVE  FALSE
  BY <1>8 DEF Abort, TypeOK
<1>9. CASE Environment \/ UNCHANGED vars
  BY <1>9 DEF Environment, RequestFind, RequestWrite, Tick, vars, runVars
<1> QED
  BY <1>1, <1>2, <1>3, <1>4, <1>5, <1>6, <1>7, <1>8, <1>9 DEF SerialNext, RunStep

\* A step outside the log and the snapshots that makes no row DOWN, raises no
\* counter and takes no run to or from the writing of a row keeps the streaks.
LEMMA StreaksKept ==
    ASSUME UNCHANGED <<log, snap>>,
           \A q \in Runs : (pc[q] = "update" \/ pc'[q] = "update") =>
             pc'[q] = pc[q] /\ cur'[q] = cur[q] /\ verdict'[q] = verdict[q],
           \A x \in Endpoints :
             /\ consecutiveFailures'[x] \in {consecutiveFailures[x], 0}
             /\ status'[x] = "DOWN" => status[x] = "DOWN",
           \A x \in Endpoints : log[x].streak \in Nat,
           \A x \in Endpoints : RowStreak(x),
           \A q \in Runs, x \in Endpoints : SnapStreak(q, x)
    PROVE  /\ \A x \in Endpoints : RowStreak(x)'
           /\ \A q \in Runs, x \in Endpoints : SnapStreak(q, x)'
<1>1. \A q \in Runs, x \in Endpoints :
        /\ Recovering(q, x)' <=> Recovering(q, x)
        /\ Counting(q, x)' <=> Counting(q, x)
  BY DEF Recovering, Counting
<1>2. \A x \in Endpoints : StreakEnough(x)' <=> StreakEnough(x)
  BY DEF StreakEnough
<1>3. ASSUME NEW x \in Endpoints
      PROVE  RowStreak(x)'
  <2>1. RowStreak(x) /\ 0 <= log[x].streak
    OBVIOUS
  <2> QED
    BY <1>1, <1>2, <2>1 DEF RowStreak
<1>4. ASSUME NEW q \in Runs, NEW x \in Endpoints
      PROVE  SnapStreak(q, x)'
  BY <1>1, <1>2 DEF SnapStreak
<1> QED
  BY <1>3, <1>4

\* The row that a run writes is backed by the failures in a row on record.
LEMMA WriteBacked ==
    ASSUME TypeOK, ControlOK, JustifiedInv, StreakInv, NEW r \in Runs, UpdateRow(r)
    PROVE  LET s == snap[r][cur[r]]
               v == verdict[r][cur[r]]
           IN  /\ NewFailures(s, v) <= log[cur[r]].streak
               /\ NewStatus(s, v) = "DOWN" => StreakEnough(cur[r])
<1> DEFINE e == cur[r]
           s == snap[r][e]
           v == verdict[r][e]
<1>1. e \in Endpoints /\ v \in Verdicts /\ pc[r] = "update"
  BY DEF UpdateRow, ControlOK
<1>2. s.threshold \in Thresholds
  BY <1>1 DEF JustifiedInv, SnapshotsJustified, Verdicts, None
<1>3. s.failures \in Nat /\ log[e].streak \in Nat /\ s.threshold \in Nat
  BY <1>1, <1>2, CadenceAssumption DEF TypeOK
<1>4. SnapStreak(r, e)
  BY <1>1 DEF StreakInv
<1>5. CASE v # "failed"
  BY <1>1, <1>3, <1>5 DEF NewFailures, NewStatus, Verdicts
<1>6. CASE v = "failed"
  <2>1. s.failures < log[e].streak /\ (s.status = "DOWN" => StreakEnough(e))
    BY <1>1, <1>4, <1>6 DEF SnapStreak, Recovering, Counting
  <2>2. NewFailures(s, v) = s.failures + 1 /\ NewFailures(s, v) <= log[e].streak
    BY <1>3, <1>6, <2>1 DEF NewFailures
  <2>3. NewStatus(s, v) = "DOWN" => StreakEnough(e)
    BY <1>2, <1>3, <1>6, <2>1, <2>2 DEF NewStatus, StreakEnough
  <2> QED
    BY <2>2, <2>3
<1> QED
  BY <1>5, <1>6

\* With one run at a time a success reaches the row before anything reads it again.
LEMMA StreakStep ==
    ASSUME MaxFaults = 0
    PROVE  /\ TypeOK /\ ControlOK /\ JustifiedInv /\ OneRun /\ StreakInv
           /\ [SerialNext]_vars
           => StreakInv'
<1> SUFFICES ASSUME TypeOK, ControlOK, JustifiedInv, OneRun, StreakInv,
                    [SerialNext]_vars
             PROVE  /\ \A x \in Endpoints : RowStreak(x)'
                    /\ \A q \in Runs, x \in Endpoints : SnapStreak(q, x)'
  BY PendingStep DEF StreakInv
<1>0. /\ \A x \in Endpoints : log[x].streak \in Nat
      /\ \A x \in Endpoints : RowStreak(x)
      /\ \A q \in Runs, x \in Endpoints : SnapStreak(q, x)
  BY DEF StreakInv, TypeOK
<1>1. ASSUME NEW r \in Runs,
             \/ CronFire(r) \/ CheckChunk(r) \/ SkipAlert(r) \/ PassCooldown(r)
             \/ Notify(r) \/ SetCooldown(r) \/ Dispatch(r)
      PROVE  /\ \A x \in Endpoints : RowStreak(x)'
             /\ \A q \in Runs, x \in Endpoints : SnapStreak(q, x)'
  <2>1. AfterResult(r, verdict[r]) \in {"log", "check", "idle"}
    BY AfterResultType
  <2>2. UNCHANGED <<log, snap, consecutiveFailures, status>>
    BY <1>1 DEF CronFire, CheckChunk, SkipAlert, PassCooldown, Notify, SetCooldown,
               Dispatch, rowVars
  <2>3. /\ pc[r] # "update" /\ pc'[r] # "update"
        /\ \A q \in Runs \ {r} :
             pc'[q] = pc[q] /\ cur'[q] = cur[q] /\ verdict'[q] = verdict[q]
    BY <1>1, <2>1
    DEF CronFire, CheckChunk, SkipAlert, PassCooldown, Notify, SetCooldown, Dispatch,
        EndAlert, TypeOK
  <2> QED
    BY <1>0, <2>2, <2>3, StreaksKept
<1>2. ASSUME NEW r \in Runs, FindTargets(r)
      PROVE  /\ \A x \in Endpoints : RowStreak(x)'
             /\ \A q \in Runs, x \in Endpoints : SnapStreak(q, x)'
  <2>1. /\ pc[r] = "find" /\ pc'[r] # "update"
        /\ \A q \in Runs \ {r} : pc'[q] = pc[q]
        /\ UNCHANGED <<log, consecutiveFailures, status>>
    BY <1>2 DEF FindTargets, rowVars, TypeOK
  <2>2. \A q \in Runs : pc[q] # "update" /\ pc'[q] # "update"
    BY <2>1 DEF OneRun
  <2>3. /\ \A q \in Runs, x \in Endpoints :
             /\ ~Recovering(q, x) /\ ~Recovering(q, x)'
             /\ ~Counting(q, x) /\ ~Counting(q, x)'
        /\ \A x \in Endpoints : StreakEnough(x)' <=> StreakEnough(x)
    BY <2>1, <2>2 DEF Recovering, Counting, StreakEnough
  <2>4. \A x \in Endpoints : RowStreak(x)'
    BY <1>0, <2>1, <2>3 DEF RowStreak
  <2>5. ASSUME NEW q \in Runs, NEW x \in Endpoints
        PROVE  SnapStreak(q, x)'
    <3>1. \/ snap'[q][x] = snap[q][x]
          \/ snap'[q][x] = NoSnapshot
          \/ snap'[q][x].failures = consecutiveFailures[x] /\ snap'[q][x].status = status[x]
      BY <1>2 DEF FindTargets, TypeOK
    <3>2. /\ consecutiveFailures[x] <= log[x].streak /\ 0 <= log[x].streak
          /\ status[x] = "DOWN" => StreakEnough(x)
      BY <1>0, <2>3 DEF RowStreak
    <3>3. /\ snap[q][x].failures <= log[x].streak
          /\ snap[q][x].status = "DOWN" => StreakEnough(x)
      BY <1>0, <2>3 DEF SnapStreak
    <3>4. /\ snap'[q][x].failures <= log[x].streak
          /\ snap'[q][x].status = "DOWN" => StreakEnough(x)
      BY <3>1, <3>2, <3>3 DEF NoSnapshot
    <3> QED
      BY <2>1, <2>3, <3>4 DEF SnapStreak
  <2> QED
    BY <2>4, <2>5
<1>3. ASSUME NEW r \in Runs, LogResult(r)
      PROVE  /\ \A x \in Endpoints : RowStreak(x)'
             /\ \A q \in Runs, x \in Endpoints : SnapStreak(q, x)'
  <2>1. PICK e \in Endpoints :
          /\ cur' = [cur EXCEPT ![r] = e]
          /\ log' = [log EXCEPT ![e] =
               [failed |-> IF verdict[r][e] = "failed" THEN @.failed + 1 ELSE @.failed,
                slow   |-> IF verdict[r][e] = "slow" THEN @.slow + 1 ELSE @.slow,
                streak |-> IF verdict[r][e] = "failed" THEN @.streak + 1 ELSE 0]]
    BY <1>3 DEF LogResult
  <2>2. /\ pc[r] = "log" /\ pc' = [pc EXCEPT ![r] = "update"]
        /\ UNCHANGED <<consecutiveFailures, status, snap, verdict>>
    BY <1>3 DEF LogResult, rowVars
  <2>3. \A q \in Runs : /\ pc[q] # "update"
                        /\ q # r => pc[q] = "idle" /\ pc'[q] = "idle"
    BY <2>2 DEF OneRun, TypeOK
  <2>4. /\ \A q \in Runs, x \in Endpoints : ~Recovering(q, x) /\ ~Counting(q, x)
        /\ \A q \in Runs, x \in Endpoints :
             q # r \/ x # e => ~Recovering(q, x)' /\ ~Counting(q, x)'
        /\ verdict[r][e] # "failed" => Recovering(r, e)'
    BY <2>1, <2>2, <2>3 DEF Recovering, Counting, TypeOK
  <2>5. ASSUME NEW x \in Endpoints
        PROVE  \/ Recovering(r, x)'
               \/ /\ log'[x].streak = log[x].streak
                  /\ ~Counting(r, x)'
               \/ x = e /\ log'[x].streak = log[x].streak + 1
    <3>1. CASE x # e
      BY <2>1, <2>4, <3>1 DEF TypeOK
    <3>2. CASE x = e /\ verdict[r][e] = "failed"
      BY <2>1, <3>2 DEF TypeOK
    <3>3. CASE x = e /\ verdict[r][e] # "failed"
      BY <2>4, <3>3
    <3> QED
      BY <3>1, <3>2, <3>3
  <2>6. \A x \in Endpoints : log'[x].streak >= log[x].streak /\ StreakEnough(x)
                               => StreakEnough(x)'
    <3>1. \A x \in Endpoints : log'[x].streak \in Nat
      BY <1>0, <2>1 DEF TypeOK
    <3> QED
      BY <1>0, <3>1, CadenceAssumption DEF StreakEnough
  <2>7. ASSUME NEW x \in Endpoints
        PROVE  RowStreak(x)'
    <3>1. /\ consecutiveFailures[x] <= log[x].streak
          /\ status[x] = "DOWN" => StreakEnough(x)
      BY <1>0, <2>4 DEF RowStreak
    <3>2. CASE Recovering(r, x)'
      BY <3>2 DEF RowStreak
    <3>3. CASE log'[x].streak \in {log[x].streak, log[x].streak + 1}
      <4>1. consecutiveFailures[x] \in Nat /\ log[x].streak \in Nat
        BY DEF TypeOK
      <4>2. log'[x].streak >= log[x].streak /\ consecutiveFailures[x] <= log'[x].streak
        BY <3>1, <3>3, <4>1
      <4> QED
        BY <2>2, <2>6, <3>1, <4>2 DEF RowStreak
    <3> QED
      BY <2>5, <3>2, <3>3
  <2>8. ASSUME NEW q \in Runs, NEW x \in Endpoints
        PROVE  SnapStreak(q, x)'
    <3>0. log[x].streak \in Nat /\ log'[x].streak \in Nat /\ snap[q][x].failures \in Nat
      BY <1>0, <2>1 DEF TypeOK
    <3>1. /\ snap[q][x].failures <= log[x].streak
          /\ snap[q][x].status = "DOWN" => StreakEnough(x)
      BY <1>0, <2>4 DEF SnapStreak
    <3>2. CASE q # r
      <4>1. \A y \in Endpoints : verdict[q][y] = None /\ y \notin todo[q]
        BY <2>3, <3>2 DEF ControlOK, StreakInv, SnapshotsPending
      <4>2. snap'[q][x] = NoSnapshot
        BY <2>2, <4>1 DEF StreakInv, SnapshotsPending
      <4> QED
        BY <2>4, <3>0, <3>2, <4>2 DEF SnapStreak, NoSnapshot
    <3>3. CASE q = r /\ Recovering(r, x)'
      BY <3>3 DEF SnapStreak
    <3>4. CASE q = r /\ log'[x].streak = log[x].streak /\ ~Counting(r, x)'
      <4>1. StreakEnough(x) => StreakEnough(x)'
        BY <3>4 DEF StreakEnough
      <4> QED
        BY <2>2, <3>1, <3>4, <4>1 DEF SnapStreak
    <3>5. CASE q = r /\ log'[x].streak = log[x].streak + 1
      <4>1. log'[x].streak >= log[x].streak /\ snap[q][x].failures < log'[x].streak
            /\ snap[q][x].failures <= log'[x].streak
        BY <3>0, <3>1, <3>5
      <4> QED
        BY <2>2, <2>6, <3>1, <4>1 DEF SnapStreak
    <3> QED
      BY <2>5, <3>2, <3>3, <3>4, <3>5
  <2> QED
    BY <2>7, <2>8
<1>4. ASSUME NEW r \in Runs, UpdateRow(r)
      PROVE  /\ \A x \in Endpoints : RowStreak(x)'
             /\ \A q \in Runs, x \in Endpoints : SnapStreak(q, x)'
  <2>0. PICK e \in Endpoints : e = cur[r]
    BY <1>4 DEF UpdateRow, ControlOK
  <2> DEFINE s == snap[r][e]
             v == verdict[r][e]
             send == AlertFor(s.status, NewStatus(s, v), v)
             pending == [verdict[r] EXCEPT ![e] = None]
  <2>1. /\ pc[r] = "update"
        /\ consecutiveFailures' = [consecutiveFailures EXCEPT ![e] = NewFailures(s, v)]
        /\ status' = [status EXCEPT ![e] = NewStatus(s, v)]
        /\ snap' = [snap EXCEPT ![r][e] = NoSnapshot]
        /\ pc' = [pc EXCEPT ![r] = IF send = None THEN AfterResult(r, pending) ELSE "exists"]
        /\ UNCHANGED log
    BY <1>4, <2>0 DEF UpdateRow
  <2>2. AfterResult(r, pending) \in {"log", "check", "idle"}
    BY AfterResultType
  <2> HIDE DEF send, pending
  <2>3. NewFailures(s, v) <= log[e].streak /\ (NewStatus(s, v) = "DOWN" => StreakEnough(e))
    BY <1>4, <2>0, WriteBacked
  <2>4. \A q \in Runs : pc'[q] # "update" /\ (q # r => pc[q] # "update")
    BY <2>1, <2>2 DEF OneRun, TypeOK
  <2>5. /\ \A q \in Runs, x \in Endpoints : ~Recovering(q, x)' /\ ~Counting(q, x)'
        /\ \A q \in Runs, x \in Endpoints : q # r \/ x # e => ~Recovering(q, x)
        /\ \A x \in Endpoints : StreakEnough(x)' <=> StreakEnough(x)
    BY <2>0, <2>1, <2>4 DEF Recovering, Counting, StreakEnough
  <2>6. ASSUME NEW x \in Endpoints
        PROVE  RowStreak(x)'
    <3>1. CASE x = e
      BY <2>1, <2>3, <2>5, <3>1 DEF RowStreak, TypeOK
    <3>2. CASE x # e
      BY <1>0, <2>1, <2>5, <3>2 DEF RowStreak, TypeOK
    <3> QED
      BY <3>1, <3>2
  <2>7. ASSUME NEW q \in Runs, NEW x \in Endpoints
        PROVE  SnapStreak(q, x)'
    <3>1. CASE q = r /\ x = e
      <4>1. snap'[q][x] = NoSnapshot /\ 0 <= log[x].streak
        BY <1>0, <2>1, <3>1 DEF TypeOK
      <4> QED
        BY <2>1, <2>5, <4>1 DEF SnapStreak, NoSnapshot
    <3>2. CASE ~(q = r /\ x = e)
      <4>1. snap'[q][x] = snap[q][x] /\ ~Recovering(q, x)
        BY <2>1, <2>5, <3>2 DEF TypeOK
      <4> QED
        BY <1>0, <2>1, <2>5, <4>1 DEF SnapStreak
    <3> QED
      BY <3>1, <3>2
  <2> QED
    BY <2>6, <2>7
<1>5. ASSUME NEW r \in Runs, Abort(r)
      PROVE  FALSE
  BY <1>5 DEF Abort, TypeOK
<1>6. ASSUME Environment
      PROVE  /\ \A x \in Endpoints : RowStreak(x)'
             /\ \A q \in Runs, x \in Endpoints : SnapStreak(q, x)'
  <2>1. UNCHANGED <<log, snap, pc, cur, verdict>>
    BY <1>6 DEF Environment, RequestFind, RequestWrite, Tick, runVars
  <2>2. \A x \in Endpoints :
          /\ consecutiveFailures'[x] \in {consecutiveFailures[x], 0}
          /\ status'[x] \in {status[x], "UP", "PAUSED"}
    BY <1>6 DEF Environment, RequestFind, RequestWrite, Tick, rowVars, TypeOK
  <2>3. \A x \in Endpoints :
          /\ consecutiveFailures'[x] \in {consecutiveFailures[x], 0}
          /\ status'[x] = "DOWN" => status[x] = "DOWN"
    BY <2>2
  <2>4. \A q \in Runs : pc'[q] = pc[q] /\ cur'[q] = cur[q] /\ verdict'[q] = verdict[q]
    BY <2>1
  <2> QED
    BY <1>0, <2>1, <2>3, <2>4, StreaksKept
<1>7. CASE UNCHANGED vars
  <2>1. UNCHANGED <<log, snap, pc, cur, verdict, consecutiveFailures, status>>
    BY <1>7 DEF vars, runVars, rowVars
  <2> QED
    BY <1>0, <2>1, StreaksKept
<1> QED
  BY <1>1, <1>2, <1>3, <1>4, <1>5, <1>6, <1>7 DEF SerialNext, RunStep

\* Only the writing of a row makes it DOWN.
LEMMA DownAction ==
    TypeOK /\ ControlOK /\ JustifiedInv /\ StreakInv /\ [SerialNext]_vars
      => \A e \in Endpoints :
           status'[e] = "DOWN" /\ status[e] # "DOWN"
             => \E t \in Thresholds : log[e].streak >= t
<1> SUFFICES ASSUME TypeOK, ControlOK, JustifiedInv, StreakInv, [SerialNext]_vars,
                    NEW e \in Endpoints, status'[e] = "DOWN", status[e] # "DOWN"
             PROVE  StreakEnough(e)
  BY DEF StreakEnough
<1>1. PICK r \in Runs : UpdateRow(r)
  <2>1. ~(Environment \/ UNCHANGED vars)
    BY DEF Environment, RequestFind, RequestWrite, Tick, vars, rowVars, TypeOK
  <2> QED
    BY <2>1
    DEF SerialNext, RunStep, CronFire, FindTargets, CheckChunk, LogResult, SkipAlert,
        PassCooldown, Notify, SetCooldown, Dispatch, Abort, rowVars
<1>2. /\ status' = [status EXCEPT ![cur[r]] =
                      NewStatus(snap[r][cur[r]], verdict[r][cur[r]])]
      /\ cur[r] \in Endpoints
  BY <1>1 DEF UpdateRow, ControlOK
<1>3. e = cur[r] /\ NewStatus(snap[r][cur[r]], verdict[r][cur[r]]) = "DOWN"
  BY <1>2 DEF TypeOK
<1> QED
  BY <1>1, <1>3, WriteBacked

\* Without aborted runs, one scheduler whose runs do not overlap turns an endpoint
\* DOWN only after as many recorded failures in a row as some permitted threshold,
\* for any number of endpoints and requests.
THEOREM SerialDown ==
    ASSUME MaxFaults = 0
    PROVE  SerialSpec => DownOnConsecutive
<1>1. Init /\ [][SerialNext]_vars => [](TypeOK /\ ControlOK)
  BY SerialTypeCorrect DEF SerialSpec
<1>2. Init /\ [][SerialNext]_vars => [](FailureInv /\ JustifiedInv)
  BY <1>1, SerialStep, FailureInit, FailureStep, JustifiedInit, JustifiedStep, PTL
<1> QED
  BY <1>1, <1>2, OneRunInit, OneRunStep, StreakInit, StreakStep, DownAction, PTL
  DEF SerialSpec, DownOnConsecutive

=============================================================================
