------------------------- MODULE CheckCadenceProofs -------------------------
(***************************************************************************)
(* NeverEarly and NeverForgotten for every number of schedulers, period,   *)
(* interval and delay of firings, however long runs take, overlap or are   *)
(* lost: TimingAssumption only says that the constants are numbers.        *)
(***************************************************************************)
EXTENDS CheckCadence, TLAPS

\* No firing is overdue by more than the delay of the cron library.
FiringsInTime == \A s \in Schedulers : now <= nextFiring[s] + MaxJitter

\* A run comes after its instant of the grid, its check after the run, and the time
\* it is about to write after its check.
RunsInOrder ==
    \A r \in runs :
      /\ r.firing <= r.at
      /\ r.at <= now
      /\ r.stage \in {"checking", "update"} => r.at <= r.startedAt
      /\ r.stage = "update" => r.startedAt < r.stamp

\* What has been written is later than the start of the check it came from.
RowInOrder ==
    /\ lastCheckedAt <= freshest
    /\ checkedSince # Never => checkedSince < freshest

\* The last firing of a scheduler is in the hands of a run, or lost, or it left a result
\* younger than the interval.
Vouched ==
    \A s \in Schedulers \ lost :
      Busy(s) \/ nextFiring[s] < freshest + Interval + CronPeriod

Inv == TypeOK /\ FiringsInTime /\ RunsInOrder /\ RowInOrder /\ Vouched

-----------------------------------------------------------------------------

\* Nothing runs initially, and the first firing is due at once.
LEMMA InvInit == Init => Inv
BY TimingAssumption
DEF Init, Inv, TypeOK, FiringsInTime, RunsInOrder, RowInOrder, Vouched, Busy, Never, Times

\* A run that goes on keeps its scheduler and its firing, so who was busy stays busy.
LEMMA BusyGoesOn ==
    ASSUME NEW r \in runs, NEW next, Become(r, next), UNCHANGED nextFiring,
           next.by = r.by, next.firing = r.firing
    PROVE  \A s \in Schedulers : Busy(s) => Busy(s)'
BY DEF Become, Busy, OfLastFiring

\* A run that ends leaves all schedulers but its own as busy as they were, and its own
\* too unless it is of the last firing.
LEMMA BusyUnlessEnded ==
    ASSUME NEW r \in runs, runs' = runs \ {r}, UNCHANGED nextFiring
    PROVE  \A s \in Schedulers : Busy(s) => Busy(s)' \/ (r.by = s /\ OfLastFiring(r))
BY DEF Busy, OfLastFiring

\* A firing starts a run, or is missed.
LEMMA FiringStep ==
    ASSUME Inv, NEW s \in Schedulers, CronFire(s) \/ MissFiring(s)
    PROVE  Inv'
<1> USE TimingAssumption DEF Inv
<1>1. CASE CronFire(s)
  <2> DEFINE new == [by |-> s, firing |-> nextFiring[s], at |-> now, stage |-> "find",
                     startedAt |-> Never, stamp |-> Never]
  <2>1. runs' = runs \cup {new} /\ nextFiring' = [nextFiring EXCEPT ![s] = @ + CronPeriod]
    BY <1>1 DEF CronFire
  <2>2. new \in Run /\ new.by = s /\ new.firing = nextFiring[s] /\ new.at = now /\ new.stage = "find"
    BY DEF TypeOK, Run, Stages, Times
  <2> HIDE DEF new
  <2>3. TypeOK'
    BY <1>1, <2>1, <2>2 DEF CronFire, TypeOK, rowVars
  <2>4. FiringsInTime' /\ RowInOrder'
    BY <1>1 DEF CronFire, TypeOK, FiringsInTime, RowInOrder, rowVars
  <2>5. RunsInOrder'
    BY <1>1, <2>1, <2>2 DEF CronFire, TypeOK, RunsInOrder
  <2>6. Vouched'
    <3>1. Busy(s)'
      BY <2>1, <2>2 DEF TypeOK, Busy, OfLastFiring
    <3>2. ASSUME NEW q \in Schedulers, q # s
          PROVE  nextFiring'[q] = nextFiring[q] /\ (Busy(q) => Busy(q)')
      BY <2>1, <3>2 DEF TypeOK, Busy, OfLastFiring
    <3> QED
      BY <1>1, <3>1, <3>2 DEF CronFire, Vouched, rowVars
  <2> QED
    BY <2>3, <2>4, <2>5, <2>6
<1>2. CASE MissFiring(s)
  <2>1. TypeOK' /\ FiringsInTime' /\ RunsInOrder' /\ RowInOrder'
    BY <1>2 DEF MissFiring, TypeOK, FiringsInTime, RunsInOrder, RowInOrder, rowVars
  <2>2. ASSUME NEW q \in Schedulers, q # s
        PROVE  nextFiring'[q] = nextFiring[q] /\ (Busy(q) => Busy(q)')
    BY <1>2, <2>2 DEF MissFiring, TypeOK, Busy, OfLastFiring
  <2>3. Vouched'
    BY <1>2, <2>2 DEF MissFiring, Vouched, rowVars
  <2> QED
    BY <2>1, <2>3
<1> QED
  BY <1>1, <1>2

\* A run finds the endpoint due, starts its check, or sends its update.
LEMMA RunGoesOn ==
    ASSUME Inv, NEW r \in runs, FindDue(r) \/ StartCheck(r) \/ SendUpdate(r)
    PROVE  Inv'
<1> USE TimingAssumption DEF Inv
<1>1. r \in Run
  BY DEF TypeOK
<1>2. PICK next : /\ next \in {[r EXCEPT !.stage = "queued"],
                               [r EXCEPT !.stage = "checking", !.startedAt = now],
                               [r EXCEPT !.stage = "update", !.stamp = now]}
                  /\ Become(r, next)
                  /\ next.stage = "update" => r.stage = "checking" /\ r.startedAt < now
  BY <1>1 DEF FindDue, StartCheck, SendUpdate, Run
<1>3. UNCHANGED <<now, nextFiring, faults, lost, rowVars>>
  BY DEF FindDue, StartCheck, SendUpdate
<1>4. next \in Run /\ next.by = r.by /\ next.firing = r.firing /\ next.at = r.at
  BY <1>1, <1>2 DEF TypeOK, Run, Stages, Times
<1>5. TypeOK'
  BY <1>2, <1>3, <1>4 DEF TypeOK, Become, rowVars
<1>6. FiringsInTime' /\ RowInOrder'
  BY <1>3 DEF FiringsInTime, RowInOrder, rowVars
<1>7. RunsInOrder'
  <2>1. next.stage \in {"checking", "update"} => next.at <= next.startedAt
    BY <1>1, <1>2, <1>4 DEF RunsInOrder, Run
  <2>2. next.stage = "update" => next.startedAt < next.stamp
    BY <1>1, <1>2 DEF Run
  <2> QED
    BY <1>2, <1>3, <1>4, <2>1, <2>2 DEF RunsInOrder, Become
<1>8. Vouched'
  <2>1. \A s \in Schedulers : Busy(s) => Busy(s)'
    BY <1>2, <1>3, <1>4, BusyGoesOn
  <2> QED
    BY <1>3, <2>1 DEF Vouched, rowVars
<1> QED
  BY <1>5, <1>6, <1>7, <1>8

\* A run ends: the endpoint was not due, its result is in the row, or the run is lost.
LEMMA RunEnds ==
    ASSUME Inv, NEW r \in runs, FindNotDue(r) \/ UpdateRow(r) \/ Abort(r)
    PROVE  Inv'
<1> USE TimingAssumption DEF Inv
<1>1. r \in Run
  BY DEF TypeOK
<1>2. runs' = runs \ {r} /\ UNCHANGED <<now, nextFiring>>
  BY DEF FindNotDue, UpdateRow, Abort
<1>3. FiringsInTime' /\ RunsInOrder'
  BY <1>2 DEF FiringsInTime, RunsInOrder
<1>4. ASSUME NEW s \in Schedulers, Busy(s), ~ Busy(s)'
      PROVE  r.by = s /\ nextFiring[s] = r.firing + CronPeriod
  BY <1>2, <1>4, BusyUnlessEnded DEF OfLastFiring
<1>5. CASE FindNotDue(r)
  <2>1. TypeOK' /\ RowInOrder'
    BY <1>2, <1>5 DEF FindNotDue, TypeOK, RowInOrder, rowVars
  <2>2. r.firing < lastCheckedAt + Interval
    BY <1>1, <1>5 DEF FindNotDue, Due, RunsInOrder, TypeOK, Run, Never, Times
  <2>3. r.firing + CronPeriod < freshest + Interval + CronPeriod
    BY <1>1, <2>2 DEF RowInOrder, TypeOK, Run, Never, Times
  <2>4. Vouched'
    BY <1>2, <1>4, <1>5, <2>3 DEF FindNotDue, Vouched, rowVars
  <2> QED
    BY <1>3, <2>1, <2>4
<1>6. CASE UpdateRow(r)
  <2>1. r.startedAt < r.stamp /\ r.firing <= r.startedAt /\ r.stage = "update"
    BY <1>1, <1>6 DEF UpdateRow, RunsInOrder, Run, Times, Never
  <2>2. /\ lastCheckedAt' = r.stamp
        /\ freshest' = Later(freshest, r.stamp)
        /\ checkedSince' = Later(checkedSince, r.startedAt)
        /\ lost' = lost /\ faults' = faults
    BY <1>6 DEF UpdateRow
  <2>3. r.stamp \in Times /\ r.startedAt \in Times /\ r.firing \in Nat
    BY <1>1 DEF Run
  <2>4. TypeOK'
    BY <1>2, <2>2, <2>3 DEF TypeOK, Later
  <2>5. RowInOrder'
    BY <2>1, <2>2, <2>3 DEF RowInOrder, TypeOK, Later, Times, Never
  <2>6. r.firing + CronPeriod < freshest' + Interval + CronPeriod /\ freshest <= freshest'
    BY <2>1, <2>2, <2>3 DEF TypeOK, Later, Times, Never
  <2>7. Vouched'
    BY <1>2, <1>4, <2>2, <2>4, <2>6 DEF Vouched, TypeOK, Times, Never
  <2> QED
    BY <1>3, <2>4, <2>5, <2>7
<1>7. CASE Abort(r)
  <2>1. TypeOK' /\ RowInOrder'
    BY <1>1, <1>2, <1>7 DEF Abort, TypeOK, RowInOrder, Run, rowVars
  <2>2. Vouched'
    BY <1>2, <1>4, <1>7 DEF Abort, OfLastFiring, Vouched, rowVars
  <2> QED
    BY <1>3, <2>1, <2>2
<1> QED
  BY <1>5, <1>6, <1>7

\* Every firing, every step of a run and every tick of the clock preserves the invariant.
LEMMA InvStep == Inv /\ [Next]_vars => Inv'
<1> SUFFICES ASSUME Inv, [Next]_vars
             PROVE  Inv'
  OBVIOUS
<1>1. CASE \E s \in Schedulers : CronFire(s) \/ MissFiring(s)
  BY <1>1, FiringStep
<1>2. CASE \E r \in runs : RunStep(r)
  BY <1>2, RunGoesOn, RunEnds DEF RunStep
<1>3. CASE Tick
  <2>1. UNCHANGED <<nextFiring, runs, faults, lost, rowVars>> /\ now' = now + 1
    BY <1>3 DEF Tick
  <2>2. TypeOK' /\ RunsInOrder' /\ RowInOrder'
    BY <2>1 DEF Inv, TypeOK, RunsInOrder, RowInOrder, rowVars, Run
  <2>3. FiringsInTime'
    BY <1>3, TimingAssumption DEF Tick, Inv, TypeOK, FiringsInTime
  <2>4. Vouched'
    BY <2>1 DEF Inv, Vouched, Busy, OfLastFiring, rowVars
  <2> QED
    BY <2>2, <2>3, <2>4 DEF Inv
<1>4. CASE UNCHANGED vars
  BY <1>4 DEF Inv, vars, rowVars, TypeOK, FiringsInTime, RunsInOrder, RowInOrder, Vouched,
              Busy, OfLastFiring
<1> QED
  BY <1>1, <1>2, <1>3, <1>4 DEF Next

\* The invariant holds in every reachable state.
LEMMA InvCorrect == Spec => []Inv
BY InvInit, InvStep, PTL DEF Spec

\* The clock, the grid, the runs and the times of the row have their types.
THEOREM TypeCorrect == Spec => []TypeOK
<1>1. Inv => TypeOK
  BY DEF Inv
<1> QED
  BY <1>1, InvCorrect, PTL

\* A queued run is new only if it has just found the endpoint due.
LEMMA TakenWhenDue ==
    ASSUME Inv, [Next]_vars, NEW r \in Taken
    PROVE  r.at \in Nat /\ Due(r.at)
<1>1. r \in runs' /\ r \notin runs /\ r.stage = "queued"
  BY DEF Taken
<1>2. PICK q \in runs : RunStep(q)
  <2>1. ASSUME NEW s \in Schedulers, CronFire(s) \/ MissFiring(s)
        PROVE  FALSE
    BY <1>1, <2>1 DEF CronFire, MissFiring
  <2> QED
    BY <1>1, <2>1 DEF Next, Tick, vars
<1>3. q \in Run
  BY DEF Inv, TypeOK
<1>4. FindDue(q)
  BY <1>1, <1>2, <1>3 DEF RunStep, FindNotDue, StartCheck, SendUpdate, UpdateRow, Abort, Become, Run
<1>5. r = [q EXCEPT !.stage = "queued"]
  BY <1>1, <1>4 DEF FindDue, Become
<1> QED
  BY <1>3, <1>4, <1>5 DEF FindDue, Run

\* handleCron compares its own time with that of the result, which is later than the
\* start of the check: whatever overlaps, two checks start more than one interval apart
\* unless the second was decided before the first was in the row.
THEOREM ChecksNeverEarly == Spec => NeverEarly
<1> DEFINE Apart == \A r \in Taken :
                      lastCheckedAt = freshest /\ checkedSince # Never
                        => r.at - checkedSince > Interval
<1>1. ASSUME Inv, [Next]_vars
      PROVE  Apart
  <2> SUFFICES ASSUME NEW r \in Taken, lastCheckedAt = freshest, checkedSince # Never
               PROVE  r.at - checkedSince > Interval
    OBVIOUS
  <2>1. r.at \in Nat /\ Due(r.at)
    BY <1>1, TakenWhenDue
  <2> QED
    BY <1>1, <2>1, TimingAssumption DEF Inv, TypeOK, RowInOrder, Due, Never, Times
<1>2. Inv /\ [Next]_vars => [Apart]_vars
  BY <1>1
<1> QED
  BY <1>2, InvCorrect, PTL DEF Spec, NeverEarly

\* A due endpoint waits for the next firing of any process at most, however long checks
\* and chunks take and whatever is lost.
THEOREM NeverLeftOut == Spec => []NeverForgotten
<1>1. Inv => NeverForgotten
  BY TimingAssumption DEF Inv, TypeOK, FiringsInTime, Vouched, NeverForgotten, Times, Never
<1> QED
  BY <1>1, InvCorrect, PTL

=============================================================================
