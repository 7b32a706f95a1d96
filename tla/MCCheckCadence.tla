--------------------------- MODULE MCCheckCadence ---------------------------
(***************************************************************************)
(* A clock unit of 15 seconds: the cron fires every 2 units, and the       *)
(* interval is SEC_30.  Both applications run a scheduler; they are only   *)
(* compared.                                                               *)
(***************************************************************************)
EXTENDS CheckCadence, TLC

SchedulerSymmetry == Permutations(Schedulers)

=============================================================================
