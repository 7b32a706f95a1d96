------------------------- MODULE MCMonitoringShared -------------------------
(***************************************************************************)
(* The deployment of docker-compose.prod.yml: the user and the admin       *)
(* process each run a scheduler, on one endpoint, with one request in      *)
(* flight and aborted runs.                                                *)
(***************************************************************************)
EXTENDS Monitoring, TLC

\* Symmetry: nothing tells the two processes apart.
SchedulerSymmetry == Permutations(Schedulers)

=============================================================================
