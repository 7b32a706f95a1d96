------------------------- MODULE MCMonitoringOverlap ------------------------
(***************************************************************************)
(* One process whose second firing comes while the first run may still be  *)
(* busy, on two endpoints checked in two chunks.                           *)
(***************************************************************************)
EXTENDS Monitoring

=============================================================================
