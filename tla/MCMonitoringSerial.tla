------------------------- MODULE MCMonitoringSerial -------------------------
(***************************************************************************)
(* One scheduler whose runs do not overlap and are not aborted, on one     *)
(* endpoint over five firings, with one request in flight: the setting in  *)
(* which cooldown and consecutive counting do hold.                        *)
(***************************************************************************)
EXTENDS Monitoring

=============================================================================
