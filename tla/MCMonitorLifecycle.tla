------------------------- MODULE MCMonitorLifecycle -------------------------
(* The instances of MonitorLifecycle that TLC checks. *)
EXTENDS MonitorLifecycle
=============================================================================
