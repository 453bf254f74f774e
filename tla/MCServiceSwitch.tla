--------------------------- MODULE MCServiceSwitch ---------------------------
(* The instances of ServiceSwitch that TLC checks. *)
EXTENDS ServiceSwitch
=============================================================================
