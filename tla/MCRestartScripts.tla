--------------------------- MODULE MCRestartScripts --------------------------
(* The instances of RestartScripts that TLC checks. *)
EXTENDS RestartScripts
=============================================================================
