------------------------------ MODULE MCI2sMute ------------------------------
(* The instances of I2sMute that TLC checks. *)
EXTENDS I2sMute
=============================================================================
