------------------------------ MODULE MCI2sXfer ------------------------------
(* The instances of I2sXfer that TLC checks. *)
EXTENDS I2sXfer
=============================================================================
