-------------------------- MODULE MCFirmwareUpdate --------------------------
(* The instances of FirmwareUpdate that TLC checks. *)
EXTENDS FirmwareUpdate, TLC

Symmetry == Permutations(Updates)
=============================================================================
