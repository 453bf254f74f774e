---------------------------- MODULE MCStatusMonitor ----------------------------
(* The instances of StatusMonitor that TLC checks. *)
EXTENDS StatusMonitor, TLC

CONSTANTS card0, dac1, dac2, dac3, PCM, Speaker

MCDacs == {dac1, dac2, dac3}
MCPreference == <<PCM, Speaker>>

\* dac1 has the control of most DACs; dac2's PCM is a switch without a
\* volume; dac3 has no mixer.
MCElems ==
  (card0 :> (PCM :> {"volume", "switch"} @@ Speaker :> {})) @@
  (dac1 :> (PCM :> {"volume", "switch"} @@ Speaker :> {})) @@
  (dac2 :> (PCM :> {"switch"} @@ Speaker :> {"volume", "switch"})) @@
  (dac3 :> (PCM :> {} @@ Speaker :> {}))
================================================================================
