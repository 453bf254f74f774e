----------------------------- MODULE SwitchServer -----------------------------
(***************************************************************************)
(* What a page may rely on when it asks for a switch: one request is       *)
(* served at a time, what plays changes only on behalf of the request that *)
(* is served and only by way of silence, and the status that the page      *)
(* reads was true at one moment, if no longer.  ServiceSwitch implements   *)
(* it; WebClient is the page that lives with it.                           *)
(***************************************************************************)
CONSTANTS Players, None

VARIABLES
  serving,    \* the player that the request being served asks for, or None
  playing,    \* the player that runs, or None
  status      \* the player that status_fast.php names, or None

serverVars == <<serving, playing, status>>

Playing == Players \cup {None}

Init ==
  /\ serving = None
  /\ playing \in Playing
  /\ status \in {playing, None}

Admit(p) ==
  /\ serving = None
  /\ serving' = p
  /\ UNCHANGED <<playing, status>>

Stop ==
  /\ serving # None
  /\ playing' = None
  /\ UNCHANGED <<serving, status>>

Start ==
  /\ serving # None /\ playing = None
  /\ playing' = serving
  /\ UNCHANGED <<serving, status>>

\* The answer, or the death of the request.
Release ==
  /\ serving # None
  /\ serving' = None
  /\ UNCHANGED <<playing, status>>

Publish ==
  /\ status' = playing
  /\ UNCHANGED <<serving, playing>>

Next ==
  \/ \E p \in Players : Admit(p)
  \/ Stop \/ Start \/ Release \/ Publish

Spec == Init /\ [][Next]_serverVars
=============================================================================
