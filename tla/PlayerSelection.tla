--------------------------- MODULE PlayerSelection ---------------------------
(***************************************************************************)
(* What player switching promises its user: one player is selected, at     *)
(* most one player plays, it is the selected one, and the selection only   *)
(* changes while nothing plays.                                            *)
(***************************************************************************)
CONSTANTS Players, None

VARIABLES
  selected,   \* the player that is started at boot, or None
  playing     \* the player that runs, or None

Init ==
  /\ selected \in Players \cup {None}
  /\ playing \in {selected, None}

Stop == playing' = None /\ UNCHANGED selected

Select(p) ==
  /\ playing = None
  /\ selected' = p
  /\ UNCHANGED playing

Play ==
  /\ playing = None
  /\ playing' = selected
  /\ UNCHANGED selected

Next == Stop \/ Play \/ \E p \in Players \cup {None} : Select(p)

Spec == Init /\ [][Next]_<<selected, playing>>
=============================================================================
