------------------------------- MODULE DacMute -------------------------------
(***************************************************************************)
(* What the I2S driver's automatic mute promises whoever listens: while a  *)
(* user's mute is in force nothing opens the DAC, no old request to unmute *)
(* comes after it, and the automation opens the DAC only for a started     *)
(* stream outside the settling time of a format change.                    *)
(***************************************************************************)
VARIABLES
  open,       \* the mute lines let the DAC play
  held,       \* a user's mute is in force
  asked,      \* a user's unmute is under way
  started,    \* the playback stream is started
  settling    \* a switch between PCM and DSD keeps the DAC muted

vars == <<open, held, asked, started, settling>>

Init == ~open /\ ~held /\ ~asked /\ ~started /\ ~settling

UserMutes ==
  /\ ~asked
  /\ held' = TRUE /\ open' = FALSE
  /\ UNCHANGED <<asked, started, settling>>

\* A user's unmute ends the hold, and opens the DAC now or not at all.
UserAsks ==
  /\ ~asked
  /\ held' = FALSE /\ asked' \in BOOLEAN
  /\ UNCHANGED <<open, started, settling>>

UserOpens ==
  /\ asked /\ ~held
  /\ asked' = FALSE /\ open' = TRUE
  /\ UNCHANGED <<held, started, settling>>

AutomationOpens ==
  /\ started /\ ~held /\ ~asked /\ ~settling
  /\ open' = TRUE
  /\ UNCHANGED <<held, asked, started, settling>>

Start ==
  /\ ~started /\ started' = TRUE
  /\ UNCHANGED <<open, held, asked, settling>>

\* The end of the stream closes the DAC, but for the settling time.
Stop ==
  /\ started /\ started' = FALSE
  /\ open' = (open /\ settling)
  /\ UNCHANGED <<held, asked, settling>>

\* The user's mute that a switch overtakes is in force from then on.
Settle ==
  /\ settling' = TRUE /\ open' = FALSE
  /\ held' \in {held, ~asked}
  /\ UNCHANGED <<asked, started>>

Settled ==
  /\ settling' = FALSE
  /\ UNCHANGED <<open, held, asked, started>>

Next ==
  \/ UserMutes \/ UserAsks \/ UserOpens \/ AutomationOpens
  \/ Start \/ Stop \/ Settle \/ Settled

Spec == Init /\ [][Next]_vars
=============================================================================
