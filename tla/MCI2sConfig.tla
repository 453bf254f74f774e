----------------------------- MODULE MCI2sConfig -----------------------------
(* The instances of I2sConfig that TLC checks. *)
EXTENDS I2sConfig

\* What the page posts: one control at a time, or mode and MCLK (and the
\* submode, if its button was clicked) before a reboot.
MCForms ==
  {[k \in {key} |-> v] : key \in {"MODE"}, v \in Modes}
    \cup {[k \in {key} |-> v] : key \in {"MCLK"}, v \in Mclks}
    \cup {[k \in {"PCM_SWAP"} |-> "1"]}
    \cup {[k \in {"SUBMODE"} |-> "plr"]}
    \cup {[k \in {"MODE", "MCLK"} |-> IF k = "MODE" THEN m ELSE n] :
            m \in Modes, n \in Mclks}
=============================================================================
