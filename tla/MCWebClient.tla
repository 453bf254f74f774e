----------------------------- MODULE MCWebClient -----------------------------
(* The instances of WebClient that TLC checks. *)
EXTENDS WebClient
=============================================================================
