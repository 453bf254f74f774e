------------------------------ MODULE WebClient ------------------------------
(***************************************************************************)
(* The page's side of a switch (app.js): the callbacks of one browser page *)
(* over its flag isServiceSwitching, the active button, the time-out of    *)
(* each switch, its request and its status checks, over SwitchServer,      *)
(* which handle_service.php, as modelled in ServiceSwitch, implements.  It *)
(* answers 200 whether it admits a request or not.                         *)
(*                                                                         *)
(* The browser runs one callback at a time; answers and timers come in any *)
(* order.  A status answer is read on the server at one step and arrives   *)
(* at a later one.  The slider's flag isVolumeChanging, which suspends the *)
(* polling too, is set for a while at most and not a part of the state.    *)
(***************************************************************************)
EXTENDS Naturals, FiniteSets

CONSTANTS
  Services,    \* players with a button
  Switches,    \* the clicks of an execution that get as far as a switch
  MaxChecks,   \* maxChecks
  MaxPolls,    \* bound on the different answers that are on their way
  None

ASSUME ServicesAssumption == None \notin Services
ASSUME SwitchesAssumption == None \notin Switches
ASSUME ChecksAssumption   == MaxChecks \in Nat \ {0}
ASSUME PollsAssumption    == MaxPolls \in Nat

VARIABLES
  isServiceSwitching,
  shown,      \* the player whose button is active
  at,         \* position of each switch in the page
  want,       \* the service it was called for
  timer,      \* whether its switchingTimeout is armed
  checks,     \* its checkCount
  got,        \* its last status answer
  polls,      \* status answers of polls that are on their way
  serv,       \* how far its request is
  serving, playing, status    \* the server: SwitchServer

flagVars   == <<isServiceSwitching, shown>>
switchVars == <<at, want, timer, checks, got>>
serverVars == <<serving, playing, status>>
vars       == <<flagVars, switchVars, polls, serv, serverVars>>

Server == INSTANCE SwitchServer WITH Players <- Services

Playing == Services \cup {None}

\* Type invariant, with what a switch that has ended leaves behind.
TypeOK ==
  /\ isServiceSwitching \in BOOLEAN
  /\ shown \in Playing
  /\ at \in [Switches -> {"idle", "usb", "dac", "post", "check", "answer",
                          "ended"}]
  /\ want \in [Switches -> Playing]
  /\ timer \in [Switches -> BOOLEAN]
  /\ \A k \in Switches : at[k] \in {"idle", "usb", "dac", "ended"} => ~timer[k]
  /\ checks \in [Switches -> 0 .. (MaxChecks - 1)]
  /\ got \in [Switches -> Playing]
  /\ polls \subseteq Playing /\ Cardinality(polls) <= MaxPolls
  /\ serv \in [Switches -> {"none", "sent", "busy", "done"}]
  /\ serving \in Playing /\ playing \in Playing /\ status \in Playing

Init ==
  /\ isServiceSwitching = FALSE
  /\ Server!Init
  /\ shown = status
  /\ at = [k \in Switches |-> "idle"]
  /\ want = [k \in Switches |-> None]
  /\ timer = [k \in Switches |-> FALSE]
  /\ checks = [k \in Switches |-> 0]
  /\ got = [k \in Switches |-> None]
  /\ polls = {}
  /\ serv = [k \in Switches |-> "none"]

-----------------------------------------------------------------------------
(* The page: status answers. *)

\* mutant: an answer is shown whether or not a switch is in progress
ShowAnyway(s) == shown' = s

\* mutant: an answer without an active player leaves the button as it is
ShowActive(s) == shown' = IF isServiceSwitching \/ s = None THEN shown ELSE s

\* The active button, in updateInterfaceFromStatus.
ShowStatus(s) == shown' = IF isServiceSwitching THEN shown ELSE s

\* The server's answer to a poll.  A click or the page's becoming visible
\* asks for one at any time, the interval's tick unless a switch is in
\* progress.
forceStatusCheck ==
  /\ polls' = polls \cup {status}
  /\ Cardinality(polls') <= MaxPolls
  /\ UNCHANGED <<flagVars, switchVars, serv, serverVars>>

PollTick == ~isServiceSwitching /\ forceStatusCheck

PollAnswered(s) ==
  /\ s \in polls
  /\ polls' = polls \ {s}
  /\ ShowStatus(s)
  /\ UNCHANGED <<isServiceSwitching, switchVars, serv, serverVars>>

\* The time-out of a poll.
PollLost(s) ==
  /\ s \in polls
  /\ polls' = polls \ {s}
  /\ UNCHANGED <<flagVars, switchVars, serv, serverVars>>

-----------------------------------------------------------------------------
(* The page: a switch. *)

Goto(k, here, there) == at[k] = here /\ at' = [at EXCEPT ![k] = there]

\* The last callback of a switch: its variables go with it.
End(k, here) ==
  /\ Goto(k, here, "ended")
  /\ got' = [got EXCEPT ![k] = None]
  /\ checks' = [checks EXCEPT ![k] = 0]

\* The flag goes up, the button is active at once, the time-out is armed and
\* the request is sent.
switchPlayerService(k, s) ==
  /\ isServiceSwitching' = TRUE
  /\ shown' = s
  /\ timer' = [timer EXCEPT ![k] = TRUE]
  /\ serv' = [serv EXCEPT ![k] = "sent"]

\* A click on a button that is not active.  With the output on USB the switch
\* is made by the callback of checkUsbDac.
click(k, s) ==
  /\ s # shown /\ ~isServiceSwitching
  /\ want' = [want EXCEPT ![k] = s]
  /\ \/ /\ Goto(k, "idle", "usb")
        /\ UNCHANGED <<flagVars, timer, serv>>
     \/ /\ Goto(k, "idle", "post")
        /\ switchPlayerService(k, s)
  /\ UNCHANGED <<checks, got, polls, serverVars>>

\* The status that checkUsbDac asks for, or a status check.
StatusServed(k) ==
  /\ Goto(k, "usb", "dac") \/ Goto(k, "check", "answer")
  /\ got' = [got EXCEPT ![k] = status]
  /\ UNCHANGED <<flagVars, want, timer, checks, polls, serv, serverVars>>

\* checkUsbDac's answer: it is shown, and the switch is made when there is a
\* DAC.
checkUsbDac_success(k) ==
  /\ \/ /\ Goto(k, "dac", "post")
        /\ switchPlayerService(k, want[k])
        /\ UNCHANGED <<got, checks>>
     \/ /\ End(k, "dac")
        /\ ShowStatus(got[k])
        /\ UNCHANGED <<isServiceSwitching, timer, serv>>
  /\ UNCHANGED <<want, polls, serverVars>>

checkUsbDac_error(k) ==
  /\ End(k, "usb") \/ End(k, "dac")
  /\ UNCHANGED <<flagVars, want, timer, polls, serv, serverVars>>

\* What a switch does when it gives up.
Unblock == isServiceSwitching' = FALSE

Disarm(k) == timer' = [timer EXCEPT ![k] = FALSE]

SwitchingTimeout(k) ==
  /\ timer[k] /\ Disarm(k)
  /\ Unblock
  /\ shown' = None
  /\ UNCHANGED <<at, want, checks, got, polls, serv, serverVars>>

post_success(k) ==
  /\ serv[k] = "done"
  /\ Goto(k, "post", "check")
  /\ UNCHANGED <<flagVars, want, timer, checks, got, polls, serv, serverVars>>

\* An error or a time-out of the request, or of a status check.
ajax_error(k) ==
  /\ \E here \in {"post", "check", "answer"} : End(k, here)
  /\ Disarm(k)
  /\ Unblock
  /\ shown' = None
  /\ UNCHANGED <<want, polls, serv, serverVars>>

\* Some player is active: the one wanted or another, the switch has ended.
check_active(k) ==
  /\ got[k] # None
  /\ End(k, "answer")
  /\ Disarm(k)
  /\ Unblock
  /\ shown' = got[k]
  /\ UNCHANGED <<want, polls, serv, serverVars>>

check_again(k) ==
  /\ got[k] = None /\ checks[k] + 1 < MaxChecks
  /\ Goto(k, "answer", "check")
  /\ checks' = [checks EXCEPT ![k] = @ + 1]
  /\ UNCHANGED <<flagVars, want, timer, got, polls, serv, serverVars>>

\* mutant: ten checks, which take five seconds
TenChecks(k) == TRUE

\* Forty checks, 500 ms apart, take longer than the longest switchingTimeout.
ChecksOutlastTimeout(k) == ~timer[k]

\* No player is active at the last check; the flag is left as it is.
check_gives_up(k) ==
  /\ got[k] = None /\ checks[k] + 1 = MaxChecks
  /\ ChecksOutlastTimeout(k)
  /\ End(k, "answer")
  /\ Disarm(k)
  /\ shown' = None
  /\ UNCHANGED <<isServiceSwitching, want, polls, serv, serverVars>>

-----------------------------------------------------------------------------
(* The server, as the page sees it. *)

pageVars == <<flagVars, switchVars, polls>>

\* A request that finds another one being served is answered like one that
\* has succeeded.
ServiceRequested(k) ==
  /\ serv[k] = "sent"
  /\ \/ /\ Server!Admit(want[k])
        /\ serv' = [serv EXCEPT ![k] = "busy"]
     \/ /\ serving # None
        /\ serv' = [serv EXCEPT ![k] = "done"]
        /\ UNCHANGED serverVars
  /\ UNCHANGED pageVars

ServiceAnswered(k) ==
  /\ serv[k] = "busy"
  /\ serv' = [serv EXCEPT ![k] = "done"]
  /\ Server!Release
  /\ UNCHANGED pageVars

\* The old player stops, the new one may come up, the monitor publishes.
ServerWorks ==
  /\ Server!Stop \/ Server!Start \/ Server!Publish
  /\ UNCHANGED <<pageVars, serv>>

-----------------------------------------------------------------------------
SwitchStep(k) ==
  \/ checkUsbDac_success(k) \/ checkUsbDac_error(k)
  \/ post_success(k) \/ ajax_error(k)
  \/ StatusServed(k) \/ check_active(k) \/ check_again(k) \/ check_gives_up(k)

ServerStep(k) == ServiceRequested(k) \/ ServiceAnswered(k)

Next ==
  \/ \E k \in Switches :
       \/ \E s \in Services : click(k, s)
       \/ SwitchingTimeout(k) \/ SwitchStep(k)
       \/ ServerStep(k)
  \/ ServerWorks
  \/ forceStatusCheck
  \/ \E s \in Playing : PollAnswered(s) \/ PollLost(s)

Spec == Init /\ [][Next]_vars

\* Timers fire, requests are answered or time out, polls are repeated and
\* not lost for ever.
FairSpec ==
  /\ Spec
  /\ WF_vars(\E k \in Switches : SwitchingTimeout(k))
  /\ WF_vars(\E k \in Switches : SwitchStep(k))
  /\ WF_vars(\E k \in Switches : ServerStep(k))
  /\ SF_vars(PollTick)
  /\ SF_vars(\E s \in Playing : PollAnswered(s))

-----------------------------------------------------------------------------
(* Properties. *)

\* Whatever status answers arrive meanwhile, the button of a page's first
\* switch stays active until its time-out or its outcome (after the time-out
\* a second switch may overlap the first).
WantedStaysShown ==
  \A k \in Switches :
    {j \in Switches : at[j] # "idle"} = {k} /\ timer[k] => shown = want[k]

\* No sequence of time-outs, errors and overlapping switches leaves the page
\* refusing clicks and polls (isServiceSwitching) for ever.
BlockEnds == isServiceSwitching ~> ~isServiceSwitching

\* When the user has stopped clicking, updateInterfaceFromStatus comes to show
\* what plays, whatever stale answers were on their way.
ShownInTheEnd == <>[](shown = status)
=============================================================================
