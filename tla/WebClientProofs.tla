--------------------------- MODULE WebClientProofs ---------------------------
(***************************************************************************)
(* Proofs about WebClient, for any players, any number of switches, checks *)
(* and polls: types, and that stale status answers do not move the button  *)
(* of a switch in progress.                                                *)
(***************************************************************************)
EXTENDS WebClient, FiniteSetTheorems, TLAPS

\* The switches that a click has begun.
Begun == {j \in Switches : at[j] # "idle"}

\* While the time-out of a page's only switch is armed, the flag is up, which
\* makes updateInterfaceFromStatus leave the button alone, and the button is
\* the one that was clicked.
OnlySwitchHolds ==
  \A k \in Switches :
    Begun = {k} /\ timer[k] => isServiceSwitching /\ shown = want[k]

IInv == TypeOK /\ IsFiniteSet(polls) /\ OnlySwitchHolds

-----------------------------------------------------------------------------
\* A page that has just been loaded.
LEMMA InitIInv == Init => IInv
  <1> SUFFICES ASSUME Init PROVE IInv
    OBVIOUS
  <1>1. IsFiniteSet(polls) /\ Cardinality(polls) = 0
    BY FS_EmptySet DEF Init
  <1>2. TypeOK
    <2>1. 0 \in 0 .. (MaxChecks - 1)
      BY ChecksAssumption
    <2>2. polls \subseteq Playing /\ Cardinality(polls) <= MaxPolls
      BY <1>1, PollsAssumption DEF Init
    <2> QED
      BY <2>1, <2>2 DEF Init, TypeOK, Playing, Server!Init, Server!Playing
  <1> QED
    BY <1>1, <1>2 DEF Init, IInv, OnlySwitchHolds, Begun

\* The answers on their way stay within their bound: asking checks it,
\* and an answer that arrives or is lost leaves one less.
LEMMA PollsStep ==
  ASSUME TypeOK, IsFiniteSet(polls), [Next]_vars
  PROVE  /\ polls' \subseteq Playing
         /\ IsFiniteSet(polls') /\ Cardinality(polls') <= MaxPolls
  <1>1. CASE forceStatusCheck
    BY <1>1, FS_AddElement DEF forceStatusCheck, TypeOK
  <1>2. ASSUME NEW s \in Playing, PollAnswered(s) \/ PollLost(s)
        PROVE  /\ polls' \subseteq Playing
               /\ IsFiniteSet(polls') /\ Cardinality(polls') <= MaxPolls
    <2>1. polls' = polls \ {s} /\ s \in polls
      BY <1>2 DEF PollAnswered, PollLost
    <2>2. /\ IsFiniteSet(polls \ {s}) /\ Cardinality(polls) \in Nat
          /\ Cardinality(polls \ {s}) = Cardinality(polls) - 1
      BY <2>1, FS_RemoveElement, FS_CardinalityType
    <2> QED
      BY <2>1, <2>2, PollsAssumption DEF TypeOK
  <1>3. CASE UNCHANGED polls
    BY <1>3 DEF TypeOK
  <1>4. \/ UNCHANGED polls \/ forceStatusCheck
        \/ \E s \in Playing : PollAnswered(s) \/ PollLost(s)
    <2>1. ASSUME NEW k \in Switches, SwitchStep(k) \/ ServerStep(k)
          PROVE  UNCHANGED polls
      BY <2>1 DEF SwitchStep, ServerStep, checkUsbDac_success,
                  checkUsbDac_error, post_success, ajax_error, StatusServed,
                  check_active, check_again, check_gives_up, ServiceRequested,
                  ServiceAnswered, pageVars
    <2>2. ASSUME NEW k \in Switches,
                 \/ \E s \in Services : click(k, s)
                 \/ SwitchingTimeout(k)
          PROVE  UNCHANGED polls
      BY <2>2 DEF click, SwitchingTimeout
    <2>3. ServerWorks => UNCHANGED polls
      BY DEF ServerWorks, pageVars
    <2> QED
      BY <2>1, <2>2, <2>3 DEF Next, vars
  <1> QED
    BY <1>1, <1>2, <1>3, <1>4

-----------------------------------------------------------------------------
\* What every step leaves of the types and of the first switch's button.
Kept == TypeOK' /\ OnlySwitchHolds'

\* Polls: the flag protects the button.
LEMMA PollsKeep ==
  ASSUME IInv, [Next]_vars,
         \/ forceStatusCheck
         \/ \E s \in Playing : PollAnswered(s) \/ PollLost(s)
         \/ UNCHANGED vars
  PROVE  Kept
  <1>1. /\ polls' \subseteq Playing /\ Cardinality(polls') <= MaxPolls
    BY PollsStep DEF IInv
  <1>2. /\ UNCHANGED <<switchVars, serv, serverVars, isServiceSwitching>>
        /\ shown' = shown \/ (~isServiceSwitching /\ shown' \in Playing)
    BY DEF forceStatusCheck, PollAnswered, PollLost, ShowStatus, flagVars, vars
  <1> QED
    BY <1>1, <1>2 DEF Kept, IInv, TypeOK, OnlySwitchHolds, Begun, switchVars,
                      serverVars

\* The server's steps: the page does not see them.
LEMMA ServerKeeps ==
  ASSUME IInv, ServerWorks \/ \E k \in Switches : ServerStep(k)
  PROVE  Kept
  <1> USE DEF pageVars, flagVars, switchVars, serverVars, Kept, IInv, TypeOK,
              OnlySwitchHolds, Begun, Playing
  <1>1. CASE ServerWorks
    BY <1>1 DEF ServerWorks, Server!Stop, Server!Start, Server!Publish
  <1>2. ASSUME NEW k \in Switches, ServiceRequested(k) PROVE Kept
    BY <1>2 DEF ServiceRequested, Server!Admit
  <1>3. ASSUME NEW k \in Switches, ServiceAnswered(k) PROVE Kept
    BY <1>3 DEF ServiceAnswered, Server!Release
  <1> QED
    BY <1>1, <1>2, <1>3 DEF ServerStep

\* The click and the answer of checkUsbDac: the button of the new switch.
LEMMA BeginKeeps ==
  ASSUME IInv, NEW k \in Switches,
         \/ \E s \in Services : click(k, s)
         \/ checkUsbDac_success(k) \/ checkUsbDac_error(k) \/ StatusServed(k)
  PROVE  Kept
  <1> USE ChecksAssumption
      DEF Kept, IInv, TypeOK, OnlySwitchHolds, Begun, Playing, Goto, End,
          flagVars, switchVars, serverVars
  <1>1. ASSUME NEW s \in Services, click(k, s) PROVE Kept
    <2>1. CASE at' = [at EXCEPT ![k] = "usb"] /\ UNCHANGED <<flagVars, timer>>
      <3>1. TypeOK'
        BY <1>1, <2>1 DEF click, switchPlayerService
      <3>2. OnlySwitchHolds'
        BY <1>1, <2>1 DEF click, switchPlayerService
      <3> QED
        BY <3>1, <3>2
    <2>2. CASE Goto(k, "idle", "post") /\ switchPlayerService(k, s)
      <3>1. TypeOK'
        BY <1>1, <2>2 DEF click, switchPlayerService
      <3>2. OnlySwitchHolds'
        BY <1>1, <2>2 DEF click, switchPlayerService
      <3> QED
        BY <3>1, <3>2
    <2> QED
      BY <1>1, <2>1, <2>2 DEF click
  <1>2. CASE checkUsbDac_success(k)
    <2>1. CASE Goto(k, "dac", "post") /\ switchPlayerService(k, want[k])
      <3>1. TypeOK'
        BY <1>2, <2>1 DEF checkUsbDac_success, switchPlayerService
      <3>2. OnlySwitchHolds'
        BY <1>2, <2>1 DEF checkUsbDac_success, switchPlayerService
      <3> QED
        BY <3>1, <3>2
    <2>2. CASE End(k, "dac") /\ ShowStatus(got[k])
      <3>1. TypeOK'
        BY <1>2, <2>2 DEF checkUsbDac_success, ShowStatus
      <3>2. OnlySwitchHolds'
        BY <1>2, <2>2 DEF checkUsbDac_success, ShowStatus
      <3> QED
        BY <3>1, <3>2
    <2> QED
      BY <1>2, <2>1, <2>2 DEF checkUsbDac_success
  <1>3. CASE checkUsbDac_error(k)
    BY <1>3 DEF checkUsbDac_error
  <1>4. CASE StatusServed(k)
    BY <1>4 DEF StatusServed
  <1> QED
    BY <1>1, <1>2, <1>3, <1>4

\* The other callbacks of a switch: those that change the button disarm the
\* time-out.
LEMMA SwitchKeeps ==
  ASSUME IInv, NEW k \in Switches,
         \/ SwitchingTimeout(k) \/ post_success(k) \/ ajax_error(k)
         \/ check_active(k) \/ check_again(k) \/ check_gives_up(k)
  PROVE  Kept
  <1> USE ChecksAssumption
      DEF Kept, IInv, TypeOK, OnlySwitchHolds, Begun, Playing, Goto, End,
          flagVars, switchVars, serverVars, Disarm, Unblock
  <1>1. CASE SwitchingTimeout(k)
    BY <1>1 DEF SwitchingTimeout
  <1>2. CASE post_success(k)
    BY <1>2 DEF post_success
  <1>3. CASE ajax_error(k)
    <2>1. TypeOK'
      <3>1. /\ at' = [at EXCEPT ![k] = "ended"]
            /\ timer' = [timer EXCEPT ![k] = FALSE]
            /\ got' = [got EXCEPT ![k] = None]
            /\ checks' = [checks EXCEPT ![k] = 0]
            /\ UNCHANGED <<want, polls, serv, serverVars>>
            /\ isServiceSwitching' = FALSE /\ shown' \in Services \cup {None}
        BY <1>3 DEF ajax_error
      <3>2. /\ timer' \in [Switches -> BOOLEAN]
            /\ \A j \in Switches : at'[j] \in {"idle", "usb", "dac", "ended"} =>
                                     ~timer'[j]
        BY <3>1
      <3>3. /\ got' \in [Switches -> Services \cup {None}]
            /\ checks' \in [Switches -> 0 .. (MaxChecks - 1)]
        BY <3>1
      <3> QED
        BY <3>1, <3>2, <3>3
    <2>2. OnlySwitchHolds'
      BY <1>3 DEF ajax_error
    <2> QED
      BY <2>1, <2>2
  <1>4. CASE check_active(k)
    <2>1. TypeOK'
      <3>1. /\ at' = [at EXCEPT ![k] = "ended"]
            /\ timer' = [timer EXCEPT ![k] = FALSE]
            /\ got' = [got EXCEPT ![k] = None]
            /\ checks' = [checks EXCEPT ![k] = 0]
            /\ UNCHANGED <<want, polls, serv, serverVars>>
            /\ isServiceSwitching' = FALSE /\ shown' \in Services \cup {None}
        BY <1>4 DEF check_active
      <3>2. /\ timer' \in [Switches -> BOOLEAN]
            /\ \A j \in Switches : at'[j] \in {"idle", "usb", "dac", "ended"} =>
                                     ~timer'[j]
        BY <3>1
      <3>3. /\ got' \in [Switches -> Services \cup {None}]
            /\ checks' \in [Switches -> 0 .. (MaxChecks - 1)]
        BY <3>1
      <3> QED
        BY <3>1, <3>2, <3>3
    <2>2. OnlySwitchHolds'
      BY <1>4 DEF check_active
    <2> QED
      BY <2>1, <2>2
  <1>5. CASE check_again(k)
    BY <1>5 DEF check_again
  <1>6. CASE check_gives_up(k)
    BY <1>6 DEF check_gives_up
  <1> QED
    BY <1>1, <1>2, <1>3, <1>4, <1>5, <1>6

-----------------------------------------------------------------------------
\* The inductive invariant of the page.
THEOREM WebInvHolds == Spec => []IInv
  <1>1. IInv /\ [Next]_vars => IInv'
    <2> SUFFICES ASSUME IInv, [Next]_vars PROVE IInv'
      OBVIOUS
    <2>1. Kept
      BY PollsKeep, ServerKeeps, BeginKeeps, SwitchKeeps DEF Next, SwitchStep
    <2>2. IsFiniteSet(polls')
      BY PollsStep DEF IInv
    <2> QED
      BY <2>1, <2>2 DEF Kept, IInv
  <1> QED
    BY InitIInv, <1>1, PTL DEF Spec

\* Types, for any players, switches and bounds.
THEOREM WebTypeCorrect == Spec => []TypeOK
  BY WebInvHolds, PTL DEF IInv

\* No order of clicks, answers, errors and time-outs, and no stale status
\* answer, moves the button of a page's first switch before its outcome.
THEOREM ButtonNotMoved == Spec => []WantedStaysShown
  <1>1. IInv => WantedStaysShown
    BY DEF IInv, OnlySwitchHolds, Begun, WantedStaysShown
  <1> QED
    BY WebInvHolds, <1>1, PTL
=============================================================================
