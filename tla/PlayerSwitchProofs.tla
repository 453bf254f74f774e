------------------------- MODULE PlayerSwitchProofs -------------------------
(***************************************************************************)
(* Proofs about the switching of players.                                  *)
(*                                                                         *)
(* First about ServiceSwitch alone, for any players and any number of      *)
(* requests: mutual exclusion, one link, one player, and the refinement of *)
(* PlayerSelection and of SwitchServer, the server that WebClient assumes. *)
(*                                                                         *)
(* Then about RestartScripts, which composes it with the scripts that take *)
(* no lock, for any number of requests of either kind and of hot-plug      *)
(* events: types, and that scripts which kill and restart the linked       *)
(* player behind each other's back leave it running.  Whoever kills the    *)
(* player of a link is bound to start it again or to remove the link, and  *)
(* whoever makes a link is bound to start its player; a start in progress  *)
(* is out of everybody's reach.  Neither the lock of handle_service.php    *)
(* nor OneLink is needed for it.                                           *)
(***************************************************************************)
EXTENDS RestartScripts, TLAPS


\* From CheckScript on, a request works on a player that is installed.
TargetInstalled ==
  \A r \in Requests :
    req[r] \in Switching \ {"locked"} => target[r] \in Installed

\* A request that has linked its player finds that link alone, one that has
\* removed the links finds none.
LinksFollow ==
  \A r \in Requests :
    /\ req[r] = "link" => links = {}
    /\ req[r] \in {"start", "starting", "waiting"} => links = {target[r]}

\* A start script runs for a request that waits for it, and nothing plays
\* between the stop and the end of the start script.
StartsAlone ==
  /\ \A x \in starting :
       /\ x[2] \in Requests
       /\ req[x[2]] = "starting"
       /\ x = <<target[x[2]], x[2]>>
  /\ starting # {} => running = {}
  /\ \A r \in Requests : req[r] \in {"remove", "link", "start"} => running = {}

\* What runs is what the links say.
RunsLinked ==
  /\ \A x, y \in running : x = y
  /\ \A x \in running : links = {x[1]}

IInv ==
  /\ TypeOK
  /\ TargetInstalled
  /\ OneSwitchAtATime
  /\ OneLink
  /\ LinksFollow
  /\ StartsAlone
  /\ RunsLinked

\* Boot leaves one link at most, and its player alone.
LEMMA InitIInv == Init => IInv
<1> SUFFICES ASSUME Init PROVE IInv
  OBVIOUS
<1> USE PlayersAssumption, RequestsAssumption
        DEF Init, Idle, Switching, Starters
<1>1. TypeOK
  BY DEF TypeOK
<1>2. TargetInstalled /\ OneSwitchAtATime
  BY DEF TargetInstalled, OneSwitchAtATime
<1>3. OneLink /\ LinksFollow
  BY DEF OneLink, LinksFollow
<1>4. StartsAlone
  BY DEF StartsAlone
<1>5. RunsLinked
  BY DEF RunsLinked
<1> QED
  BY <1>1, <1>2, <1>3, <1>4, <1>5 DEF IInv

\* Every step keeps the types.
LEMMA NextTypeOK ==
  TypeOK /\ TargetInstalled /\ [Next]_vars => TypeOK'
<1> SUFFICES ASSUME TypeOK, TargetInstalled, [Next]_vars PROVE TypeOK'
  OBVIOUS
<1> USE PlayersAssumption, RequestsAssumption
        DEF TypeOK, Goto, Idle, Switching, playerVars, releaseLock
<1>1. CASE \E r \in Requests : RequestStep(r)
  <2> PICK r \in Requests : RequestStep(r)
    BY <1>1
  <2>1. CASE CheckScript(r)
    BY <2>1 DEF CheckScript
  <2>2. CASE StopPlayers(r)
    BY <2>2 DEF StopPlayers, AfterStop
  <2>3. CASE RemoveLinks(r)
    BY <2>3 DEF RemoveLinks
  <2>4. CASE CreateLink(r)
    BY <2>4 DEF CreateLink, TargetInstalled
  <2>5. CASE StartPlayer(r)
    BY <2>5 DEF StartPlayer, TargetInstalled, Starters
  <2>6. CASE Notify(r)
    BY <2>6 DEF Notify
  <2>7. CASE Confirm(r)
    BY <2>7 DEF Confirm
  <2>8. CASE GiveUp(r)
    BY <2>8 DEF GiveUp
  <2> QED
    BY <2>1, <2>2, <2>3, <2>4, <2>5, <2>6, <2>7, <2>8 DEF RequestStep
<1>2. ASSUME NEW r \in Requests, RequestKilled(r) PROVE TypeOK'
  BY <1>2 DEF RequestKilled
<1>3. ASSUME NEW r \in Requests, NEW p \in Players, acquireLock(r, p)
      PROVE  TypeOK'
  BY <1>3 DEF acquireLock
<1>4. ASSUME NEW x \in starting, ScriptEnds(x) PROVE TypeOK'
  BY <1>4 DEF ScriptEnds
<1>5. CASE MonitorPublishes
  BY <1>5 DEF MonitorPublishes
<1>6. CASE UNCHANGED vars
  BY <1>6 DEF vars
<1> QED
  BY <1>1, <1>2, <1>3, <1>4, <1>5, <1>6 DEF Next

\* A request leaves CheckScript only with an installed player.
LEMMA NextTargetInstalled ==
  TypeOK /\ TargetInstalled /\ [Next]_vars => TargetInstalled'
<1> SUFFICES ASSUME TypeOK, TargetInstalled, [Next]_vars,
                    NEW q \in Requests,
                    req'[q] \in Switching \ {"locked"}
             PROVE  target'[q] \in Installed
  BY DEF TargetInstalled
<1> req \in [Requests -> Idle \cup Switching]
  BY DEF TypeOK
<1>0. req[q] \in Switching \ {"locked"} => target[q] \in Installed
  BY DEF TargetInstalled
<1> USE DEF Goto, Idle, Switching, playerVars
<1>1. CASE \E r \in Requests : RequestStep(r)
  <2> PICK r \in Requests : RequestStep(r)
    BY <1>1
  <2>1. CASE CheckScript(r)
    BY <2>1, <1>0 DEF CheckScript
  <2>2. CASE ~CheckScript(r)
    BY <2>2, <1>0 DEF RequestStep, StopPlayers, RemoveLinks, CreateLink,
                      StartPlayer, Notify, Confirm, GiveUp
  <2> QED
    BY <2>1, <2>2
<1>2. ASSUME NEW r \in Requests, RequestKilled(r)
      PROVE  target'[q] \in Installed
  BY <1>2, <1>0 DEF RequestKilled
<1>3. ASSUME NEW r \in Requests, NEW p \in Players, acquireLock(r, p)
      PROVE  target'[q] \in Installed
  BY <1>3, <1>0 DEF acquireLock, TypeOK
<1>4. ASSUME NEW x \in starting, ScriptEnds(x)
      PROVE  target'[q] \in Installed
  BY <1>4, <1>0 DEF ScriptEnds
<1>5. CASE MonitorPublishes
  BY <1>5, <1>0 DEF MonitorPublishes
<1>6. CASE UNCHANGED vars
  BY <1>6, <1>0 DEF vars
<1> QED
  BY <1>1, <1>2, <1>3, <1>4, <1>5, <1>6 DEF Next

\* A request enters by taking the free lock, and leaves by releasing it.
LEMMA NextOneSwitchAtATime ==
  TypeOK /\ OneSwitchAtATime /\ [Next]_vars => OneSwitchAtATime'
<1> SUFFICES ASSUME TypeOK, OneSwitchAtATime, [Next]_vars
             PROVE  OneSwitchAtATime'
  OBVIOUS
<1> req \in [Requests -> Idle \cup Switching]
  BY DEF TypeOK
<1> USE RequestsAssumption
        DEF OneSwitchAtATime, Goto, Idle, Switching, playerVars, releaseLock
<1>1. CASE \E r \in Requests : RequestStep(r)
  <2> PICK r \in Requests : RequestStep(r)
    BY <1>1
  <2>1. CASE CheckScript(r)
    BY <2>1 DEF CheckScript
  <2>2. CASE Confirm(r) \/ GiveUp(r)
    BY <2>2 DEF Confirm, GiveUp
  <2>3. CASE StopPlayers(r) \/ RemoveLinks(r) \/ CreateLink(r)
    BY <2>3 DEF StopPlayers, RemoveLinks, CreateLink
  <2>4. CASE StartPlayer(r) \/ Notify(r)
    BY <2>4 DEF StartPlayer, Notify
  <2> QED
    BY <2>1, <2>2, <2>3, <2>4 DEF RequestStep
<1>2. ASSUME NEW r \in Requests, RequestKilled(r) PROVE OneSwitchAtATime'
  BY <1>2 DEF RequestKilled
<1>3. ASSUME NEW r \in Requests, NEW p \in Players, acquireLock(r, p)
      PROVE  OneSwitchAtATime'
  BY <1>3 DEF acquireLock, LockAvailable
<1>4. ASSUME NEW x \in starting, ScriptEnds(x) PROVE OneSwitchAtATime'
  BY <1>4 DEF ScriptEnds
<1>5. CASE MonitorPublishes
  BY <1>5 DEF MonitorPublishes
<1>6. CASE UNCHANGED vars
  BY <1>6 DEF vars
<1> QED
  BY <1>1, <1>2, <1>3, <1>4, <1>5, <1>6 DEF Next

\* Two requests between lock and release are the same request.
LEMMA OneRequest ==
  ASSUME OneSwitchAtATime,
         NEW r \in Requests, NEW q \in Requests,
         req[r] \in Switching, req[q] \in Switching
  PROVE  r = q
BY DEF OneSwitchAtATime

\* Only the request that holds the lock touches the links.
LEMMA NextLinks ==
  IInv /\ [Next]_vars => OneLink' /\ LinksFollow'
<1> SUFFICES ASSUME IInv, [Next]_vars PROVE OneLink' /\ LinksFollow'
  OBVIOUS
<1> TypeOK /\ OneSwitchAtATime /\ OneLink /\ LinksFollow
  BY DEF IInv
<1> req \in [Requests -> Idle \cup Switching]
  BY DEF TypeOK
<1> USE DEF OneLink, LinksFollow, Goto, Idle, Switching, playerVars
<1>1. CASE \E r \in Requests : RequestStep(r)
  <2> PICK r \in Requests : RequestStep(r)
    BY <1>1
  <2>1. CASE CheckScript(r)
    BY <2>1 DEF CheckScript
  <2>2. CASE StopPlayers(r)
    BY <2>2 DEF StopPlayers
  <2>3. CASE RemoveLinks(r)
    BY <2>3, OneRequest DEF RemoveLinks
  <2>4. CASE CreateLink(r)
    <3>1. links = {}
      BY <2>4 DEF CreateLink
    <3>2. links' = {target[r]} /\ target' = target
      BY <2>4, <3>1 DEF CreateLink
    <3>3. \A q \in Requests \ {r} : req'[q] = req[q] /\ req[q] \notin Switching
      BY <2>4, OneRequest DEF CreateLink
    <3>4. req'[r] = "start"
      BY <2>4 DEF CreateLink
    <3> QED
      BY <3>2, <3>3, <3>4
  <2>5. CASE StartPlayer(r) \/ Notify(r)
    BY <2>5 DEF StartPlayer, Notify
  <2>6. CASE Confirm(r) \/ GiveUp(r)
    BY <2>6 DEF Confirm, GiveUp
  <2> QED
    BY <2>1, <2>2, <2>3, <2>4, <2>5, <2>6 DEF RequestStep
<1>2. ASSUME NEW r \in Requests, RequestKilled(r)
      PROVE  OneLink' /\ LinksFollow'
  BY <1>2 DEF RequestKilled
<1>3. ASSUME NEW r \in Requests, NEW p \in Players, acquireLock(r, p)
      PROVE  OneLink' /\ LinksFollow'
  BY <1>3 DEF acquireLock
<1>4. ASSUME NEW x \in starting, ScriptEnds(x)
      PROVE  OneLink' /\ LinksFollow'
  BY <1>4 DEF ScriptEnds
<1>5. CASE MonitorPublishes
  BY <1>5 DEF MonitorPublishes
<1>6. CASE UNCHANGED vars
  BY <1>6 DEF vars
<1> QED
  BY <1>1, <1>2, <1>3, <1>4, <1>5, <1>6 DEF Next

\* The stop leaves nothing: what runs is the one player that is linked.
LEMMA StopReachesAll == RunsLinked => AfterStop(links) = {}
BY DEF RunsLinked, AfterStop

\* Only a request starts a player, after its stop, and waits for the script.
LEMMA NextStartsAlone ==
  IInv /\ [Next]_vars => StartsAlone'
<1> SUFFICES ASSUME IInv, [Next]_vars PROVE StartsAlone'
  OBVIOUS
<1> TypeOK /\ OneSwitchAtATime /\ StartsAlone /\ RunsLinked
  BY DEF IInv
<1> req \in [Requests -> Idle \cup Switching]
  BY DEF TypeOK
<1> target \in [Requests -> Players \cup {None}]
  BY DEF TypeOK
<1> USE DEF StartsAlone, Goto, Idle, Switching, playerVars
<1>1. CASE \E r \in Requests : RequestStep(r)
  <2> PICK r \in Requests : RequestStep(r)
    BY <1>1
  <2>1. CASE CheckScript(r)
    BY <2>1 DEF CheckScript
  <2>2. CASE StopPlayers(r)
    BY <2>2, StopReachesAll DEF StopPlayers
  <2>3. CASE RemoveLinks(r) \/ CreateLink(r)
    BY <2>3 DEF RemoveLinks, CreateLink
  <2>4. CASE StartPlayer(r)
    <3>1. \A x \in starting : FALSE
      BY <2>4, OneRequest DEF StartPlayer
    <3>2. starting' = {<<target[r], r>>} /\ target' = target
      BY <2>4, <3>1 DEF StartPlayer
    <3>3. running = {} /\ running' = running
      BY <2>4 DEF StartPlayer
    <3>4. req'[r] = "starting"
      BY <2>4 DEF StartPlayer
    <3> QED
      BY <3>2, <3>3, <3>4
  <2>5. CASE Notify(r)
    BY <2>5 DEF Notify, ScriptDone
  <2>6. CASE Confirm(r) \/ GiveUp(r)
    BY <2>6 DEF Confirm, GiveUp
  <2> QED
    BY <2>1, <2>2, <2>3, <2>4, <2>5, <2>6 DEF RequestStep
<1>2. ASSUME NEW r \in Requests, RequestKilled(r) PROVE StartsAlone'
  BY <1>2 DEF RequestKilled, ScriptDone
<1>3. ASSUME NEW r \in Requests, NEW p \in Players, acquireLock(r, p)
      PROVE  StartsAlone'
  BY <1>3 DEF acquireLock
<1>4. ASSUME NEW x \in starting, ScriptEnds(x) PROVE StartsAlone'
  <2>1. starting = {x}
    BY OneRequest
  <2>2. starting' = {} /\ req' = req /\ req[x[2]] = "starting"
    BY <1>4, <2>1 DEF ScriptEnds
  <2>3. \A r \in Requests : req[r] \notin {"remove", "link", "start"}
    BY <2>2, OneRequest
  <2> QED
    BY <2>2, <2>3
<1>5. CASE MonitorPublishes
  BY <1>5 DEF MonitorPublishes
<1>6. CASE UNCHANGED vars
  BY <1>6 DEF vars
<1> QED
  BY <1>1, <1>2, <1>3, <1>4, <1>5, <1>6 DEF Next

\* A player appears when nothing runs, under the link of the request that
\* started it.
LEMMA NextRunsLinked ==
  IInv /\ [Next]_vars => RunsLinked'
<1> SUFFICES ASSUME IInv, [Next]_vars PROVE RunsLinked'
  OBVIOUS
<1> LinksFollow /\ StartsAlone /\ RunsLinked
  BY DEF IInv
<1> USE DEF RunsLinked, Goto, playerVars
<1>1. CASE \E r \in Requests : RequestStep(r)
  <2> PICK r \in Requests : RequestStep(r)
    BY <1>1
  <2>1. CASE CheckScript(r)
    BY <2>1 DEF CheckScript
  <2>2. CASE StopPlayers(r)
    BY <2>2, StopReachesAll DEF StopPlayers
  <2>3. CASE RemoveLinks(r) \/ CreateLink(r)
    BY <2>3 DEF RemoveLinks, CreateLink, StartsAlone
  <2>4. CASE StartPlayer(r) \/ Notify(r)
    BY <2>4 DEF StartPlayer, Notify
  <2>5. CASE Confirm(r) \/ GiveUp(r)
    BY <2>5 DEF Confirm, GiveUp
  <2> QED
    BY <2>1, <2>2, <2>3, <2>4, <2>5 DEF RequestStep
<1>2. ASSUME NEW r \in Requests, RequestKilled(r) PROVE RunsLinked'
  BY <1>2 DEF RequestKilled
<1>3. ASSUME NEW r \in Requests, NEW p \in Players, acquireLock(r, p)
      PROVE  RunsLinked'
  BY <1>3 DEF acquireLock
<1>4. ASSUME NEW x \in starting, ScriptEnds(x) PROVE RunsLinked'
  <2>1. running = {} /\ links = {x[1]}
    BY DEF StartsAlone, LinksFollow
  <2>2. running' \in {{x}, {}} /\ links' = links
    BY <1>4, <2>1 DEF ScriptEnds
  <2> QED
    BY <2>1, <2>2
<1>5. CASE MonitorPublishes
  BY <1>5 DEF MonitorPublishes
<1>6. CASE UNCHANGED vars
  BY <1>6 DEF vars
<1> QED
  BY <1>1, <1>2, <1>3, <1>4, <1>5, <1>6 DEF Next

\* The invariant is inductive.
LEMMA NextIInv == IInv /\ [Next]_vars => IInv'
BY NextTypeOK, NextTargetInstalled, NextOneSwitchAtATime, NextLinks,
   NextStartsAlone, NextRunsLinked
DEF IInv

\* The invariant holds in every reachable state, however the requests race,
\* fail or are killed.
THEOREM Invariance == Spec => []IInv
<1>1. Init => IInv
  BY InitIInv
<1>2. IInv /\ [Next]_vars => IInv'
  BY NextIInv
<1> QED
  BY <1>1, <1>2, PTL DEF Spec

\* The state keeps its types; only installed players are started.
THEOREM TypeCorrect == Spec => []TypeOK
<1>1. IInv => TypeOK
  BY DEF IInv
<1> QED
  BY <1>1, Invariance, PTL

\* The lock file admits one switch at a time.
THEOREM MutualExclusion == Spec => []OneSwitchAtATime
<1>1. IInv => OneSwitchAtATime
  BY DEF IInv
<1> QED
  BY <1>1, Invariance, PTL

\* No sequence of switches leaves two links.
THEOREM AtMostOneLink == Spec => []OneLink
<1>1. IInv => OneLink
  BY DEF IInv
<1> QED
  BY <1>1, Invariance, PTL

\* One process at most runs or is being started, that of the linked player.
THEOREM LinkedPlayerAlone == Spec => []OnlyTheLinkedPlays
<1>1. IInv => OnlyTheLinkedPlays
  <2> SUFFICES ASSUME IInv PROVE OnlyTheLinkedPlays
    OBVIOUS
  <2> LinksFollow /\ StartsAlone /\ RunsLinked /\ OneSwitchAtATime
    BY DEF IInv
  <2>1. \A x, y \in starting : x = y
    BY OneRequest DEF StartsAlone, Switching
  <2>2. \A x \in starting : links = {x[1]}
    BY DEF StartsAlone, LinksFollow
  <2> QED
    BY <2>1, <2>2 DEF StartsAlone, RunsLinked, OnlyTheLinkedPlays
<1> QED
  BY <1>1, Invariance, PTL

-----------------------------------------------------------------------------
(* Refinement of PlayerSelection. *)

\* Under the invariant the refinement mapping reads off the one link.
LEMMA SelectedIsLinked ==
  ASSUME NEW p, links = {p}
  PROVE  SelectedPlayer = p
BY DEF SelectedPlayer

PlaysSelected ==
  /\ SelectedPlayer \in Players \cup {None}
  /\ running = {} => RunningPlayer = None
  /\ running # {} => RunningPlayer = SelectedPlayer

\* What runs is nothing, or what is selected.
LEMMA PlayingIsSelected == IInv => PlaysSelected
<1> SUFFICES ASSUME TypeOK, OneLink, RunsLinked PROVE PlaysSelected
  BY DEF IInv
<1>1. SelectedPlayer \in Players \cup {None}
  BY DEF SelectedPlayer, TypeOK
<1>2. running = {} => RunningPlayer = None
  BY DEF RunningPlayer
<1>3. ASSUME running # {} PROVE RunningPlayer = SelectedPlayer
  <2> DEFINE c == CHOOSE x \in running : TRUE
  <2>1. c \in running
    BY <1>3
  <2>2. links = {c[1]}
    BY <2>1 DEF RunsLinked
  <2>3. RunningPlayer = c[1]
    BY <1>3 DEF RunningPlayer
  <2> QED
    BY <2>2, <2>3, SelectedIsLinked
<1> QED
  BY <1>1, <1>2, <1>3 DEF PlaysSelected

\* Every step of the switch is a step of PlayerSelection or none.
LEMMA NextSelection ==
  IInv /\ IInv' /\ [Next]_vars
    => [Selection!Next]_<<SelectedPlayer, RunningPlayer>>
<1> SUFFICES ASSUME IInv, IInv', [Next]_vars
             PROVE  [Selection!Next]_<<SelectedPlayer, RunningPlayer>>
  OBVIOUS
<1> TypeOK /\ OneLink /\ StartsAlone /\ RunsLinked /\ LinksFollow
  BY DEF IInv
<1>0. PlaysSelected /\ PlaysSelected'
  BY PlayingIsSelected, PTL
<1>s. ASSUME UNCHANGED <<links, running>>
      PROVE  UNCHANGED <<SelectedPlayer, RunningPlayer>>
  BY <1>s DEF SelectedPlayer, RunningPlayer
<1>e. ASSUME UNCHANGED running, running = {}
      PROVE  Selection!Select(SelectedPlayer')
  BY <1>e, <1>0 DEF PlaysSelected, Selection!Select
<1> USE DEF playerVars
<1>1. CASE \E r \in Requests : RequestStep(r)
  <2> PICK r \in Requests : RequestStep(r)
    BY <1>1
  <2>1. CASE StopPlayers(r)
    <3>1. running' = {} /\ links' = links
      BY <2>1, StopReachesAll DEF StopPlayers
    <3>2. Selection!Stop
      BY <3>1, <1>0 DEF PlaysSelected, Selection!Stop, SelectedPlayer
    <3> QED
      BY <3>2 DEF Selection!Next
  <2>2. CASE RemoveLinks(r) \/ CreateLink(r)
    <3>1. UNCHANGED running /\ running = {}
      BY <2>2 DEF RemoveLinks, CreateLink, StartsAlone, Goto
    <3> QED
      BY <3>1, <1>e, <1>0 DEF PlaysSelected, Selection!Next
  <2>3. CASE \/ CheckScript(r) \/ StartPlayer(r) \/ Notify(r)
             \/ Confirm(r) \/ GiveUp(r)
    BY <2>3, <1>s DEF CheckScript, StartPlayer, Notify, Confirm, GiveUp
  <2> QED
    BY <2>1, <2>2, <2>3 DEF RequestStep
<1>2. CASE \E x \in starting : ScriptEnds(x)
  <2> PICK x \in starting : ScriptEnds(x)
    BY <1>2
  <2>1. CASE running' = running
    BY <2>1, <1>s DEF ScriptEnds
  <2>2. CASE running' = running \cup {x}
    <3>1. running = {} /\ links' = links
      BY DEF StartsAlone, ScriptEnds
    <3>2. Selection!Play
      BY <3>1, <2>2, <1>0 DEF PlaysSelected, Selection!Play, SelectedPlayer
    <3> QED
      BY <3>2 DEF Selection!Next
  <2> QED
    BY <2>1, <2>2 DEF ScriptEnds
<1>3. CASE \E r \in Requests : RequestKilled(r)
  BY <1>3, <1>s DEF RequestKilled
<1>4. CASE \E r \in Requests, p \in Players : acquireLock(r, p)
  BY <1>4, <1>s DEF acquireLock
<1>5. CASE MonitorPublishes
  BY <1>5, <1>s DEF MonitorPublishes
<1>6. CASE UNCHANGED vars
  BY <1>6, <1>s DEF vars
<1> QED
  BY <1>1, <1>2, <1>3, <1>4, <1>5, <1>6 DEF Next

\* The switch implements PlayerSelection: one selected player, which alone
\* plays, and a selection that changes in silence only.
THEOREM Refinement == Spec => SelectionSpec
<1>1. Init => Selection!Init
  <2> SUFFICES ASSUME Init PROVE Selection!Init
    OBVIOUS
  <2>1. PlaysSelected
    BY InitIInv, PlayingIsSelected
  <2> QED
    BY <2>1 DEF PlaysSelected, Selection!Init
<1>2. IInv /\ IInv' /\ [Next]_vars
        => [Selection!Next]_<<SelectedPlayer, RunningPlayer>>
  BY NextSelection
<1> QED
  BY <1>1, <1>2, Invariance, PTL DEF Spec, SelectionSpec, Selection!Spec

-----------------------------------------------------------------------------
(* Refinement of SwitchServer. *)

\* A request that holds the lock asks for a player.
HolderAsks == \A r \in Requests : req[r] \in Switching => target[r] \in Players

LEMMA NextHolderAsks == TypeOK /\ HolderAsks /\ [Next]_vars => HolderAsks'
<1> SUFFICES ASSUME TypeOK, HolderAsks, [Next]_vars,
                    NEW q \in Requests, req'[q] \in Switching
             PROVE  target'[q] \in Players
  BY DEF HolderAsks
<1>0. /\ req[q] \in Switching => target[q] \in Players
      /\ req \in [Requests -> Idle \cup Switching]
      /\ target \in [Requests -> Players \cup {None}]
  BY DEF HolderAsks, TypeOK
<1> USE DEF Goto, Idle, Switching
<1>1. ASSUME NEW r \in Requests, RequestStep(r) \/ RequestKilled(r)
      PROVE  target'[q] \in Players
  BY <1>1, <1>0 DEF RequestStep, CheckScript, StopPlayers, RemoveLinks,
       CreateLink, StartPlayer, Notify, Confirm, GiveUp, RequestKilled
<1>2. ASSUME NEW r \in Requests, NEW p \in Players, acquireLock(r, p)
      PROVE  target'[q] \in Players
  BY <1>2, <1>0 DEF acquireLock
<1>3. CASE UNCHANGED <<req, target>>
  BY <1>3, <1>0
<1> QED
  BY <1>1, <1>2, <1>3 DEF Next, ScriptEnds, MonitorPublishes, vars

\* Under the invariant the one process is the one that the mapping names.
LEMMA RunningIsPlaying ==
  ASSUME NEW ps, NEW x \in ps, \A y, z \in ps : y = z
  PROVE  (CHOOSE y \in ps : TRUE)[1] = x[1]
OBVIOUS

\* The lock's holder is the request that is served.
LEMMA HolderIsServed ==
  ASSUME IInv, HolderAsks, NEW r \in Requests, req[r] \in Switching
  PROVE  lock = r /\ Serving = target[r] /\ Serving # None
BY PlayersAssumption, RequestsAssumption
   DEF IInv, OneSwitchAtATime, HolderAsks, Serving

\* A request lets the lock go.
LEMMA ReleaseServes ==
  ASSUME IInv, HolderAsks, NEW r \in Requests, req[r] \in Switching,
         lock' = None, UNCHANGED <<running, status>>
  PROVE  Server!Release
<1>1. Serving # None
  BY HolderIsServed
<1>2. Serving' = None /\ RunningPlayer' = RunningPlayer
  BY DEF Serving, RunningPlayer
<1> QED
  BY <1>1, <1>2 DEF Server!Release

ServerStep == [Server!Next]_<<Serving, RunningPlayer, status>>

\* Every command of a request is a step of the server or none.
LEMMA RequestServes ==
  ASSUME IInv, HolderAsks, NEW r \in Requests, RequestStep(r)
  PROVE  ServerStep
<1> USE DEF Goto, Switching, playerVars, releaseLock
<1>1. ASSUME UNCHANGED <<running, lock, target, status>> PROVE ServerStep
  BY <1>1 DEF ServerStep, Serving, RunningPlayer
<1>2. CASE StopPlayers(r)
  <2>1. Serving # None
    BY <1>2, HolderIsServed DEF StopPlayers
  <2>2. running' = {} /\ UNCHANGED <<lock, target, status>>
    BY <1>2, StopReachesAll DEF StopPlayers, IInv
  <2>3. Server!Stop
    BY <2>1, <2>2 DEF Server!Stop, Serving, RunningPlayer
  <2> QED
    BY <2>3 DEF ServerStep, Server!Next
<1>3. CASE CheckScript(r)
  <2>1. CASE target[r] \in Installed
    BY <1>3, <2>1, <1>1 DEF CheckScript
  <2>2. CASE target[r] \notin Installed
    <3>1. Server!Release
      BY <1>3, <2>2, ReleaseServes DEF CheckScript
    <3> QED
      BY <3>1 DEF ServerStep, Server!Next
  <2> QED
    BY <2>1, <2>2
<1>4. CASE Confirm(r) \/ GiveUp(r)
  <2>1. Server!Release
    BY <1>4, ReleaseServes DEF Confirm, GiveUp
  <2> QED
    BY <2>1 DEF ServerStep, Server!Next
<1>5. CASE RemoveLinks(r) \/ CreateLink(r) \/ StartPlayer(r) \/ Notify(r)
  BY <1>5, <1>1 DEF RemoveLinks, CreateLink, StartPlayer, Notify
<1> QED
  BY <1>2, <1>3, <1>4, <1>5 DEF RequestStep

\* A player comes up for the request that is served, after silence.
LEMMA StartServes ==
  ASSUME IInv, HolderAsks, NEW x \in starting, ScriptEnds(x)
  PROVE  ServerStep
<1>1. /\ running = {} /\ x[2] \in Requests /\ req[x[2]] = "starting"
      /\ x[1] = target[x[2]]
  BY DEF IInv, StartsAlone
<1>2. Serving = x[1] /\ Serving # None
  BY <1>1, HolderIsServed DEF Switching
<1>3. UNCHANGED <<lock, target, status>>
  BY DEF ScriptEnds
<1>4. CASE running' = running
  BY <1>3, <1>4 DEF ServerStep, Serving, RunningPlayer
<1>5. CASE running' = {x}
  <2>1. RunningPlayer = None
    BY <1>1 DEF RunningPlayer
  <2>2. RunningPlayer' = x[1]
    <3>1. x \in running' /\ \A y, z \in running' : y = z
      BY <1>5
    <3>2. (CHOOSE y \in running' : TRUE)[1] = x[1]
      BY <3>1, RunningIsPlaying
    <3> QED
      BY <1>5, <3>2 DEF RunningPlayer
  <2>3. Server!Start
    BY <1>2, <1>3, <2>1, <2>2 DEF Server!Start, Serving
  <2> QED
    BY <2>3 DEF ServerStep, Server!Next
<1> QED
  BY <1>1, <1>4, <1>5 DEF ScriptEnds

\* The monitor names what runs.
LEMMA PublishServes ==
  ASSUME IInv, MonitorPublishes
  PROVE  ServerStep
<1>1. UNCHANGED <<running, lock, target>>
  BY DEF MonitorPublishes, playerVars
<1>2. status' = RunningPlayer
  <2>1. CASE running = {}
    BY <2>1 DEF MonitorPublishes, RunningPlayer
  <2>2. CASE running # {}
    <3>1. PICK x \in running : status' = x[1]
      BY <2>2 DEF MonitorPublishes
    <3>2. (CHOOSE y \in running : TRUE)[1] = x[1]
      BY RunningIsPlaying DEF IInv, RunsLinked
    <3> QED
      BY <2>2, <3>1, <3>2 DEF RunningPlayer
  <2> QED
    BY <2>1, <2>2
<1>3. Server!Publish
  BY <1>1, <1>2 DEF Server!Publish, Serving, RunningPlayer
<1> QED
  BY <1>3 DEF ServerStep, Server!Next

LEMMA NextServes == IInv /\ HolderAsks /\ [Next]_vars => ServerStep
<1> SUFFICES ASSUME IInv, HolderAsks, [Next]_vars PROVE ServerStep
  OBVIOUS
<1>1. ASSUME NEW r \in Requests, RequestKilled(r) PROVE ServerStep
  <2>1. Server!Release
    BY <1>1, ReleaseServes DEF RequestKilled, Goto, playerVars
  <2> QED
    BY <2>1 DEF ServerStep, Server!Next
<1>2. ASSUME NEW r \in Requests, NEW p \in Players, acquireLock(r, p)
      PROVE  ServerStep
  <2>1. Serving = None /\ UNCHANGED <<running, status>>
    BY <1>2 DEF acquireLock, LockAvailable, Serving, playerVars
  <2>2. Serving' = p
    BY <1>2, RequestsAssumption DEF acquireLock, Serving, IInv, TypeOK
  <2>3. Server!Admit(p)
    BY <2>1, <2>2 DEF Server!Admit, RunningPlayer
  <2> QED
    BY <2>3 DEF ServerStep, Server!Next
<1>3. CASE UNCHANGED vars
  BY <1>3 DEF vars, playerVars, ServerStep, Serving, RunningPlayer
<1> QED
  BY <1>1, <1>2, <1>3, RequestServes, StartServes, PublishServes DEF Next

\* The switch is the server that a page takes it for: one request served at a
\* time, players that change only for it and by way of silence, and a status
\* that was true when it was published (handle_service.php, the S95 scripts
\* and the status monitor).
THEOREM ServesThePage == Spec => ServerSpec
<1>1. Init => Server!Init /\ HolderAsks
  <2> SUFFICES ASSUME Init PROVE Server!Init /\ HolderAsks
    OBVIOUS
  <2>1. Serving = None /\ status = None /\ HolderAsks
    BY DEF Init, Serving, HolderAsks, Switching
  <2>2. RunningPlayer \in Players \cup {None}
    BY InitIInv, PlayingIsSelected DEF PlaysSelected
  <2> QED
    BY <2>1, <2>2 DEF Server!Init, Server!Playing
<1>2. IInv /\ HolderAsks /\ [Next]_vars => HolderAsks' /\ ServerStep
  BY NextHolderAsks, NextServes DEF IInv
<1> QED
  BY <1>1, <1>2, Invariance, PTL
  DEF Spec, ServerSpec, Server!Spec, Server!serverVars, ServerStep

-----------------------------------------------------------------------------
(* RestartScripts: the composition with the writers that take no lock. *)


\* A request works on an installed player, a caller too, and a script that a
\* caller waits for is the one it has called.
KnowsItsPlayer ==
  /\ target \in [Requests -> Installed \cup {None}]
  /\ \A r \in Requests : req[r] \in Switching => target[r] \in Installed
  /\ \A s \in Callers : at[s] \in {"start", "wait"} => svc[s] \in Installed
  /\ \A x \in starting : x[2] \in AlsaRequests => x[1] = svc[x[2]]

\* mdev's script works on an event, which is not in the queue any more, and
\* waits for nothing.
EventsCounted ==
  /\ at[Mdev] # "wait"
  /\ Len(events) <= plugged
  /\ at[Mdev] \in {"stop", "start"} => Len(events) < plugged

\* The player runs, is being started, or somebody is bound to start it or to
\* remove its link.
Coming(p) ==
  \/ \E x \in running \cup starting : x[1] = p
  \/ \E s \in Callers : at[s] = "start" /\ svc[s] = p
  \/ \E r \in Requests : req[r] = "remove"
  \/ \E r \in Requests : req[r] = "start" /\ target[r] = p

StillComing == ~excused => \A p \in links : Coming(p)

RestartInv == RestartTypeOK /\ KnowsItsPlayer /\ EventsCounted /\ StillComing

Typed == RestartTypeOK /\ KnowsItsPlayer /\ EventsCounted

-----------------------------------------------------------------------------
\* The boot has called the start script of the linked player.
LEMMA RestartInitInv == RestartInit => RestartInv
  <1> SUFFICES ASSUME RestartInit PROVE RestartInv
    OBVIOUS
  <1> USE CallersAssumption, EventsAssumption DEF RestartInit, ScriptOwners, Starters
  <1>1. RestartTypeOK
    BY DEF RestartTypeOK, Idle
  <1>2. KnowsItsPlayer
    BY DEF KnowsItsPlayer, Switching
  <1>3. EventsCounted
    BY DEF EventsCounted, Callers
  <1>4. ASSUME NEW p \in links PROVE Coming(p)
    <2>1. <<p, Boot>> \in starting /\ <<p, Boot>>[1] = p
      OBVIOUS
    <2> QED
      BY <2>1 DEF Coming
  <1> QED
    BY <1>1, <1>2, <1>3, <1>4 DEF RestartInv, StillComing

-----------------------------------------------------------------------------
(* The requests to handle_service.php. *)

othersVars == <<callerVars, mdevVars>>

\* A request keeps the types: it links and starts an installed player.
LEMMA RequestTyped ==
  ASSUME Typed, NEW r \in Requests, UNCHANGED othersVars,
         \/ RequestStep(r) \/ RequestKilled(r)
         \/ \E p \in Installed : acquireLock(r, p)
  PROVE  Typed'
  <1> USE CallersAssumption, EventsAssumption
      DEF Typed, RestartTypeOK, KnowsItsPlayer, EventsCounted, ScriptOwners,
          Starters, Idle, Switching, Goto, playerVars, othersVars, callerVars,
          mdevVars
  <1>1. CASE CheckScript(r)
    BY <1>1 DEF CheckScript
  <1>2. CASE StopPlayers(r)
    BY <1>2 DEF StopPlayers, AfterStop
  <1>3. CASE RemoveLinks(r)
    BY <1>3 DEF RemoveLinks
  <1>4. CASE CreateLink(r)
    BY <1>4 DEF CreateLink
  <1>5. CASE StartPlayer(r)
    BY <1>5 DEF StartPlayer
  <1>6. CASE Notify(r)
    BY <1>6 DEF Notify
  <1>7. CASE Confirm(r)
    BY <1>7 DEF Confirm
  <1>8. CASE GiveUp(r)
    BY <1>8 DEF GiveUp
  <1>9. CASE RequestKilled(r)
    BY <1>9 DEF RequestKilled
  <1>10. CASE \E p \in Installed : acquireLock(r, p)
    BY <1>10 DEF acquireLock
  <1> QED
    BY <1>1, <1>2, <1>3, <1>4, <1>5, <1>6, <1>7, <1>8, <1>9, <1>10
       DEF RequestStep

\* A request that has killed the linked player goes on to remove its link,
\* and one that has made a link goes on to start its player.
LEMMA RequestComing ==
  ASSUME RestartInv, NEW r \in Requests, UNCHANGED <<othersVars, excused>>,
         RequestStep(r) \/ \E p \in Installed : acquireLock(r, p)
  PROVE  StillComing'
  <1> USE DEF RestartInv, RestartTypeOK, StillComing, Coming, Goto, playerVars,
              othersVars, callerVars
  <1>1. CASE CheckScript(r)
    BY <1>1 DEF CheckScript
  <1>2. CASE StopPlayers(r)
    BY <1>2 DEF StopPlayers
  <1>3. CASE RemoveLinks(r)
    BY <1>3 DEF RemoveLinks
  <1>4. CASE CreateLink(r)
    <2>1. \A q \in Requests : q # r => req'[q] = req[q]
      BY <1>4 DEF CreateLink
    <2>2. req'[r] = "start" /\ req[r] # "remove" /\ req[r] # "start"
      BY <1>4 DEF CreateLink
    <2> QED
      BY <1>4, <2>1, <2>2 DEF CreateLink
  <1>5. CASE StartPlayer(r)
    <2>1. /\ <<target[r], r>> \in starting' /\ <<target[r], r>>[1] = target[r]
          /\ starting \subseteq starting'
          /\ UNCHANGED <<links, running, at, svc, target, excused>>
      BY <1>5 DEF StartPlayer
    <2>2. \A q \in Requests : q # r => req'[q] = req[q]
      BY <1>5 DEF StartPlayer
    <2>3. req[r] = "start"
      BY <1>5 DEF StartPlayer
    <2> QED
      BY <2>1, <2>2, <2>3
  <1>6. CASE Notify(r)
    BY <1>6 DEF Notify
  <1>7. CASE Confirm(r)
    BY <1>7 DEF Confirm
  <1>8. CASE GiveUp(r)
    BY <1>8 DEF GiveUp
  <1>9. CASE \E p \in Installed : acquireLock(r, p)
    BY <1>9 DEF acquireLock, Idle
  <1> QED
    BY <1>1, <1>2, <1>3, <1>4, <1>5, <1>6, <1>7, <1>8, <1>9 DEF RequestStep

\* A start script ends with its player running, or it has given up, which
\* excuses.
LEMMA ScriptKeeps ==
  ASSUME RestartInv, NEW x \in starting, ScriptEnds(x), UNCHANGED othersVars
  PROVE  Typed' /\ (excused' = (excused \/ GaveUp) => StillComing')
  <1>1. Typed'
    BY DEF RestartInv, Typed, RestartTypeOK, KnowsItsPlayer, EventsCounted,
           ScriptEnds, othersVars, callerVars, mdevVars
  <1>2. ASSUME excused' = (excused \/ GaveUp) PROVE StillComing'
    <2>1. starting' # starting
      BY DEF ScriptEnds
    <2>2. CASE running' = running
      BY <1>2, <2>1, <2>2 DEF GaveUp, StillComing
    <2>3. CASE running' = running \cup {x}
      BY <1>2, <2>3 DEF RestartInv, ScriptEnds, StillComing, Coming, othersVars,
                        callerVars
    <2> QED
      BY <2>2, <2>3 DEF ScriptEnds
  <1> QED
    BY <1>1, <1>2

-----------------------------------------------------------------------------
(* handle_alsa.php and the hot-plug script. *)

\* The callers keep the types: the link's name is an installed player's, and
\* a caller waits for the script that it has called.
LEMMA CallerTyped ==
  ASSUME Typed, NEW s \in Callers,
         \/ s \in AlsaRequests
              /\ (handle_alsa(s) \/ RestartStart(s) \/ RestartDone(s))
         \/ RestartStop(s) \/ NothingToRestart(s)
  PROVE  Typed'
  <1> USE CallersAssumption, EventsAssumption
      DEF Typed, RestartTypeOK, KnowsItsPlayer, EventsCounted, ScriptOwners,
          Starters, Callers, Move, mdevVars, switchVars
  <1>1. CASE s \in AlsaRequests /\ handle_alsa(s)
    BY <1>1 DEF handle_alsa, vars
  <1>2. CASE s \in AlsaRequests /\ RestartStart(s)
    BY <1>2 DEF RestartStart
  <1>3. CASE s \in AlsaRequests /\ RestartDone(s)
    <2>1. \A x \in starting : x = <<x[1], x[2]>>
      OBVIOUS
    <2>2. \A x \in starting : x[2] # s
      BY <1>3, <2>1 DEF RestartDone
    <2> QED
      BY <1>3, <2>2 DEF RestartDone, NextRestart, vars
  <1>4. CASE RestartStop(s)
    BY <1>4 DEF RestartStop, AfterStop
  <1>5. CASE NothingToRestart(s)
    BY <1>5 DEF NothingToRestart, NextRestart, vars
  <1> QED
    BY <1>1, <1>2, <1>3, <1>4, <1>5

\* A caller that has killed the linked player is bound to start it.
LEMMA CallerComing ==
  ASSUME RestartInv, NEW s \in Callers,
         \/ s \in AlsaRequests
              /\ (handle_alsa(s) \/ RestartStart(s) \/ RestartDone(s))
         \/ RestartStop(s) \/ NothingToRestart(s)
  PROVE  StillComing'
  <1> USE DEF RestartInv, RestartTypeOK, StillComing, Coming, Move, switchVars
  <1>1. CASE handle_alsa(s)
    BY <1>1 DEF handle_alsa, vars
  <1>2. CASE RestartStart(s)
    <2>1. /\ <<svc[s], s>> \in starting' /\ <<svc[s], s>>[1] = svc[s]
          /\ starting \subseteq starting'
          /\ UNCHANGED <<links, running, req, svc, target, excused>>
      BY <1>2 DEF RestartStart
    <2>2. \A q \in Callers : q # s => at'[q] = at[q]
      BY <1>2 DEF RestartStart
    <2> QED
      BY <2>1, <2>2
  <1>3. CASE RestartDone(s)
    BY <1>3 DEF RestartDone, NextRestart, vars
  <1>4. CASE RestartStop(s)
    <2>1. PICK p \in links : /\ at[s] = "stop" /\ at'[s] = "start"
                            /\ svc'[s] = p /\ running' = AfterStop(links)
      BY <1>4 DEF RestartStop
    <2>2. \A q \in Callers : q # s => at'[q] = at[q] /\ svc'[q] = svc[q]
      BY <1>4 DEF RestartStop
    <2>3. UNCHANGED <<links, starting, req, target, excused>>
      BY <1>4 DEF RestartStop
    <2>4. \A x \in running : x \notin running' => x[1] = p
      BY <2>1 DEF AfterStop
    <2> QED
      BY <2>1, <2>2, <2>3, <2>4
  <1>5. CASE NothingToRestart(s)
    BY <1>5 DEF NothingToRestart, NextRestart, vars
  <1> QED
    BY <1>1, <1>2, <1>3, <1>4, <1>5

\* The card and mdev's script: an event is handled once, and its script is
\* named after it.
LEMMA HotplugTyped ==
  ASSUME Typed, CardChanges \/ MdevAdd \/ MdevStart \/ MdevRemove
  PROVE  Typed'
  <1> USE CallersAssumption, EventsAssumption
      DEF Typed, RestartTypeOK, KnowsItsPlayer, EventsCounted, ScriptOwners,
          Starters, Callers, Move, mdevVars, switchVars, callerVars
  <1>1. CASE CardChanges
    BY <1>1 DEF CardChanges, vars
  <1>2. CASE MdevAdd
    BY <1>2 DEF MdevAdd, vars
  <1>3. CASE MdevStart
    <2>1. plugged - Len(events) \in 1 .. MaxEvents
      BY <1>3 DEF MdevStart
    <2>2. starting' \subseteq starting \cup {<<svc[Mdev], plugged - Len(events)>>}
      BY <1>3 DEF MdevStart, StartInBackground
    <2>3. at[Mdev] = "start" /\ svc[Mdev] \in Installed
      BY <1>3 DEF MdevStart
    <2>4. \A x \in starting' : x \in starting \/ x = <<svc[Mdev], plugged - Len(events)>>
      BY <2>2
    <2>5. /\ \A x \in starting' : x \in Installed \X ScriptOwners
          /\ \A x \in starting' : x[2] \in AlsaRequests => x \in starting
      <3>1. /\ <<svc[Mdev], plugged - Len(events)>> \in Installed \X ScriptOwners
            /\ <<svc[Mdev], plugged - Len(events)>>[2] \notin AlsaRequests
        BY <2>1, <2>3
      <3> QED
        BY <2>4, <3>1
    <2>6. \A q \in Callers : q # Mdev => at'[q] = at[q] /\ svc'[q] = svc[q]
      BY <1>3 DEF MdevStart
    <2>7. /\ at' \in [Callers -> {"idle", "stop", "start", "wait"}]
          /\ svc' \in [Callers -> Installed \cup {None}] /\ at'[Mdev] = "idle"
      BY <1>3 DEF MdevStart
    <2>8. UNCHANGED <<links, running, req, target, left, usb, events, plugged>>
      BY <1>3 DEF MdevStart
    <2> QED
      BY <2>5, <2>6, <2>7, <2>8
  <1>4. CASE MdevRemove
    BY <1>4 DEF MdevRemove, AfterStop
  <1> QED
    BY <1>1, <1>2, <1>3, <1>4

\* The hot-plug script starts the player it has killed, unless the link has
\* changed: then whoever has changed it is bound to do so.
LEMMA HotplugComing ==
  ASSUME RestartInv, CardChanges \/ MdevAdd \/ MdevStart \/ MdevRemove
  PROVE  StillComing'
  <1> USE DEF RestartInv, RestartTypeOK, StillComing, Coming, Move, switchVars,
              callerVars, mdevVars
  <1>1. CASE CardChanges
    BY <1>1 DEF CardChanges, vars
  <1>2. CASE MdevAdd
    BY <1>2 DEF MdevAdd, vars
  <1>3. CASE MdevStart
    <2>1. ASSUME NEW p \in links, p = svc[Mdev]
          PROVE  \E x \in starting' : x[1] = p
      <3>1. /\ <<p, plugged - Len(events)>> \in starting'
            /\ <<p, plugged - Len(events)>>[1] = p
        BY <1>3, <2>1 DEF MdevStart, StartInBackground
      <3> QED
        BY <3>1
    <2>2. \A q \in Callers : q # Mdev => at'[q] = at[q] /\ svc'[q] = svc[q]
      BY <1>3 DEF MdevStart
    <2>3. /\ starting \subseteq starting'
          /\ UNCHANGED <<links, running, req, target, excused>>
      BY <1>3 DEF MdevStart, StartInBackground
    <2> QED
      BY <2>1, <2>2, <2>3
  <1>4. CASE MdevRemove
    BY <1>4 DEF MdevRemove
  <1> QED
    BY <1>1, <1>2, <1>3, <1>4

-----------------------------------------------------------------------------
\* The monitor, the death of a request, and steps that change nothing.
LEMMA OthersKeep ==
  ASSUME RestartInv,
         \/ MonitorPublishes /\ UNCHANGED <<othersVars, excused>>
         \/ UNCHANGED allVars
  PROVE  RestartInv'
  BY DEF RestartInv, RestartTypeOK, KnowsItsPlayer, EventsCounted, StillComing,
         Coming, MonitorPublishes, playerVars, othersVars, allVars, vars,
         callerVars, mdevVars

LEMMA RestartNextKeeps == RestartInv /\ [RestartNext]_allVars => RestartInv'
  <1> SUFFICES ASSUME RestartInv, [RestartNext]_allVars PROVE RestartInv'
    OBVIOUS
  <1> USE DEF RestartInv, Typed, othersVars
  <1>1. ASSUME NEW r \in Requests,
               RequestStep(r) \/ \E p \in Installed : acquireLock(r, p),
               UNCHANGED <<callerVars, mdevVars, excused>>
        PROVE  RestartInv'
    BY <1>1, RequestTyped, RequestComing
  <1>2. ASSUME NEW r \in Requests, RequestKilled(r), excused' = TRUE,
               UNCHANGED <<callerVars, mdevVars>>
        PROVE  RestartInv'
    BY <1>2, RequestTyped DEF StillComing
  <1>3. ASSUME NEW x \in starting, ScriptEnds(x),
               excused' = (excused \/ GaveUp),
               UNCHANGED <<callerVars, mdevVars>>
        PROVE  RestartInv'
    BY <1>3, ScriptKeeps
  <1>4. ASSUME NEW a \in AlsaRequests,
               handle_alsa(a) \/ RestartStart(a) \/ RestartDone(a)
        PROVE  RestartInv'
    BY <1>4, CallerTyped, CallerComing DEF Callers
  <1>5. ASSUME NEW s \in Callers, RestartStop(s) \/ NothingToRestart(s)
        PROVE  RestartInv'
    BY <1>5, CallerTyped, CallerComing
  <1>6. CASE CardChanges \/ MdevAdd \/ MdevStart \/ MdevRemove
    BY <1>6, HotplugTyped, HotplugComing
  <1>7. CASE \/ MonitorPublishes /\ UNCHANGED <<callerVars, mdevVars, excused>>
             \/ UNCHANGED allVars
    BY <1>7, OthersKeep
  <1> QED
    BY <1>1, <1>2, <1>3, <1>4, <1>5, <1>6, <1>7 DEF RestartNext

\* The inductive invariant of the composition.
THEOREM RestartInvHolds == RestartSpec => []RestartInv
  BY RestartInitInv, RestartNextKeeps, PTL DEF RestartSpec

\* Types, for any players, requests and number of events.
THEOREM RestartTypeCorrect == RestartSpec => []RestartTypeOK
  BY RestartInvHolds, PTL DEF RestartInv

\* When all scripts have ended the linked player runs, unless a start gave
\* up, a request died or the card went.
THEOREM LinkedPlayerComesBack == RestartSpec => []SelectedPlays
  <1>1. RestartInv => SelectedPlays
    BY DEF RestartInv, StillComing, Coming, SelectedPlays, AtRest, Idle
  <1> QED
    BY RestartInvHolds, <1>1, PTL
=============================================================================
