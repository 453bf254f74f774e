---------------------------- MODULE ServiceSwitch ----------------------------
(***************************************************************************)
(* Switching players: any number of requests to handle_service.php, each a *)
(* CGI process of its own, over the links /etc/init.d/S95*, the player     *)
(* processes, the start scripts in progress and the lock file.             *)
(*                                                                         *)
(* One action per shell command of the request.  A start script takes time *)
(* (S95spotify waits for the sound card, S95qobuz for the network) and     *)
(* while it runs there is no process of the player's name to kill.  The    *)
(* web server kills the CGI process of a browser that hangs up; the shell  *)
(* and sudo then still hold the lock file open until their command ends.   *)
(***************************************************************************)
EXTENDS FiniteSets

CONSTANTS
  Players,     \* the keys of $players
  Installed,   \* those whose script exists in /etc/rc.pure
  Requests,    \* requests being served at the same time
  Boot,        \* the init system, which started the first player
  None

ASSUME PlayersAssumption  == Installed \subseteq Players /\ None \notin Players
ASSUME RequestsAssumption == None \notin Requests /\ Boot \notin Requests

VARIABLES
  links,      \* the players with a link /etc/init.d/S95*
  running,    \* player processes: <<player, who started it>>
  starting,   \* start scripts in progress, written the same way
  lock,       \* the request that holds /tmp/service_switch.lock
  req,        \* position of each request
  target,     \* $player_to_start of each request
  status      \* active_service in /tmp/system_status.json

playerVars == <<links, running, starting>>
vars == <<links, running, starting, lock, req, target, status>>

Starters == Requests \cup {Boot}

Idle == {"idle", "confirmed"}
Switching ==
  {"locked", "stop", "remove", "link", "start", "starting", "waiting"}

\* Type invariant.
TypeOK ==
  /\ links \subseteq Players
  /\ running \subseteq Players \X Starters
  /\ starting \subseteq Installed \X Starters
  /\ lock \in Requests \cup {None}
  /\ req \in [Requests -> Idle \cup Switching]
  /\ target \in [Requests -> Players \cup {None}]
  /\ status \in Players \cup {None}

Init ==
  /\ \/ links = {} /\ running = {}
     \/ \E p \in Installed : links = {p} /\ running \in {{}, {<<p, Boot>>}}
  /\ starting = {}
  /\ lock = None
  /\ req = [r \in Requests |-> "idle"]
  /\ target = [r \in Requests |-> None]
  /\ status = None

-----------------------------------------------------------------------------
(* Commands of the request. *)

Goto(r, here, there) == req[r] \in here /\ req' = [req EXCEPT ![r] = there]

\* mutant: the lock file is not looked at
LockIgnored == TRUE

LockAvailable == lock = None

\* A request that finds the file locked ends with an error and changes
\* nothing.
acquireLock(r, p) ==
  /\ Goto(r, Idle, "locked")
  /\ LockAvailable
  /\ lock' = r
  /\ target' = [target EXCEPT ![r] = p]
  /\ UNCHANGED <<playerVars, status>>

\* mutant: an early return forgets the lock
LockKept == UNCHANGED lock

releaseLock == lock' = None

\* mutant: the file's existence is not tested
ScriptNotChecked(r) ==
  /\ Goto(r, {"locked"}, "stop")
  /\ UNCHANGED <<playerVars, lock, target, status>>

CheckScript(r) ==
  /\ IF target[r] \in Installed
       THEN Goto(r, {"locked"}, "stop") /\ UNCHANGED lock
       ELSE Goto(r, {"locked"}, "idle") /\ releaseLock
  /\ UNCHANGED <<playerVars, target, status>>

\* mutant: the pattern is quoted, no script is called
StopNothing(cmd) == running

\* What "/etc/init.d/S95* stop" leaves running: the shell expands the
\* pattern and calls the script it finds; when it finds none or several, no
\* stop reaches any script.
AfterStop(ls) == {x \in running : ls # {x[1]}}

StopPlayers(r) ==
  /\ Goto(r, {"stop"}, "remove")
  /\ running' = AfterStop(links)
  /\ UNCHANGED <<links, starting, lock, target, status>>

RemoveLinks(r) ==
  /\ Goto(r, {"remove"}, "link")
  /\ links' = {}
  /\ UNCHANGED <<running, starting, lock, target, status>>

CreateLink(r) ==
  /\ Goto(r, {"link"}, "start")
  /\ links' = links \cup {target[r]}
  /\ UNCHANGED <<running, starting, lock, target, status>>

StartPlayer(r) ==
  /\ Goto(r, {"start"}, "starting")
  /\ starting' = starting \cup {<<target[r], r>>}
  /\ UNCHANGED <<links, running, lock, target, status>>

\* A start script ends: it has started the player, or given up.
ScriptEnds(x) ==
  /\ x \in starting
  /\ starting' = starting \ {x}
  /\ running' \in {running \cup {x}, running}
  /\ UNCHANGED <<links, lock, req, target, status>>

\* mutant: the script is started in the background
ScriptInBackground(r) == TRUE

ScriptDone(r) == <<target[r], r>> \notin starting

\* The shell returns, ServiceChanged is sent and the wait begins.
Notify(r) ==
  /\ Goto(r, {"starting"}, "waiting")
  /\ ScriptDone(r)
  /\ UNCHANGED <<playerVars, lock, target, status>>

Confirm(r) ==
  /\ Goto(r, {"waiting"}, "confirmed")
  /\ status = target[r]
  /\ releaseLock
  /\ UNCHANGED <<playerVars, target, status>>

\* mutant: the loop has no end
NeverLate(r) == FALSE

\* Twenty polls, 500 ms apart, may all find another player.
Late(r) == status # target[r]

GiveUp(r) ==
  /\ Goto(r, {"waiting"}, "idle")
  /\ Late(r)
  /\ releaseLock
  /\ UNCHANGED <<playerVars, target, status>>

\* The browser hangs up and the CGI process is killed; the lock goes when
\* the command in progress has ended.
RequestKilled(r) ==
  /\ Goto(r, Switching, "idle")
  /\ ScriptDone(r)
  /\ lock' = None
  /\ UNCHANGED <<playerVars, target, status>>

\* mutant: the link is looked at, not the processes
LinkPublished ==
  /\ IF links = {} THEN status' = None ELSE \E p \in links : status' = p
  /\ UNCHANGED <<playerVars, lock, req, target>>

\* status_monitor scans /proc and rewrites its file.
MonitorPublishes ==
  /\ IF running = {}
       THEN status' = None
       ELSE \E x \in running : status' = x[1]
  /\ UNCHANGED <<playerVars, lock, req, target>>

RequestStep(r) ==
  \/ CheckScript(r) \/ StopPlayers(r) \/ RemoveLinks(r) \/ CreateLink(r)
  \/ StartPlayer(r) \/ Notify(r) \/ Confirm(r) \/ GiveUp(r)

Next ==
  \/ \E r \in Requests : RequestStep(r) \/ RequestKilled(r)
  \/ \E r \in Requests, p \in Players : acquireLock(r, p)
  \/ \E x \in starting : ScriptEnds(x)
  \/ MonitorPublishes

Spec == Init /\ [][Next]_vars

\* A request and a start script that have begun go on; nobody is obliged to
\* switch, and the monitor may be dead.
FairSpec ==
  /\ Spec
  /\ \A r \in Requests : WF_vars(RequestStep(r))
  /\ \A x \in Players \X Starters : WF_vars(ScriptEnds(x))

-----------------------------------------------------------------------------
(* Properties. *)

\* "Lock file to prevent concurrent service switches": whoever is between
\* acquireLock and releaseLock holds the lock, so never two are.
OneSwitchAtATime == \A r \in Requests : req[r] \in Switching <=> lock = r

\* "S95* stop" works on one script only: no sequence of switches, failed or
\* killed ones included, leaves more than one link.
OneLink == \A p, q \in links : p = q

\* However requests race, fail or are killed: what runs or is being started
\* is one process, and it is the player that the link names, whom the next
\* "S95* stop" reaches and the next boot starts.
OnlyTheLinkedPlays ==
  /\ \A x, y \in running \cup starting : x = y
  /\ \A x \in running \cup starting : links = {x[1]}

\* The lock is never held for ever.
LockReleased == \A r \in Requests : lock = r ~> lock # r

\* Refinement: the switch implements what its user is promised.
SelectedPlayer == IF links = {} THEN None ELSE CHOOSE p \in links : TRUE
RunningPlayer ==
  IF running = {} THEN None ELSE (CHOOSE x \in running : TRUE)[1]

Selection == INSTANCE PlayerSelection
               WITH selected <- SelectedPlayer, playing <- RunningPlayer
SelectionSpec == Selection!Spec

\* Refinement: and it is the server that the page takes it for.
Serving == IF lock = None THEN None ELSE target[lock]

Server == INSTANCE SwitchServer
            WITH serving <- Serving, playing <- RunningPlayer
ServerSpec == Server!Spec

\* "Wait for system_monitor to confirm player started": a request answers
\* "confirmed" only when the player it started runs.
ConfirmedMeansStarted ==
  [][\A r \in Requests :
       req[r] = "waiting" /\ req'[r] = "confirmed" =>
         \E x \in running : x[1] = target[r]]_vars
=============================================================================
