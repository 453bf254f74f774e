--------------------------- MODULE RestartScripts ---------------------------
(***************************************************************************)
(* The scripts that stop and start players without the lock of             *)
(* handle_service.php, beside it: the start at boot (the web server is up  *)
(* before S95), handle_alsa.php with 2_usb.sh or 2_std.sh, and the USB     *)
(* hot-plug script, which mdev calls for one event after the other.  The   *)
(* last two restart the status monitor first (MonitorLifecycle), which     *)
(* takes a second or more and leaves the players alone.                    *)
(***************************************************************************)
EXTENDS ServiceSwitch, Naturals, Sequences

CONSTANTS
  AlsaRequests,   \* requests to handle_alsa.php at the same time
  Mdev,           \* the mdev daemon
  MaxEvents       \* bound on the hot-plug events of an execution

ASSUME CallersAssumption ==
  /\ Mdev \notin AlsaRequests
  /\ \A a \in AlsaRequests : a \notin Requests \cup {Boot} \cup (1 .. MaxEvents)
ASSUME EventsAssumption == MaxEvents \in Nat

Callers == AlsaRequests \cup {Mdev}

VARIABLES
  at,         \* position of each caller in its script
  left,       \* "S95* restart" commands a caller has to do yet
  svc,        \* the script that the caller's restart works on
  usb,        \* the USB card is present
  events,     \* hot-plug events that mdev has not handled
  plugged,    \* number of events so far
  excused     \* history: a start gave up, a request died, a card was removed

callerVars == <<at, left, svc>>
mdevVars   == <<usb, events, plugged>>
switchVars == <<lock, req, target, status>>
allVars    == <<vars, callerVars, mdevVars, excused>>

\* A start script is named after its caller, those of mdev after the event.
ScriptOwners == Starters \cup AlsaRequests \cup (1 .. MaxEvents)

\* Type invariant, with the callers that wait for a start script.
RestartTypeOK ==
  /\ links \subseteq Installed
  /\ running \cup starting \subseteq Installed \X ScriptOwners
  /\ \A x \in starting : x[2] \in AlsaRequests => at[x[2]] = "wait"
  /\ req \in [Requests -> Idle \cup Switching]
  /\ at \in [Callers -> {"idle", "stop", "start", "wait"}]
  /\ left \in [Callers -> 0 .. 2]
  /\ svc \in [Callers -> Installed \cup {None}]
  /\ events \in Seq({"add", "remove"})
  /\ plugged \in 0 .. MaxEvents

RestartInit ==
  /\ links = {} \/ \E p \in Installed : links = {p}
  /\ running = {}
  /\ starting = links \X {Boot}
  /\ lock = None
  /\ req = [r \in Requests |-> "idle"]
  /\ target = [r \in Requests |-> None]
  /\ status = None
  /\ at = [s \in Callers |-> "idle"]
  /\ left = [s \in Callers |-> 0]
  /\ svc = [s \in Callers |-> None]
  /\ usb \in BOOLEAN
  /\ events = <<>>
  /\ plugged = 0
  /\ excused = FALSE

-----------------------------------------------------------------------------
Move(s, here, there) == at[s] = here /\ at' = [at EXCEPT ![s] = there]

\* handle_alsa.php: its script restarts the players, then it restarts them
\* once more itself.
handle_alsa(a) ==
  /\ Move(a, "idle", "stop")
  /\ left' = [left EXCEPT ![a] = 2]
  /\ UNCHANGED <<vars, svc, mdevVars, excused>>

\* The stop of "S95* restart", and of "$service stop" in the hot-plug script:
\* the link's name is expanded now, and is the one that is started later.
RestartStop(s) ==
  \E p \in links :
    /\ Move(s, "stop", "start")
    /\ svc' = [svc EXCEPT ![s] = p]
    /\ running' = AfterStop(links)
    /\ UNCHANGED <<links, starting, switchVars, left, mdevVars, excused>>

\* After a restart: handle_alsa.php's second one, or the end.
NextRestart(s, here) ==
  /\ Move(s, here, IF left[s] > 1 THEN "stop" ELSE "idle")
  /\ left' = [left EXCEPT ![s] = IF @ > 0 THEN @ - 1 ELSE 0]
  /\ svc' = [svc EXCEPT ![s] = None]
  /\ UNCHANGED <<vars, mdevVars, excused>>

\* Between "rm" and "ln" of a switch there is nothing to restart.
NothingToRestart(s) == links = {} /\ NextRestart(s, "stop")

\* The start of the same script, which is open already.
RestartStart(a) ==
  /\ Move(a, "start", "wait")
  /\ starting' = starting \cup {<<svc[a], a>>}
  /\ UNCHANGED <<links, running, switchVars, left, svc, mdevVars, excused>>

RestartDone(a) == <<svc[a], a>> \notin starting /\ NextRestart(a, "wait")

-----------------------------------------------------------------------------
(* Hot-plug. *)

CardChanges ==
  /\ plugged < MaxEvents
  /\ plugged' = plugged + 1
  /\ usb' = ~usb
  /\ events' = Append(events, IF usb THEN "remove" ELSE "add")
  /\ UNCHANGED <<vars, callerVars, excused>>

MdevAdd ==
  /\ events # <<>> /\ Head(events) = "add"
  /\ Move(Mdev, "idle", "stop")
  /\ events' = Tail(events)
  /\ UNCHANGED <<vars, left, svc, usb, plugged, excused>>

\* mutant: the start is left to the next event
StartForgotten == UNCHANGED starting

\* "$service start &": by the link's name, which may be gone, and nobody
\* waits for it.
StartInBackground ==
  starting' = IF svc[Mdev] \in links
                THEN starting \cup {<<svc[Mdev], plugged - Len(events)>>}
                ELSE starting

MdevStart ==
  /\ Move(Mdev, "start", "idle")
  /\ StartInBackground
  /\ svc' = [svc EXCEPT ![Mdev] = None]
  /\ UNCHANGED <<links, running, switchVars, left, mdevVars, excused>>

MdevRemove ==
  /\ events # <<>> /\ Head(events) = "remove"
  /\ at[Mdev] = "idle"
  /\ events' = Tail(events)
  /\ running' = AfterStop(links)
  /\ excused' = TRUE
  /\ UNCHANGED <<links, starting, switchVars, callerVars, usb,
                 plugged>>

-----------------------------------------------------------------------------
GaveUp == starting' # starting /\ running' = running

RestartNext ==
  \/ /\ \/ \E r \in Requests : RequestStep(r)
        \/ \E r \in Requests, p \in Installed : acquireLock(r, p)
        \/ MonitorPublishes
     /\ UNCHANGED <<callerVars, mdevVars, excused>>
  \/ /\ \E r \in Requests : RequestKilled(r)
     /\ excused' = TRUE
     /\ UNCHANGED <<callerVars, mdevVars>>
  \/ /\ \E x \in starting : ScriptEnds(x)
     /\ excused' = (excused \/ GaveUp)
     /\ UNCHANGED <<callerVars, mdevVars>>
  \/ \E a \in AlsaRequests :
       handle_alsa(a) \/ RestartStart(a) \/ RestartDone(a)
  \/ \E s \in Callers : RestartStop(s) \/ NothingToRestart(s)
  \/ CardChanges \/ MdevAdd \/ MdevStart \/ MdevRemove

RestartSpec == RestartInit /\ [][RestartNext]_allVars

-----------------------------------------------------------------------------
(* Properties. *)

AtRest ==
  /\ \A r \in Requests : req[r] \in Idle
  /\ \A s \in Callers : at[s] = "idle"
  /\ starting = {} /\ events = <<>>

\* Three kinds of script kill the linked player, each to start it again or
\* to start the next one: when all of them have ended, no start gave up, no
\* request died and no card was removed, the linked player runs.
SelectedPlays ==
  AtRest /\ ~excused => \A p \in links : \E x \in running : x[1] = p
=============================================================================
