-------------------------- MODULE MonitorLifecycle --------------------------
(***************************************************************************)
(* Restarting the status monitor: S01statusmonitor, called at the same     *)
(* time by several scripts (one per request to handle_alsa.php, and the    *)
(* hot-plug script), the daemons it starts and /tmp/status_monitor.lock,   *)
(* which is both the script's pid file and the daemon's lock file.         *)
(*                                                                         *)
(* The daemon that the boot starts (S01) finds no D-Bus yet (S30) and ends *)
(* in polling mode, by unlinking the file, after its sleep(2) at the       *)
(* latest: longer than the script's "sleep 1".  A daemon started later     *)
(* runs the D-Bus loop and ends in dbus_connection_close, by which libdbus *)
(* aborts a program that closes a shared connection.                       *)
(***************************************************************************)
EXTENDS Naturals, FiniteSets

CONSTANTS
  Callers,    \* scripts that may be in S01statusmonitor at the same time
  MaxPids     \* bound on the daemons of an execution

ASSUME CallersAssumption == IsFiniteSet(Callers)
ASSUME MaxPidsAssumption == MaxPids \in Nat \ {0}

VARIABLES
  s01,        \* position of each caller in S01statusmonitor
  pid,        \* the pid each caller has read last
  pidfile,    \* the pid in the file, or 0 when there is no file
  daemons,    \* the daemons that have not exited
  up,         \* those of them that have written the file in main
  termed,     \* those of them that got SIGTERM
  forked      \* daemons started so far; daemon n is the n-th

vars == <<s01, pid, pidfile, daemons, up, termed, forked>>

BootDaemon == 1

\* Type invariant.
TypeOK ==
  /\ s01 \in [Callers -> {"out", "kill", "rm", "sleep", "test", "stale",
                          "ssd", "fork"}]
  /\ pid \in [Callers -> 0 .. MaxPids]
  /\ pidfile \in 0 .. MaxPids
  /\ daemons \subseteq 1 .. MaxPids
  /\ up \subseteq daemons
  /\ termed \subseteq daemons
  /\ forked \in 1 .. MaxPids

Init ==
  /\ s01 = [s \in Callers |-> "out"]
  /\ pid = [s \in Callers |-> 0]
  /\ pidfile = BootDaemon
  /\ daemons = {BootDaemon}
  /\ up = daemons
  /\ termed = {}
  /\ forked = 1

Step(s, here, there) == s01[s] = here /\ s01' = [s01 EXCEPT ![s] = there]

daemonVars == <<daemons, up, termed, forked>>

Busy == {s \in Callers : s01[s] # "out"}

-----------------------------------------------------------------------------
(* S01statusmonitor restart: stop, sleep 1, start. *)

restart(s) ==
  /\ Step(s, "out", "kill")
  /\ forked + Cardinality(Busy) < MaxPids
  /\ UNCHANGED <<pid, pidfile, daemonVars>>

\* mutant: whatever has the pid gets the signal
AnyWithPid == {pidfile}

Killed == {pidfile} \cap daemons

\* start-stop-daemon -K
stop_kill(s) ==
  /\ Step(s, "kill", "rm")
  /\ pid' = [pid EXCEPT ![s] = pidfile]
  /\ termed' = termed \cup Killed
  /\ UNCHANGED <<pidfile, daemons, up, forked>>

\* mutant: the stop leaves the file to the daemon
FileKept == UNCHANGED pidfile

FileRemoved == pidfile' = 0

stop_rm(s) ==
  /\ Step(s, "rm", "sleep")
  /\ FileRemoved
  /\ UNCHANGED <<pid, daemonVars>>

\* The sleep is longer than the start of the daemon that was killed; then
\* the pid is read, if there is a file.
start_cat(s) ==
  /\ pid[s] \notin daemons \ up
  /\ Step(s, "sleep", IF pidfile = 0 THEN "ssd" ELSE "test")
  /\ pid' = [pid EXCEPT ![s] = pidfile]
  /\ UNCHANGED <<pidfile, daemonVars>>

\* "kill -0": the process exists, whether it is ending or not.
start_test(s) ==
  /\ Step(s, "test", IF pid[s] \in daemons THEN "out" ELSE "stale")
  /\ UNCHANGED <<pid, pidfile, daemonVars>>

\* The stale file is removed, or the one written since.
start_rm(s) ==
  /\ Step(s, "stale", "ssd")
  /\ FileRemoved
  /\ UNCHANGED <<pid, daemonVars>>

\* start-stop-daemon -S makes the same test, then forks the daemon and
\* writes its pid before it returns.
ssd_test(s) ==
  /\ Step(s, "ssd", IF pidfile \in daemons THEN "out" ELSE "fork")
  /\ UNCHANGED <<pid, pidfile, daemonVars>>

ssd_fork(s) ==
  /\ Step(s, "fork", "out")
  /\ forked' = forked + 1
  /\ daemons' = daemons \cup {forked'}
  /\ pidfile' = forked'
  /\ UNCHANGED <<pid, up, termed>>

-----------------------------------------------------------------------------
(* The daemon. *)

\* main installs the signal handler and writes the file, in one step: a
\* SIGTERM comes before, and ends it at once, or after.
main_starts(d) ==
  /\ d \in daemons \ (up \cup termed)
  /\ up' = up \cup {d}
  /\ pidfile' = d
  /\ UNCHANGED <<s01, pid, daemons, termed, forked>>

\* SIGTERM ends a daemon without a handler at once, another one at the end
\* of its loop.
main_ends(d) ==
  /\ d \in termed
  /\ daemons' = daemons \ {d}
  /\ up' = up \ {d}
  /\ termed' = termed \ {d}
  /\ pidfile' = IF d = BootDaemon THEN 0 ELSE pidfile
  /\ UNCHANGED <<s01, pid, forked>>

Next ==
  \/ \E s \in Callers :
       \/ restart(s) \/ stop_kill(s) \/ stop_rm(s)
       \/ start_cat(s) \/ start_test(s) \/ start_rm(s)
       \/ ssd_test(s) \/ ssd_fork(s)
  \/ \E d \in daemons : main_starts(d) \/ main_ends(d)

Spec == Init /\ [][Next]_vars

-----------------------------------------------------------------------------
(* Properties. *)

\* The restarts of scripts that race never leave the system without a
\* monitor, although each kills what it finds and none waits for its end.
MonitorAlive == Busy = {} => daemons \ termed # {}
=============================================================================
