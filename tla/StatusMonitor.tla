---------------------------- MODULE StatusMonitor ----------------------------
(***************************************************************************)
(* The status monitor (status_monitor_dbus.c): it collects the player, the *)
(* output, the DAC and the mixer's volume, and publishes them in           *)
(* /tmp/system_status.json and /tmp/mixer_control_cache, which volume.php  *)
(* reads and acts on.                                                      *)
(*                                                                         *)
(* Around it: the script that changes the output (2_usb.sh, 2_std.sh), the *)
(* USB hot-plug script, requests to volume.php, and changes that nobody    *)
(* announces.  A pass that reads and publishes takes several steps: the    *)
(* player, the output and the DAC are read before the mixer, and a file is *)
(* truncated before it is written.  Passes of the main loop are taken when *)
(* its clock says so, hence at any time; SIGTERM ends the loop between two *)
(* of them.  How the init script starts and kills the process is the       *)
(* subject of MonitorLifecycle.  The branch for systemd never runs: the    *)
(* image's init is busybox.                                                *)
(***************************************************************************)
EXTENDS Naturals, Sequences

CONSTANTS
  Players,      \* services a process can be found for
  Internal,     \* the card of the I2S output, card 0
  Dacs,         \* USB DACs: the one that is plugged in is card 1
  NoCard, NoPlayer, NoControl, Unknown,
  Preference,   \* names of mixer elements in the order of the search
  Elems,        \* what each card's element of a name has: volume, switch
  FullVolume,   \* volume 100%; the levels are 0 .. FullVolume
  Requests,     \* requests to volume.php at the same time
  MaxChanges    \* bound on the changes of an execution

Cards  == {Internal} \cup Dacs
Names  == {Preference[i] : i \in DOMAIN Preference}
Levels == 0 .. FullVolume
Modes  == {"i2s", "usb"}

ASSUME CardsAssumption ==
  /\ Internal \notin Dacs /\ NoCard \notin Cards
  /\ NoPlayer \notin Players /\ NoControl \notin Names
ASSUME UnknownAssumption == Unknown \notin Modes
ASSUME PreferenceAssumption ==
  Preference # <<>> /\ Preference \in Seq(Names)
ASSUME ElemsAssumption ==
  Elems \in [Cards -> [Names -> SUBSET {"volume", "switch"}]]
ASSUME BoundsAssumption == FullVolume \in Nat /\ MaxChanges \in Nat

VARIABLES
  conf,      \* the card of /etc/asound.conf, which "default" stands for
  output,    \* /etc/output
  dac,       \* the DAC in /sys/class/sound/card1
  player,    \* the player whose process is found in /proc
  mixer,     \* the elements' levels and switches
  changes,   \* number of changes so far
  adds,      \* hot-plug events of plugged-in DACs, not handled yet
  restarts,  \* position of each caller of "S01statusmonitor restart"
  requests,  \* what each request to volume.php is about to do
  pc,        \* position of the monitor
  bus,       \* init_dbus succeeded
  signals,   \* D-Bus signals that the monitor has not handled
  status,    \* current_status, the members that are published
  control,   \* current_status.mixer_control_name
  valid,     \* current_status.mixer_control_valid
  changed,   \* dac_changed
  file,      \* /tmp/system_status.json
  cache      \* /tmp/mixer_control_cache

world   == <<conf, output, dac, player, mixer, changes>>
callers == <<adds, restarts>>
memory  == <<bus, status, control, valid, changed>>
files   == <<file, cache>>
vars    == <<world, callers, requests, pc, signals, memory, files>>

Callers == {"hotplug", "script"}
Commands == {"mute", "unmute", "level"}

Absent == [state |-> "absent"]
Torn   == [state |-> "torn"]
Whole(content) == [state |-> "whole", content |-> content]
Pending(command, name, level) ==
  [state |-> "set", command |-> command, control |-> name, level |-> level]

Status ==
  [active_service : Players \cup {NoPlayer},
   alsa_state : Modes \cup {Unknown},
   usb_dac : BOOLEAN,
   volume : Levels,
   muted : BOOLEAN,
   volume_control_available : BOOLEAN,
   mute_control_available : BOOLEAN]

FileOf(f, S) ==
  f \in {Absent, Torn} \/ (f = Whole(f.content) /\ f.content \in S)

RequestOK(q) ==
  q = Absent \/ (/\ q = Pending(q.command, q.control, q.level)
                /\ q.command \in Commands
                /\ q.control \in Names
                /\ q.level \in Levels)

\* Type invariant.  A control that is in use has a name.
TypeOK ==
  /\ conf \in Modes /\ output \in Modes
  /\ dac \in Dacs \cup {NoCard}
  /\ player \in Players \cup {NoPlayer}
  /\ mixer \in [Cards -> [Names -> [level : Levels, off : BOOLEAN]]]
  /\ changes \in 0 .. MaxChanges /\ adds \in Nat
  /\ restarts \in [Callers -> {"none", "output", "stop", "start"}]
  /\ DOMAIN requests = Requests /\ \A r \in Requests : RequestOK(requests[r])
  /\ pc \in {"down", "begin", "idle", "mixer", "rescan", "open", "write",
             "cache", "writecache"}
  /\ bus \in BOOLEAN /\ changed \in BOOLEAN
  /\ signals \subseteq {"ServiceChanged", "VolumeChanged"}
  /\ status \in Status
  /\ control \in Names \cup {NoControl}
  /\ valid \in BOOLEAN /\ (valid => control # NoControl)
  /\ FileOf(file, Status) /\ FileOf(cache, Names)

\* current_status of a process that was just started.
InitialStatus ==
  [active_service |-> NoPlayer, alsa_state |-> Unknown, usb_dac |-> FALSE,
   volume |-> FullVolume, muted |-> FALSE,
   volume_control_available |-> TRUE, mute_control_available |-> TRUE]

Init ==
  /\ conf \in Modes /\ output = conf
  /\ dac \in Dacs \cup {NoCard}
  /\ player = NoPlayer
  /\ \E l \in Levels :
       mixer = [c \in Cards |-> [n \in Names |-> [level |-> l, off |-> FALSE]]]
  /\ changes = 0 /\ adds = 0
  /\ restarts = [c \in Callers |-> "none"]
  /\ requests = [r \in Requests |-> Absent]
  /\ pc = "begin" /\ bus \in BOOLEAN
  /\ signals = {}
  /\ status = InitialStatus
  /\ control = NoControl /\ valid = FALSE /\ changed = FALSE
  /\ file = Absent /\ cache = Absent

-----------------------------------------------------------------------------
(* The mixer. *)

\* The card of the ALSA name "default".
DefaultCard == IF conf = "i2s" THEN Internal ELSE dac

Has(c, n, what) == c # NoCard /\ what \in Elems[c][n]
Found(c, n) == c # NoCard /\ Elems[c][n] # {}

\* The positions in Preference whose element has a playback volume.
WithVolume(c) == {i \in DOMAIN Preference : Has(c, Preference[i], "volume")}

\* The first standard name that has a playback volume, else the first other
\* element that has one; Preference lists the latter after the former, and
\* leaves out those of capture and microphone.
FirstControl ==
  [c \in Cards |->
     IF WithVolume(c) = {} THEN NoControl
     ELSE Preference[CHOOSE i \in WithVolume(c) :
                       \A j \in WithVolume(c) : i <= j]]

find_mixer_control(c) == IF c = NoCard THEN NoControl ELSE FirstControl[c]

Level(c, n) == IF Has(c, n, "volume") THEN mixer[c][n].level ELSE FullVolume
Muted(c, n) == Has(c, n, "switch") /\ mixer[c][n].off

\* mutant: the failed search leaves the control marked as valid
GetVolumeStaysValid(name, ok) ==
  LET c == DefaultCard
      n == IF ok THEN name ELSE find_mixer_control(c)
  IN  [control |-> n, valid |-> TRUE, volume |-> FullVolume, muted |-> FALSE]

\* get_volume_status_alsa: the control it uses, whether that is still valid,
\* and what it read.  A control without a playback volume stays in use.
get_volume_status_alsa(name, ok) ==
  LET c == DefaultCard
      n == IF ok THEN name ELSE find_mixer_control(c)
  IN  IF n = NoControl \/ ~Found(c, n)
        THEN [control |-> n,
              valid |-> n # NoControl /\ c = NoCard,
              volume |-> FullVolume, muted |-> FALSE]
        ELSE [control |-> n, valid |-> TRUE,
              volume |-> Level(c, n), muted |-> Muted(c, n)]

\* The availability of the controls: check_usb_controls looks at card 1.
Available(mode, usb, what) ==
  mode = "usb" => usb /\ \E n \in Names : Has(dac, n, what)

-----------------------------------------------------------------------------
(* The monitor. *)

Proceed(here, there) == pc = here /\ pc' = there

\* mutant: a DAC that comes or goes is not a change
ModeChanged == status.alsa_state # output

DacChanged ==
  status.alsa_state # output \/ status.usb_dac # (dac # NoCard)

\* The first reads of refresh_all_status and of the ServiceChanged handler.
Collect ==
  /\ status' = [status EXCEPT !.active_service = player,
                              !.alsa_state = output,
                              !.usb_dac = dac # NoCard]
  /\ changed' = DacChanged
  /\ UNCHANGED <<world, callers, requests, bus, control, valid, files>>

\* get_volume_status_alsa into current_status, after a search for the control
\* when again holds.
ReadMixer(again, base) ==
  LET name == IF again THEN find_mixer_control(DefaultCard) ELSE control
      ok   == IF again THEN name # NoControl ELSE valid
      got  == get_volume_status_alsa(name, ok)
  IN  /\ status' = [base EXCEPT !.volume = got.volume, !.muted = got.muted]
      /\ control' = got.control
      /\ valid' = got.valid

WithAvailability(s) ==
  [s EXCEPT !.volume_control_available =
                Available(s.alsa_state, s.usb_dac, "volume"),
            !.mute_control_available =
                Available(s.alsa_state, s.usb_dac, "switch")]

\* refresh_all_status
Refresh ==
  /\ pc \in {"begin", "idle"} /\ pc' = "mixer"
  /\ Collect
  /\ UNCHANGED signals

RefreshMixer ==
  /\ Proceed("mixer", "open")
  /\ ReadMixer(changed, WithAvailability(status))
  /\ UNCHANGED <<world, callers, requests, signals, bus, changed, files>>

Receive(member) ==
  /\ bus /\ pc = "idle"
  /\ member \in signals /\ signals' = signals \ {member}

ServiceChanged ==
  /\ Receive("ServiceChanged") /\ pc' = "rescan"
  /\ Collect

\* The volume is not read.
ServiceChangedRescan ==
  /\ Proceed("rescan", "open")
  /\ IF changed
       THEN /\ control' = find_mixer_control(DefaultCard)
            /\ valid' = (control' # NoControl)
            /\ status' = WithAvailability(status)
       ELSE UNCHANGED <<control, valid, status>>
  /\ UNCHANGED <<world, callers, requests, signals, bus, changed, files>>

\* mutant: the handler leaves the publication to the next pass
NotPublished == pc' = "idle"

PublishNext == pc' = "open"

VolumeChanged ==
  /\ Receive("VolumeChanged") /\ PublishNext
  /\ ReadMixer(FALSE, status)
  /\ UNCHANGED <<world, callers, requests, bus, changed, files>>

\* mutant: only a new volume is published, not a new switch
VolumeDiffers == status'.volume # status.volume

Differs ==
  status'.volume # status.volume \/ status'.muted # status.muted

\* The look at the mixer every two seconds.
CheckVolume ==
  /\ bus /\ pc = "idle"
  /\ ReadMixer(FALSE, status)
  /\ pc' = IF Differs THEN "open" ELSE "idle"
  /\ UNCHANGED <<world, callers, requests, signals, bus, changed, files>>

Publishing == <<world, callers, requests, signals, memory>>

\* update_status_file
OpenStatusFile ==
  /\ Proceed("open", "write")
  /\ file' = Torn
  /\ UNCHANGED <<Publishing, cache>>

WriteStatusFile ==
  /\ Proceed("write", "cache")
  /\ file' = Whole(status)
  /\ UNCHANGED <<Publishing, cache>>

\* mutant: the cache file is written once
CacheWritten == control # NoControl /\ cache = Absent

HasName == control # NoControl

\* update_mixer_cache: without a control the file keeps its content.
OpenCache ==
  /\ pc = "cache"
  /\ IF HasName THEN pc' = "writecache" /\ cache' = Torn
                ELSE pc' = "idle" /\ UNCHANGED cache
  /\ UNCHANGED <<Publishing, file>>

WriteCache ==
  /\ Proceed("writecache", "idle")
  /\ cache' = Whole(control)
  /\ UNCHANGED <<Publishing, file>>

-----------------------------------------------------------------------------
(* Stop and start of the monitor, by the hot-plug script and 2_usb.sh. *)

Caller(c, here, there) ==
  /\ restarts[c] = here
  /\ restarts' = [restarts EXCEPT ![c] = there]
  /\ UNCHANGED <<world, requests, files>>

\* The signals of a stopped monitor are lost.
StopMonitor(c) ==
  /\ Caller(c, "stop", "start")
  /\ pc \in {"idle", "down"} /\ pc' = "down"
  /\ signals' = {}
  /\ UNCHANGED <<adds, memory>>

StartMonitor(c) ==
  /\ Caller(c, "start", "none")
  /\ IF pc = "down"
       THEN /\ pc' = "begin"
            /\ bus' \in BOOLEAN
            /\ status' = InitialStatus
            /\ control' = NoControl /\ valid' = FALSE /\ changed' = FALSE
       ELSE UNCHANGED <<pc, memory>>
  /\ UNCHANGED <<adds, signals>>

\* mutant: the hot-plug script restarts the players only
NoRestart == restarts' = restarts

RestartNext == restarts' = [restarts EXCEPT !["hotplug"] = "stop"]

HotplugAdd ==
  /\ adds > 0 /\ adds' = adds - 1
  /\ restarts["hotplug"] = "none" /\ RestartNext
  /\ UNCHANGED <<world, requests, pc, signals, memory, files>>

-----------------------------------------------------------------------------
(* The outside world. *)

Change ==
  /\ changes < MaxChanges /\ changes' = changes + 1

\* dbus_notify: a signal without a receiver is lost.
Notify(member) ==
  signals' = IF bus /\ pc # "down" THEN signals \cup {member} ELSE signals

Unmoved == <<pc, memory, files>>

\* A player starts, ends or is replaced; handle_service.php announces it.
PlayerChanges ==
  /\ Change
  /\ \E p \in (Players \cup {NoPlayer}) \ {player} : player' = p
  /\ UNCHANGED signals \/ Notify("ServiceChanged")
  /\ UNCHANGED <<conf, output, dac, mixer, callers, requests, Unmoved>>

\* A DAC is unplugged, or one is plugged in, which sends an event.
DacChanges ==
  /\ Change
  /\ IF dac = NoCard THEN dac' \in Dacs /\ adds' = adds + 1
                     ELSE dac' = NoCard /\ adds' = adds
  /\ UNCHANGED <<conf, output, player, mixer, restarts, requests, signals,
                 Unmoved>>

\* Something else than volume.php changes a level or a switch.
MixerChanges ==
  /\ Change
  /\ \E n \in Names, e \in [level : Levels, off : BOOLEAN] :
       /\ Found(DefaultCard, n)
       /\ mixer' = [mixer EXCEPT ![DefaultCard][n] = e]
  /\ UNCHANGED <<conf, output, dac, player, callers, requests, signals,
                 Unmoved>>

\* 2_usb.sh, 2_std.sh: asound.conf, then /etc/output, then the monitor.
ScriptConf ==
  /\ Change
  /\ restarts["script"] = "none"
  /\ restarts' = [restarts EXCEPT !["script"] = "output"]
  /\ conf' \in Modes
  /\ UNCHANGED <<output, dac, player, mixer, adds, requests, signals,
                 Unmoved>>

ScriptOutput ==
  /\ restarts["script"] = "output"
  /\ restarts' = [restarts EXCEPT !["script"] = "stop"]
  /\ output' = conf
  /\ UNCHANGED <<conf, dac, player, mixer, changes, adds, requests, signals,
                 Unmoved>>

-----------------------------------------------------------------------------
(* volume.php. *)

IsWhole(f) == f.state = "whole"

\* getCachedControl: PCM, the first standard name, when there is no cache.
getCachedControl == IF IsWhole(cache) THEN cache.content ELSE Preference[1]

\* getSystemStatus, with its answer for a file it cannot parse.
getSystemStatus == IF IsWhole(file) THEN file.content ELSE InitialStatus

Ask(r, available, command, level) ==
  /\ requests[r] = Absent /\ available
  /\ Change
  /\ requests' = [requests EXCEPT ![r] =
                    Pending(command, getCachedControl, level)]
  /\ UNCHANGED <<conf, output, dac, player, mixer, callers, signals, Unmoved>>

set_volume(r) ==
  \E l \in Levels :
    Ask(r, getSystemStatus.volume_control_available, "level", l)

toggle_mute(r) ==
  LET s == getSystemStatus
  IN  Ask(r, s.mute_control_available, IF s.muted THEN "unmute" ELSE "mute", 0)

\* What "amixer sset" does to an element's level and switch.
sset(e, q) ==
  IF q.command = "level" THEN [e EXCEPT !.level = q.level]
                         ELSE [e EXCEPT !.off = q.command = "mute"]

\* amixer, which fails when the card has no such control, and dbus_notify.
amixer(r) ==
  LET q    == requests[r]
      c    == DefaultCard
      what == IF q.command = "level" THEN "volume" ELSE "switch"
  IN  /\ q # Absent
      /\ mixer' = IF Has(c, q.control, what)
                    THEN [mixer EXCEPT ![c][q.control] = sset(@, q)]
                    ELSE mixer
      /\ requests' = [requests EXCEPT ![r] = Absent]
      /\ Notify("VolumeChanged")
      /\ UNCHANGED <<conf, output, dac, player, changes, callers, Unmoved>>

-----------------------------------------------------------------------------
MonitorSteps ==
  \/ RefreshMixer \/ ServiceChanged \/ ServiceChangedRescan \/ VolumeChanged
  \/ CheckVolume
  \/ OpenStatusFile \/ WriteStatusFile \/ OpenCache \/ WriteCache

RestartSteps ==
  \/ ScriptOutput \/ HotplugAdd
  \/ \E c \in Callers : StopMonitor(c) \/ StartMonitor(c)

WorldChanges ==
  \/ PlayerChanges \/ DacChanges \/ MixerChanges \/ ScriptConf
  \/ \E r \in Requests : set_volume(r) \/ toggle_mute(r)

Next ==
  \/ Refresh \/ MonitorSteps \/ RestartSteps
  \/ WorldChanges
  \/ \E r \in Requests : amixer(r)

\* The monitor goes on with what it does.  A refresh is due every 30 seconds,
\* whatever else the loop does between: strong fairness.  The scripts and
\* requests end; a script's stop waits for the end of the monitor's pass,
\* which there always is.  Nobody has to change anything.
Fairness ==
  /\ WF_vars(MonitorSteps)
  /\ SF_vars(Refresh)
  /\ WF_vars(ScriptOutput) /\ WF_vars(HotplugAdd)
  /\ \A c \in Callers : SF_vars(StopMonitor(c)) /\ WF_vars(StartMonitor(c))
  /\ \A r \in Requests : WF_vars(amixer(r))

Spec == Init /\ [][Next]_vars /\ Fairness

-----------------------------------------------------------------------------
(* Properties. *)

\* What a monitor that reads everything afresh would publish.
Truth ==
  LET n   == find_mixer_control(DefaultCard)
      got == get_volume_status_alsa(n, n # NoControl)
  IN  WithAvailability([InitialStatus EXCEPT
        !.active_service = player, !.alsa_state = output,
        !.usb_dac = dac # NoCard, !.volume = got.volume, !.muted = got.muted])

\* Between two passes the status file is whole and is what the monitor
\* remembers, so that the comparison of the two-second look with its own
\* memory is a comparison with what readers see; a reader meets half a file
\* only in the middle of a publication.
PublishedIsRemembered ==
  /\ pc = "idle" => file = Whole(status)
  /\ file = Torn => pc = "write"

\* Mode, DAC and controls of a status fit together: the internal card's are
\* always offered, a missing DAC's never.
Fits(s) ==
  /\ s.alsa_state # "usb" =>
       s.volume_control_available /\ s.mute_control_available
  /\ s.alsa_state = "usb" /\ ~s.usb_dac =>
       ~s.volume_control_available /\ ~s.mute_control_available

\* Whoever reads a whole status file finds members that fit together, though
\* they are read in two steps, between which a DAC may come or go, and though
\* ServiceChanged looks at the controls only after a change that it, and not
\* an earlier pass, has noticed.
PublishedFits == IsWhole(file) => Fits(file.content)

\* The status file ends up true but for the moments in which it is rewritten,
\* whatever was unplugged, exchanged, switched, started or set before, and
\* whichever signals were lost.
StatusConverges == <>[](file \in {Torn, Whole(Truth)})

\* The control that volume.php uses ends up the one whose volume is published,
\* provided that the card has one.
ControlConverges ==
  <>[](LET n == find_mixer_control(DefaultCard)
       IN  n # NoControl => cache \in {Torn, Whole(n)})
=============================================================================
