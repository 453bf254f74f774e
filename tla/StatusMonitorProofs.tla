------------------------ MODULE StatusMonitorProofs ------------------------
(***************************************************************************)
(* Proofs about StatusMonitor, for any players, DACs, mixer elements,      *)
(* requests and number of changes: types, that the monitor's memory and    *)
(* its status file agree between two passes, and that what the file says   *)
(* of mode, DAC and controls fits together.                                *)
(***************************************************************************)
EXTENDS StatusMonitor, WellFoundedInduction, TLAPS

\* From the write of the status file to the end of the pass, and until the
\* next pass, the file is what the monitor remembers; a file is torn only
\* while it is written.
FileAgrees ==
  /\ pc \in {"idle", "cache", "writecache"} => file = Whole(status)
  /\ file = Torn => pc = "write"

\* The cache file is written only with a control's name.
CacheNamed == pc = "writecache" => control # NoControl

IInv == TypeOK /\ FileAgrees /\ CacheNamed

Controls == Names \cup {NoControl}

-----------------------------------------------------------------------------
(* The search for a control and the reading of its volume. *)

\* A set of positions has a first one.
LEMMA FirstPosition ==
  ASSUME NEW T, T \subseteq Nat, T # {}
  PROVE  \E i \in T : \A j \in T : i <= j
  <1>1. PICK i \in T : \A j \in T : <<j, i>> \notin OpToRel(<, Nat)
    BY WFMin, NatLessThanWellFounded, Zenon
  <1>2. \A j \in T : ~(j < i)
    BY <1>1, Zenon DEF OpToRel
  <1>3. \A j \in T : i <= j
    BY <1>2
  <1> QED
    BY <1>3

\* find_mixer_control finds a name, or none.
LEMMA ControlFound ==
  ASSUME NEW c \in Cards \cup {NoCard}
  PROVE  find_mixer_control(c) \in Controls
  <1>1. CASE c = NoCard
    BY <1>1 DEF find_mixer_control, Controls
  <1>2. CASE c \in Cards /\ c # NoCard
    <2>1. WithVolume(c) \subseteq DOMAIN Preference
      BY DEF WithVolume
    <2>2. DOMAIN Preference \subseteq Nat
      BY PreferenceAssumption
    <2>3. CASE WithVolume(c) = {}
      BY <1>2, <2>3 DEF find_mixer_control, FirstControl, Controls
    <2>4. CASE WithVolume(c) # {}
      <3>1. \E i \in WithVolume(c) : \A j \in WithVolume(c) : i <= j
        BY <2>1, <2>2, <2>4, FirstPosition
      <3>2. (CHOOSE i \in WithVolume(c) : \A j \in WithVolume(c) : i <= j)
              \in WithVolume(c)
        BY <3>1
      <3>3. FirstControl[c] \in Names
        BY <1>2, <2>1, <2>4, <3>2 DEF FirstControl, Names
      <3> QED
        BY <1>2, <3>3 DEF find_mixer_control, Controls
    <2> QED
      BY <2>3, <2>4
  <1> QED
    BY <1>1, <1>2

LEMMA DefaultTyped == TypeOK => DefaultCard \in Cards \cup {NoCard}
  BY DEF TypeOK, DefaultCard, Cards

\* get_volume_status_alsa: a control that stays in use has a name, and what
\* it read is a volume and a switch.
LEMMA VolumeTyped ==
  ASSUME TypeOK, NEW name \in Controls, NEW ok \in BOOLEAN,
         ok => name # NoControl
  PROVE  LET got == get_volume_status_alsa(name, ok)
         IN  /\ got.control \in Controls /\ got.valid \in BOOLEAN
             /\ got.valid => got.control # NoControl
             /\ got.volume \in Levels /\ got.muted \in BOOLEAN
  <1> DEFINE c == DefaultCard
             n == IF ok THEN name ELSE find_mixer_control(c)
  <1>1. n \in Controls
    BY DefaultTyped, ControlFound
  <1>2. FullVolume \in Levels
    BY BoundsAssumption DEF Levels
  <1>3. CASE n = NoControl \/ ~Found(c, n)
    BY <1>1, <1>2, <1>3 DEF get_volume_status_alsa
  <1>4. CASE n # NoControl /\ Found(c, n)
    <2>1. c \in Cards /\ n \in Names
      BY <1>1, <1>4, DefaultTyped DEF Found, Controls
    <2>2. Level(c, n) \in Levels /\ Muted(c, n) \in BOOLEAN
      BY <2>1, <1>2 DEF TypeOK, Level, Muted, Has
    <2> QED
      BY <1>1, <1>4, <2>2 DEF get_volume_status_alsa
  <1> QED
    BY <1>3, <1>4

\* What a pass leaves in the monitor's memory.
MemoryTyped ==
  /\ status' \in Status /\ control' \in Controls
  /\ valid' \in BOOLEAN /\ (valid' => control' # NoControl)

LEMMA ReadTyped ==
  ASSUME TypeOK, NEW again \in BOOLEAN, NEW base \in Status,
         ReadMixer(again, base)
  PROVE  MemoryTyped
  <1> DEFINE name == IF again THEN find_mixer_control(DefaultCard) ELSE control
             ok   == IF again THEN name # NoControl ELSE valid
             got  == get_volume_status_alsa(name, ok)
  <1>1. name \in Controls /\ ok \in BOOLEAN /\ (ok => name # NoControl)
    BY DefaultTyped, ControlFound DEF TypeOK, Controls
  <1>2. /\ got.control \in Controls /\ got.valid \in BOOLEAN
        /\ got.valid => got.control # NoControl
        /\ got.volume \in Levels /\ got.muted \in BOOLEAN
    BY <1>1, VolumeTyped
  <1>3. /\ status' = [base EXCEPT !.volume = got.volume, !.muted = got.muted]
        /\ control' = got.control /\ valid' = got.valid
    BY DEF ReadMixer
  <1> HIDE DEF name, ok, got
  <1> QED
    BY <1>2, <1>3 DEF MemoryTyped, Status

LEMMA AvailabilityTyped ==
  ASSUME NEW s \in Status PROVE WithAvailability(s) \in Status
  BY DEF WithAvailability, Available, Status

-----------------------------------------------------------------------------
\* The initial states.
LEMMA InitIInv == Init => IInv
  <1> SUFFICES ASSUME Init PROVE IInv
    OBVIOUS
  <1>1. InitialStatus \in Status
    BY BoundsAssumption DEF InitialStatus, Status, Levels
  <1>2. TypeOK
    <2>1. mixer \in [Cards -> [Names -> [level : Levels, off : BOOLEAN]]]
      BY DEF Init
    <2>2. changes \in 0 .. MaxChanges
      BY BoundsAssumption DEF Init
    <2>3. FileOf(file, Status) /\ FileOf(cache, Names)
      BY DEF Init, FileOf
    <2>4. DOMAIN requests = Requests /\ \A r \in Requests : RequestOK(requests[r])
      BY DEF Init, RequestOK
    <2>5. /\ conf \in Modes /\ output \in Modes /\ player \in Players \cup {NoPlayer}
          /\ restarts \in [Callers -> {"none", "output", "stop", "start"}]
      BY DEF Init
    <2> QED
      BY <1>1, <2>1, <2>2, <2>3, <2>4, <2>5 DEF Init, TypeOK
  <1>3. FileAgrees /\ CacheNamed
    BY DEF Init, FileAgrees, CacheNamed, Absent, Torn
  <1> QED
    BY <1>2, <1>3 DEF IInv

-----------------------------------------------------------------------------
(* The monitor's steps. *)

LEMMA RefreshKeeps ==
  ASSUME IInv, Refresh \/ ServiceChanged
  PROVE  IInv'
  <1>1. /\ pc \in {"begin", "idle"} /\ pc' \in {"mixer", "rescan"}
        /\ signals' \subseteq signals /\ Collect
    BY DEF Refresh, ServiceChanged, Receive
  <1>2. /\ status' \in Status /\ changed' \in BOOLEAN
        /\ UNCHANGED <<world, callers, requests, bus, control, valid, files>>
    BY <1>1 DEF Collect, DacChanged, IInv, TypeOK, Status
  <1>3. TypeOK'
    BY <1>1, <1>2 DEF IInv, TypeOK, world, callers, files
  <1>4. FileAgrees' /\ CacheNamed'
    BY <1>1, <1>2 DEF IInv, FileAgrees, CacheNamed, files
  <1> QED
    BY <1>3, <1>4 DEF IInv

\* A step of the monitor that reads the mixer or searches for the control.
LEMMA ReadKeeps ==
  ASSUME IInv, MemoryTyped,
         UNCHANGED <<world, callers, requests, bus, changed, files>>,
         signals' \subseteq signals,
         \/ pc # "write" /\ pc' = "open"
         \/ pc = "idle" /\ pc' = "idle" /\ status' = status
  PROVE  IInv'
  <1>1. TypeOK'
    BY DEF IInv, TypeOK, MemoryTyped, Controls, world, callers, files
  <1>2. FileAgrees' /\ CacheNamed'
    BY DEF IInv, FileAgrees, CacheNamed, files
  <1> QED
    BY <1>1, <1>2 DEF IInv

LEMMA PassKeeps ==
  ASSUME IInv,
         RefreshMixer \/ ServiceChangedRescan \/ VolumeChanged \/ CheckVolume
  PROVE  IInv'
  <1>0. TypeOK /\ status \in Status /\ changed \in BOOLEAN
    BY DEF IInv, TypeOK
  <1>1. CASE RefreshMixer
    <2>1. MemoryTyped
      BY <1>0, <1>1, AvailabilityTyped, ReadTyped DEF RefreshMixer
    <2> QED
      BY <1>1, <2>1, ReadKeeps DEF RefreshMixer, Proceed
  <1>2. CASE ServiceChangedRescan
    <2>1. MemoryTyped
      BY <1>0, <1>2, AvailabilityTyped, DefaultTyped, ControlFound
         DEF ServiceChangedRescan, MemoryTyped, TypeOK, Controls
    <2> QED
      BY <1>2, <2>1, ReadKeeps DEF ServiceChangedRescan, Proceed
  <1>3. CASE VolumeChanged
    <2>1. MemoryTyped
      BY <1>0, <1>3, ReadTyped DEF VolumeChanged
    <2> QED
      BY <1>3, <2>1, ReadKeeps DEF VolumeChanged, Receive, PublishNext
  <1>4. CASE CheckVolume
    <2>1. MemoryTyped
      BY <1>0, <1>4, ReadTyped DEF CheckVolume
    <2>2. ~Differs => status' = status
      BY <1>0, <2>1, <1>4 DEF CheckVolume, ReadMixer, Differs, Status, MemoryTyped
    <2> QED
      BY <1>4, <2>1, <2>2, ReadKeeps DEF CheckVolume
  <1> QED
    BY <1>1, <1>2, <1>3, <1>4

\* The publication.
LEMMA PublishKeeps ==
  ASSUME IInv, OpenStatusFile \/ WriteStatusFile \/ OpenCache \/ WriteCache
  PROVE  IInv'
  <1> USE DEF IInv, TypeOK, FileAgrees, CacheNamed, Publishing, world, callers, memory,
              Proceed, FileOf, Torn, Absent, Whole
  <1>1. CASE OpenStatusFile
    BY <1>1 DEF OpenStatusFile
  <1>2. CASE WriteStatusFile
    BY <1>2 DEF WriteStatusFile
  <1>3. CASE OpenCache
    BY <1>3 DEF OpenCache, HasName
  <1>4. CASE WriteCache
    BY <1>4 DEF WriteCache
  <1> QED
    BY <1>1, <1>2, <1>3, <1>4

-----------------------------------------------------------------------------
(* The scripts, volume.php and the world: none touches the files, and only  *)
(* a start the memory.                                                      *)

LEMMA RestartKeeps ==
  ASSUME IInv, RestartSteps
  PROVE  IInv'
  <1> USE DEF IInv, TypeOK, FileAgrees, CacheNamed, Callers, Caller, world,
              memory, files
  <1>1. CASE ScriptOutput
    BY <1>1 DEF ScriptOutput, Unmoved
  <1>2. CASE HotplugAdd
    BY <1>2 DEF HotplugAdd, RestartNext
  <1>3. ASSUME NEW c \in Callers, StopMonitor(c) PROVE IInv'
    BY <1>3 DEF StopMonitor
  <1>4. ASSUME NEW c \in Callers, StartMonitor(c) PROVE IInv'
    <2>1. InitialStatus \in Status
      BY BoundsAssumption DEF InitialStatus, Status, Levels
    <2> QED
      BY <1>4, <2>1 DEF StartMonitor
  <1> QED
    BY <1>1, <1>2, <1>3, <1>4 DEF RestartSteps

\* A request to volume.php sets the control of a whole cache file, or PCM.
LEMMA AskKeeps ==
  ASSUME IInv, NEW r \in Requests, set_volume(r) \/ toggle_mute(r)
  PROVE  IInv'
  <1>1. PICK command \in Commands, level \in Levels :
          \E available : Ask(r, available, command, level)
    <2>1. 0 \in Levels
      BY BoundsAssumption DEF Levels
    <2> QED
      BY <2>1 DEF set_volume, toggle_mute, Commands
  <1>2. getCachedControl \in Names
    <2>1. Preference[1] \in Names
      BY PreferenceAssumption
    <2> QED
      BY <2>1 DEF getCachedControl, IsWhole, IInv, TypeOK, FileOf, Absent, Torn
  <1>3. RequestOK(Pending(command, getCachedControl, level))
    BY <1>2 DEF RequestOK, Pending
  <1> QED
    BY <1>1, <1>3, BoundsAssumption
       DEF Ask, Change, Unmoved, IInv, TypeOK, FileAgrees, CacheNamed, callers,
           memory, files

LEMMA AmixerKeeps ==
  ASSUME IInv, NEW r \in Requests, amixer(r)
  PROVE  IInv'
  <1> DEFINE q == requests[r]
             c == DefaultCard
  <1>1. q.control \in Names /\ q.level \in Levels /\ q.command \in Commands
    BY DEF amixer, IInv, TypeOK, RequestOK
  <1>2. mixer' \in [Cards -> [Names -> [level : Levels, off : BOOLEAN]]]
    <2>1. c # NoCard => c \in Cards
      BY DefaultTyped DEF IInv
    <2> DEFINE e == mixer[c][q.control]
    <2>2. ASSUME c \in Cards
          PROVE  sset(e, q) \in [level : Levels, off : BOOLEAN]
      <3>1. e \in [level : Levels, off : BOOLEAN]
        BY <1>1, <2>2 DEF IInv, TypeOK
      <3>2. \A b \in BOOLEAN : [e EXCEPT !.off = b] \in [level : Levels, off : BOOLEAN]
        BY <3>1
      <3>3. [e EXCEPT !.level = q.level] \in [level : Levels, off : BOOLEAN]
        BY <1>1, <3>1
      <3>4. (q.command = "mute") \in BOOLEAN
        OBVIOUS
      <3> HIDE DEF e
      <3> QED
        BY <3>2, <3>3, <3>4, Zenon DEF sset
    <2>3. \/ mixer' = mixer
          \/ c # NoCard /\ mixer' =
               [mixer EXCEPT ![c][q.control] = sset(e, q)]
      BY DEF amixer, Has
    <2> HIDE DEF e, c, q
    <2>4. \A k \in Names, v \in [level : Levels, off : BOOLEAN] :
            c \in Cards => [mixer EXCEPT ![c][k] = v]
                             \in [Cards -> [Names -> [level : Levels, off : BOOLEAN]]]
      BY DEF IInv, TypeOK
    <2>5. mixer \in [Cards -> [Names -> [level : Levels, off : BOOLEAN]]]
      BY DEF IInv, TypeOK
    <2>6. CASE mixer' = mixer
      BY <2>5, <2>6
    <2>7. CASE c # NoCard /\ mixer' =
                 [mixer EXCEPT ![c][q.control] = sset(e, q)]
      <3>1. c \in Cards
        BY <2>1, <2>7
      <3>2. sset(e, q) \in [level : Levels, off : BOOLEAN]
        BY <2>2, <3>1
      <3>3. q.control \in Names
        BY <1>1
      <3> DEFINE s == sset(e, q)
                 n == q.control
      <3>4. mixer' = [mixer EXCEPT ![c][n] = s]
        BY <2>7
      <3>5. s \in [level : Levels, off : BOOLEAN] /\ n \in Names
        BY <3>2, <3>3
      <3> HIDE DEF s, n
      <3> QED
        BY <2>4, <3>1, <3>4, <3>5
    <2> QED
      BY <2>3, <2>6, <2>7
  <1>3. /\ requests' = [requests EXCEPT ![r] = Absent]
        /\ signals' \subseteq signals \cup {"VolumeChanged"}
        /\ UNCHANGED <<conf, output, dac, player, changes, callers, Unmoved>>
    BY DEF amixer, Notify
  <1>4. RequestOK(Absent)
    BY DEF RequestOK
  <1> QED
    BY <1>2, <1>3, <1>4
       DEF Unmoved, IInv, TypeOK, FileAgrees, CacheNamed, callers, memory, files

LEMMA WorldKeeps ==
  ASSUME IInv, PlayerChanges \/ DacChanges \/ MixerChanges \/ ScriptConf
  PROVE  IInv'
  <1> USE BoundsAssumption
      DEF IInv, TypeOK, FileAgrees, CacheNamed, Unmoved, Change, callers,
          memory, files
  <1>1. CASE PlayerChanges
    <2>1. /\ player' \in Players \cup {NoPlayer} /\ changes' \in 0 .. MaxChanges
          /\ signals' \subseteq {"ServiceChanged", "VolumeChanged"}
          /\ UNCHANGED <<conf, output, dac, mixer, callers, requests, Unmoved>>
      <3>1. signals' \subseteq signals \cup {"ServiceChanged"}
        BY <1>1 DEF PlayerChanges, Notify
      <3>2. \E p \in Players \cup {NoPlayer} : player' = p
        BY <1>1 DEF PlayerChanges
      <3> QED
        BY <1>1, <3>1, <3>2 DEF PlayerChanges
    <2> QED
      BY <2>1
  <1>2. CASE DacChanges
    BY <1>2 DEF DacChanges
  <1>3. CASE MixerChanges
    <2>1. PICK n \in Names, e \in [level : Levels, off : BOOLEAN] :
            /\ Found(DefaultCard, n)
            /\ mixer' = [mixer EXCEPT ![DefaultCard][n] = e]
      BY <1>3 DEF MixerChanges
    <2>2. DefaultCard \in Cards
      BY <2>1, DefaultTyped DEF Found
    <2>3. mixer' \in [Cards -> [Names -> [level : Levels, off : BOOLEAN]]]
      BY <2>1, <2>2
    <2> QED
      BY <1>3, <2>3 DEF MixerChanges
  <1>4. CASE ScriptConf
    BY <1>4 DEF ScriptConf, Callers
  <1> QED
    BY <1>1, <1>2, <1>3, <1>4

-----------------------------------------------------------------------------
LEMMA StutterKeeps == ASSUME IInv, UNCHANGED vars PROVE IInv'
  BY DEF IInv, TypeOK, FileAgrees, CacheNamed, vars, world, callers, memory,
         files

\* The inductive invariant of the monitor.
THEOREM StatusInvHolds == Spec => []IInv
  <1>1. IInv /\ [Next]_vars => IInv'
    <2> SUFFICES ASSUME IInv, [Next]_vars PROVE IInv'
      OBVIOUS
    <2>1. CASE Refresh \/ MonitorSteps
      BY <2>1, RefreshKeeps, PassKeeps, PublishKeeps DEF MonitorSteps
    <2>2. CASE RestartSteps \/ WorldChanges
      BY <2>2, RestartKeeps, WorldKeeps, AskKeeps DEF WorldChanges
    <2> QED
      BY <2>1, <2>2, AmixerKeeps, StutterKeeps DEF Next
  <1> QED
    BY InitIInv, <1>1, PTL DEF Spec

\* Types, for any players, DACs, mixer elements and requests: a control in use
\* has a name, and what volume.php is about to set is a name too.
THEOREM StatusTypeCorrect == Spec => []TypeOK
  BY StatusInvHolds, PTL DEF IInv

\* Between two passes the status file holds what the monitor remembers.
THEOREM FileIsMemory == Spec => []PublishedIsRemembered
  <1>1. IInv => PublishedIsRemembered
    BY DEF IInv, FileAgrees, PublishedIsRemembered
  <1> QED
    BY StatusInvHolds, <1>1, PTL

-----------------------------------------------------------------------------
(* The members of the status file fit together. *)

\* The memory fits but for the middle of a pass: a refresh is bound to look at
\* the controls, and so is a ServiceChanged that has noticed a change.  Every
\* status that was written was a memory that fits.
FitsInv ==
  /\ \/ Fits(status)
     \/ pc = "mixer"
     \/ pc = "rescan" /\ changed
  /\ IsWhole(file) => Fits(file.content)

\* Looking at the controls makes any status fit.
LEMMA AvailabilityFits ==
  ASSUME NEW s \in Status
  PROVE  Fits(WithAvailability(s))
BY DEF WithAvailability, Available, Fits, Status

\* The volume has no part in it.
LEMMA ReadFits ==
  ASSUME NEW again, NEW base \in Status, Fits(base), ReadMixer(again, base)
  PROVE  Fits(status')
<1>1. \E v, m : status' = [base EXCEPT !.volume = v, !.muted = m]
  BY Zenon DEF ReadMixer
<1> QED
  BY <1>1 DEF Fits, Status

\* A ServiceChanged that finds mode and DAC as they were keeps what fits.
LEMMA CollectFits ==
  ASSUME TypeOK, Fits(status), Collect, ~changed'
  PROVE  Fits(status')
BY DEF Collect, DacChanged, Fits, TypeOK, Status

LEMMA FitsIfUnchanged ==
  ASSUME FitsInv, UNCHANGED <<pc, memory, files>>
  PROVE  FitsInv'
BY DEF FitsInv, Fits, IsWhole, memory, files

LEMMA PassesFit ==
  ASSUME IInv, FitsInv, Refresh \/ MonitorSteps
  PROVE  FitsInv'
<1> TypeOK /\ status \in Status
  BY DEF IInv, TypeOK
<1>1. CASE file' = file /\ Fits(status)'
  BY <1>1 DEF FitsInv, Fits, IsWhole
<1>2. CASE Refresh
  BY <1>2 DEF Refresh, Collect, files, FitsInv, Fits, IsWhole
<1>3. CASE RefreshMixer
  <2>1. WithAvailability(status) \in Status /\ Fits(WithAvailability(status))
    BY AvailabilityTyped, AvailabilityFits
  <2>2. Fits(status') /\ file' = file
    BY <1>3, <2>1, ReadFits DEF RefreshMixer, files
  <2> QED
    BY <1>1, <2>2 DEF Fits
<1>4. CASE ServiceChanged
  <2>1. /\ pc = "idle" /\ pc' = "rescan" /\ file' = file /\ Collect
        /\ changed' \in BOOLEAN
    BY <1>4 DEF ServiceChanged, Receive, Collect, DacChanged, files
  <2>2. CASE changed'
    BY <2>1, <2>2 DEF FitsInv, Fits, IsWhole
  <2>3. CASE ~changed'
    <3>1. Fits(status)
      BY <2>1 DEF FitsInv
    <3>2. Fits(status')
      BY <2>1, <2>3, <3>1, CollectFits
    <3> QED
      BY <1>1, <2>1, <3>2 DEF Fits
  <2> QED
    BY <2>2, <2>3
<1>5. CASE ServiceChangedRescan
  <2>1. pc = "rescan" /\ file' = file
    BY <1>5 DEF ServiceChangedRescan, Proceed, files
  <2>2. CASE changed
    <3>1. Fits(status')
      BY <1>5, <2>2, AvailabilityFits DEF ServiceChangedRescan
    <3> QED
      BY <1>1, <2>1, <3>1 DEF Fits
  <2>3. CASE ~changed
    <3>1. Fits(status) /\ status' = status
      BY <1>5, <2>1, <2>3 DEF ServiceChangedRescan, FitsInv
    <3> QED
      BY <1>1, <2>1, <3>1 DEF Fits
  <2> QED
    BY <2>2, <2>3
<1>6. CASE VolumeChanged \/ CheckVolume
  <2>1. pc = "idle" /\ file' = file /\ ReadMixer(FALSE, status)
    BY <1>6 DEF VolumeChanged, Receive, CheckVolume, files
  <2>2. Fits(status')
    BY <2>1, ReadFits DEF FitsInv
  <2> QED
    BY <1>1, <2>1, <2>2 DEF Fits
<1>7. CASE OpenStatusFile \/ OpenCache \/ WriteCache
  <2>1. /\ UNCHANGED status /\ (file' = file \/ file' = Torn)
        /\ pc \in {"open", "cache", "writecache"}
    BY <1>7 DEF OpenStatusFile, OpenCache, WriteCache, Proceed, Publishing,
                memory
  <2> QED
    BY <2>1 DEF FitsInv, Fits, IsWhole, Torn
<1>8. CASE WriteStatusFile
  <2>1. pc = "write" /\ UNCHANGED status /\ file' = Whole(status)
    BY <1>8 DEF WriteStatusFile, Proceed, Publishing, memory
  <2> QED
    BY <2>1 DEF FitsInv, Fits, IsWhole, Whole
<1> QED
  BY <1>2, <1>3, <1>4, <1>5, <1>6, <1>7, <1>8 DEF MonitorSteps

\* A new monitor offers everything until it knows the mode.
LEMMA RestartsFit ==
  ASSUME IInv, FitsInv, RestartSteps
  PROVE  FitsInv'
<1>1. Fits(InitialStatus)
  BY UnknownAssumption DEF Fits, InitialStatus, Modes
<1>2. CASE ScriptOutput \/ HotplugAdd
  BY <1>2, FitsIfUnchanged DEF ScriptOutput, HotplugAdd, Unmoved
<1>3. ASSUME NEW c \in Callers, StopMonitor(c) PROVE FitsInv'
  BY <1>3
  DEF StopMonitor, Caller, memory, files, FitsInv, Fits, IsWhole
<1>4. ASSUME NEW c \in Callers, StartMonitor(c) PROVE FitsInv'
  <2>1. file' = file
    BY <1>4 DEF StartMonitor, Caller, files
  <2>2. CASE UNCHANGED <<pc, memory>>
    BY <2>1, <2>2 DEF FitsInv, Fits, IsWhole, memory
  <2>3. CASE status' = InitialStatus
    BY <1>1, <2>1, <2>3 DEF FitsInv, Fits, IsWhole
  <2> QED
    BY <1>4, <2>2, <2>3 DEF StartMonitor
<1> QED
  BY <1>2, <1>3, <1>4 DEF RestartSteps

LEMMA NextFits == IInv /\ FitsInv /\ [Next]_vars => FitsInv'
<1> SUFFICES ASSUME IInv, FitsInv, [Next]_vars PROVE FitsInv'
  OBVIOUS
<1>1. CASE Refresh \/ MonitorSteps
  BY <1>1, PassesFit
<1>2. CASE RestartSteps
  BY <1>2, RestartsFit
<1>3. CASE WorldChanges
  <2>1. UNCHANGED <<pc, memory, files>>
    BY <1>3
    DEF WorldChanges, PlayerChanges, DacChanges, MixerChanges, ScriptConf,
        set_volume, toggle_mute, Ask, Unmoved
  <2> QED
    BY <2>1, FitsIfUnchanged
<1>4. ASSUME NEW r \in Requests, amixer(r) PROVE FitsInv'
  BY <1>4, FitsIfUnchanged DEF amixer, Unmoved
<1>5. CASE UNCHANGED vars
  BY <1>5, FitsIfUnchanged DEF vars
<1> QED
  BY <1>1, <1>2, <1>3, <1>4, <1>5 DEF Next

\* Whoever reads the status file is never offered the controls of a DAC that
\* the same file says is missing, nor refused those of the internal card.
THEOREM PublishedFitsTogether == Spec => []PublishedFits
<1>1. Init => FitsInv
  <2>1. Fits(InitialStatus)
    BY UnknownAssumption DEF Fits, InitialStatus, Modes
  <2> QED
    BY <2>1 DEF Init, FitsInv, Fits, IsWhole, Absent
<1>2. FitsInv => PublishedFits
  BY DEF FitsInv, PublishedFits
<1> QED
  BY <1>1, <1>2, NextFits, StatusInvHolds, PTL DEF Spec
=============================================================================
