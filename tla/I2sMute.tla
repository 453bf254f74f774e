------------------------------- MODULE I2sMute -------------------------------
(***************************************************************************)
(* The automatic mute of the I2S/TDM sound driver (linux_rv1106.patch).    *)
(*                                                                         *)
(* Five tasks share the mute state of one device: the one that drives the  *)
(* playback substream (hw_params and the PCM triggers), the mixer          *)
(* (mute_put; ALSA serialises control writes), a writer of the sysfs       *)
(* attribute mute, writers of dsd_mode_manual, and the kernel worker that  *)
(* runs mute_post_work.                                                    *)
(*                                                                         *)
(* Steps are cut where a task can sleep (mutex_lock, msleep and            *)
(* cancel_delayed_work_sync) and, inside a section under mute_lock,        *)
(* between the decision and the writes it leads to, so that mute_lock has  *)
(* to do the work.  The shipped kernel (uniprocessor, voluntary            *)
(* preemption: linux.config lines 83-85 and 382) sleeps only at the        *)
(* former.  The mute line and its inverse are always driven one after the  *)
(* other and are one variable.  Every shipped device tree wires the mute   *)
(* lines and dsd-enable: the branches for absent GPIOs are left out.  The  *)
(* shipped kernel has no system sleep (linux.config lines 493-494): the    *)
(* triggers SUSPEND and RESUME never arrive.                               *)
(***************************************************************************)
EXTENDS Naturals

CONSTANTS
  Stream,      \* the task that drives the playback substream
  Switchers,   \* tasks that write the attribute dsd_mode_manual
  Delays       \* the values written to the attribute postmute_delay_ms

Tasks == {Stream} \cup Switchers

ASSUME StreamAssumption == Stream \notin Switchers
ASSUME DelaysAssumption == Delays \subseteq Nat

DefaultDelay == 450
MaxDelay     == 2000

VARIABLES
  pcm,                 \* state of the PCM runtime
  stopping,            \* a STOP waits for the worker or for mute_lock
  sw,                  \* position of each task in a PCM/DSD switch
  to,                  \* the dsd_mode_active that task's switch will set
  mixer,               \* position of mute_put
  sysfs,               \* position of mute_store
  work,                \* position of mute_post_work
  timer,               \* the delayed work is pending
  mute_lock,           \* who holds the mutex
  mute,                \* what the mixer control shows
  auto_mute_active,
  user_mute_priority,
  format_change_mute,
  mute_gpio,           \* TRUE: the mute lines silence the DAC
  dsd_mode_active,
  dsd_physical_swap,
  swapped,             \* i2s_sdos[2..3] = <<1, 0>>
  postmute_delay_ms,
  lastRequest          \* history: the last mute request a user made

streamVars  == <<pcm, stopping>>
switchVars  == <<sw, to>>
userVars    == <<mixer, sysfs, lastRequest>>
workVars    == <<work, timer>>
flagVars    == <<mute, auto_mute_active, user_mute_priority>>
routingVars == <<dsd_mode_active, dsd_physical_swap, swapped>>

vars == <<pcm, stopping, sw, to, mixer, sysfs, work, timer, mute_lock, mute,
          auto_mute_active, user_mute_priority, format_change_mute, mute_gpio,
          dsd_mode_active, dsd_physical_swap, swapped, postmute_delay_ms,
          lastRequest>>

\* Where the tasks and the substream can be.
PositionsOK ==
  /\ pcm \in {"OPEN", "SETUP", "RUNNING", "PAUSED"}
  /\ stopping \in BOOLEAN
  /\ sw \in [Tasks -> {"none", "cancel", "muted", "settling"}]
  /\ to \in [Tasks -> BOOLEAN]
  /\ mixer \in {"none", "mute", "unmute", "muting", "unmuting"}
  /\ sysfs \in {"none", "muting", "unmuting"}
  /\ work \in {"idle", "running", "unmuting"}
  /\ mute_lock \in {"free", "mixer", "sysfs", "work"}
  /\ lastRequest \in {"none", "mute", "unmute"}

\* The driver's flags and settings.
FlagsOK ==
  /\ timer \in BOOLEAN
  /\ mute \in BOOLEAN
  /\ auto_mute_active \in BOOLEAN
  /\ user_mute_priority \in BOOLEAN
  /\ format_change_mute \in BOOLEAN
  /\ mute_gpio \in BOOLEAN
  /\ dsd_mode_active \in BOOLEAN
  /\ dsd_physical_swap \in BOOLEAN
  /\ swapped \in BOOLEAN
  /\ postmute_delay_ms \in 0 .. MaxDelay

\* Type invariant.  The delay keeps to the range that its attribute accepts.
TypeOK == PositionsOK /\ FlagsOK

Init ==
  /\ pcm = "OPEN"
  /\ stopping = FALSE
  /\ sw = [p \in Tasks |-> "none"]
  /\ to = [p \in Tasks |-> FALSE]
  /\ mixer = "none"
  /\ sysfs = "none"
  /\ work = "idle"
  /\ timer = FALSE
  /\ mute_lock = "free"
  /\ mute = TRUE
  /\ auto_mute_active = TRUE
  /\ user_mute_priority = FALSE
  /\ format_change_mute = FALSE
  /\ mute_gpio = TRUE
  /\ dsd_mode_active = FALSE
  /\ dsd_physical_swap = FALSE
  /\ swapped = FALSE
  /\ postmute_delay_ms = DefaultDelay
  /\ lastRequest = "none"

-----------------------------------------------------------------------------
(* The delayed work. *)

\* mutant: mute_lock is not taken
LockNotNeeded == TRUE

LockFree == mute_lock = "free"

\* mutant: the test of the user's priority is forgotten
MayUnmuteAnyway == ~format_change_mute /\ auto_mute_active
\* mutant: the test of the format change is forgotten
MayUnmuteInSwitch == auto_mute_active /\ ~user_mute_priority
\* mutant: nothing is done when the control shows "not muted" already
MayUnmuteIfShown ==
  ~format_change_mute /\ auto_mute_active /\ ~user_mute_priority /\ mute

MayUnmute ==
  ~format_change_mute /\ auto_mute_active /\ ~user_mute_priority

\* mutant: the early return forgets mutex_unlock
WorkSkipsLocked == work' = "idle" /\ mute_lock' = "work"

WorkSkips == work' = "idle" /\ UNCHANGED mute_lock

\* The timer expires and the worker picks the work up; it runs to mutex_lock.
mute_post_work_start ==
  /\ timer /\ work = "idle"
  /\ timer' = FALSE
  /\ work' = "running"
  /\ UNCHANGED <<streamVars, switchVars, userVars, mute_lock, flagVars,
                 format_change_mute, mute_gpio, routingVars,
                 postmute_delay_ms>>

mute_post_work_test ==
  /\ work = "running" /\ LockFree
  /\ IF MayUnmute
       THEN work' = "unmuting" /\ mute_lock' = "work"
       ELSE WorkSkips
  /\ UNCHANGED <<streamVars, switchVars, userVars, timer, flagVars,
                 format_change_mute, mute_gpio, routingVars,
                 postmute_delay_ms>>

mute_post_work_unmute ==
  /\ work = "unmuting"
  /\ work' = "idle"
  /\ mute_lock' = "free"
  /\ auto_mute_active' = FALSE
  /\ mute' = FALSE
  /\ mute_gpio' = FALSE
  /\ UNCHANGED <<streamVars, switchVars, userVars, timer, user_mute_priority,
                 format_change_mute, routingVars, postmute_delay_ms>>

\* What cancel_delayed_work, and cancel_delayed_work_sync before it waits, do.
CancelPending == timer' = FALSE

\* mutant: cancel_delayed_work in the place of cancel_delayed_work_sync
WorkFinishedOrNot == TRUE

\* What cancel_delayed_work_sync waits for.
WorkFinished == work = "idle"

\* From its call until it returns, cancel_delayed_work_sync owns the work:
\* schedule_delayed_work does nothing in the meantime.
Canceling == stopping \/ \E p \in Tasks : sw[p] = "cancel"

-----------------------------------------------------------------------------
(* The switch between PCM and DSD, in hw_params and in dsd_mode_manual. *)

BeginSwitch(p, dsd) ==
  /\ sw' = [sw EXCEPT ![p] = "cancel"]
  /\ to' = [to EXCEPT ![p] = dsd]
  /\ CancelPending

\* cancel_delayed_work_sync returns; the lines are muted before msleep(50).
MuteForSwitch(p) ==
  /\ sw[p] = "cancel" /\ WorkFinished
  /\ sw' = [sw EXCEPT ![p] = "muted"]
  /\ format_change_mute' = TRUE
  /\ mute_gpio' = TRUE
  /\ UNCHANGED <<streamVars, to, userVars, workVars, mute_lock, flagVars,
                 routingVars, postmute_delay_ms>>

\* mutant: the mode is not looked at
RoutingInAnyMode(dsd, swap) == swap

\* rockchip_i2s_tdm_apply_dsd_physical_swap in mode dsd with setting swap.
Routing(dsd, swap) == dsd /\ swap

\* After the 50 ms the mode, the DSD-on line and the routing change.
FlipMode(p) ==
  /\ sw[p] = "muted"
  /\ sw' = [sw EXCEPT ![p] = "settling"]
  /\ dsd_mode_active' = to[p]
  /\ swapped' = Routing(to[p], dsd_physical_swap)
  /\ UNCHANGED <<streamVars, to, userVars, workVars, mute_lock, flagVars,
                 format_change_mute, mute_gpio, dsd_physical_swap,
                 postmute_delay_ms>>

\* After the 500 ms: hw_params restores the automatic mute for the next
\* trigger and returns, with an error (the state is OPEN again) or without;
\* dsd_mode_manual_store only returns.
FinishSwitch(p) ==
  /\ sw[p] = "settling"
  /\ sw' = [sw EXCEPT ![p] = "none"]
  /\ format_change_mute' = FALSE
  /\ IF p = Stream
       THEN auto_mute_active' = TRUE /\ pcm' \in {"OPEN", "SETUP"}
       ELSE UNCHANGED <<auto_mute_active, pcm>>
  /\ UNCHANGED <<stopping, to, userVars, workVars, mute_lock, mute,
                 user_mute_priority, mute_gpio, routingVars,
                 postmute_delay_ms>>

dsd_mode_manual_store(p, dsd) ==
  /\ sw[p] = "none"
  /\ dsd_mode_active # dsd
  /\ BeginSwitch(p, dsd)
  /\ UNCHANGED <<streamVars, userVars, work, mute_lock, flagVars,
                 format_change_mute, mute_gpio, routingVars,
                 postmute_delay_ms>>

-----------------------------------------------------------------------------
(* The playback substream. *)

StreamFree == sw[Stream] = "none" /\ ~stopping

\* A DSD format always goes through the switch, a PCM format only when the
\* driver is in DSD mode.
hw_params(dsd) ==
  /\ StreamFree
  /\ pcm \in {"OPEN", "SETUP"}
  /\ IF dsd \/ dsd_mode_active
       THEN BeginSwitch(Stream, dsd) /\ UNCHANGED pcm
       ELSE pcm' \in {"OPEN", "SETUP"} /\ UNCHANGED <<sw, to, timer>>
  /\ UNCHANGED <<stopping, userVars, work, mute_lock, flagVars,
                 format_change_mute, mute_gpio, routingVars,
                 postmute_delay_ms>>

SchedulesUnmute == ~user_mute_priority /\ postmute_delay_ms > 0

trigger_start ==
  /\ StreamFree
  /\ pcm = "SETUP"
  /\ pcm' = "RUNNING"
  /\ auto_mute_active' = (auto_mute_active \/ ~user_mute_priority)
  /\ timer' = (timer \/ (SchedulesUnmute /\ ~Canceling))
  /\ UNCHANGED <<stopping, switchVars, userVars, work, mute_lock, mute,
                 user_mute_priority, format_change_mute, mute_gpio,
                 routingVars, postmute_delay_ms>>

\* The calls that leave the mute state and the delayed work alone.  OPEN
\* stands for a closed substream too, SETUP for a prepared one.
Transition(from, into) ==
  /\ StreamFree
  /\ pcm = from
  /\ pcm' = into
  /\ UNCHANGED <<stopping, switchVars, userVars, workVars, mute_lock,
                 flagVars, format_change_mute, mute_gpio, routingVars,
                 postmute_delay_ms>>

shutdown              == Transition("SETUP", "OPEN")
trigger_pause_push    == Transition("RUNNING", "PAUSED")
trigger_pause_release == Transition("PAUSED", "RUNNING")

\* STOP, up to the wait of cancel_delayed_work_sync.  ALSA ends a pause
\* before it stops a stream.
trigger_stop ==
  /\ StreamFree
  /\ pcm = "RUNNING"
  /\ stopping' = TRUE
  /\ CancelPending
  /\ UNCHANGED <<pcm, switchVars, userVars, work, mute_lock, flagVars,
                 format_change_mute, mute_gpio, routingVars,
                 postmute_delay_ms>>

\* mutant: lines that the automation has opened already are left open
StopMutesIfAuto ==
  ~user_mute_priority /\ ~format_change_mute /\ auto_mute_active

StopMutes == ~user_mute_priority /\ ~format_change_mute

\* The rest: the section under mute_lock, rockchip_i2s_tdm_stop, the state.
trigger_stop_locked ==
  /\ stopping /\ WorkFinished /\ LockFree
  /\ stopping' = FALSE
  /\ pcm' = "SETUP"
  /\ IF StopMutes
       THEN mute_gpio' = TRUE /\ auto_mute_active' = TRUE
       ELSE UNCHANGED <<mute_gpio, auto_mute_active>>
  /\ UNCHANGED <<switchVars, userVars, workVars, mute_lock, mute,
                 user_mute_priority, format_change_mute, routingVars,
                 postmute_delay_ms>>

-----------------------------------------------------------------------------
(* The users' controls. *)

\* mute_put compares the request with mute before it takes mute_lock, and
\* returns at once when they agree.
mute_put(req) ==
  /\ mixer = "none"
  /\ IF mute = (req = "mute")
       THEN mixer' = "none" /\ lastRequest' = req
       ELSE mixer' = req /\ UNCHANGED lastRequest
  /\ UNCHANGED <<streamVars, switchVars, sysfs, workVars, mute_lock, flagVars,
                 format_change_mute, mute_gpio, routingVars,
                 postmute_delay_ms>>

\* The flags under mute_lock.  An unmute looks at the PCM state here and
\* ends at once when no stream runs.
mute_put_flags ==
  /\ mixer \in {"mute", "unmute"} /\ LockFree
  /\ mute' = (mixer = "mute")
  /\ user_mute_priority' = (mixer = "mute")
  /\ lastRequest' = mixer
  /\ IF mixer = "mute" \/ pcm = "RUNNING"
       THEN /\ mixer' = IF mixer = "mute" THEN "muting" ELSE "unmuting"
            /\ mute_lock' = "mixer"
       ELSE mixer' = "none" /\ UNCHANGED mute_lock
  /\ UNCHANGED <<streamVars, switchVars, sysfs, workVars, auto_mute_active,
                 format_change_mute, mute_gpio, routingVars,
                 postmute_delay_ms>>

\* mutant: the lines are left as they are
ApplyMuteNothing(muting) ==
  /\ CancelPending
  /\ UNCHANGED mute_gpio
  /\ IF muting THEN UNCHANGED auto_mute_active ELSE auto_mute_active' = FALSE

\* What ends a section of mute_put or mute_store: the timer is cancelled, not
\* waited for, and rockchip_i2s_tdm_apply_mute drives the lines.
ApplyMute(muting) ==
  /\ CancelPending
  /\ mute_gpio' = muting
  /\ IF muting THEN UNCHANGED auto_mute_active ELSE auto_mute_active' = FALSE

mute_put_apply ==
  /\ mixer \in {"muting", "unmuting"}
  /\ mixer' = "none"
  /\ mute_lock' = "free"
  /\ ApplyMute(mixer = "muting")
  /\ UNCHANGED <<streamVars, switchVars, sysfs, lastRequest, work, mute,
                 user_mute_priority, format_change_mute, routingVars,
                 postmute_delay_ms>>

\* The sysfs attribute mute.  It does nothing when it agrees with the
\* control; 0 unmutes whether a stream runs or not.
mute_store(req) ==
  /\ sysfs = "none" /\ LockFree
  /\ lastRequest' = req
  /\ IF mute = (req = "mute")
       THEN UNCHANGED <<sysfs, mute_lock, mute, user_mute_priority>>
       ELSE /\ sysfs' = IF req = "mute" THEN "muting" ELSE "unmuting"
            /\ mute_lock' = "sysfs"
            /\ mute' = (req = "mute")
            /\ user_mute_priority' = (req = "mute")
  /\ UNCHANGED <<streamVars, switchVars, mixer, workVars, auto_mute_active,
                 format_change_mute, mute_gpio, routingVars,
                 postmute_delay_ms>>

mute_store_apply ==
  /\ sysfs # "none"
  /\ sysfs' = "none"
  /\ mute_lock' = "free"
  /\ ApplyMute(sysfs = "muting")
  /\ UNCHANGED <<streamVars, switchVars, mixer, lastRequest, work, mute,
                 user_mute_priority, format_change_mute, routingVars,
                 postmute_delay_ms>>

\* The routing follows at once in DSD mode, at the next switch otherwise.
dsd_physical_swap_store(swap) ==
  /\ dsd_physical_swap' = swap
  /\ swapped' = IF dsd_mode_active THEN Routing(TRUE, swap) ELSE swapped
  /\ UNCHANGED <<streamVars, switchVars, userVars, workVars, mute_lock,
                 flagVars, format_change_mute, mute_gpio, dsd_mode_active,
                 postmute_delay_ms>>

\* mutant: any unsigned number is taken
AnyDelay(delay) == TRUE

ValidDelay(delay) == delay <= MaxDelay

postmute_delay_ms_store(delay) ==
  /\ ValidDelay(delay)
  /\ postmute_delay_ms' = delay
  /\ UNCHANGED <<streamVars, switchVars, userVars, workVars, mute_lock,
                 flagVars, format_change_mute, mute_gpio, routingVars>>

-----------------------------------------------------------------------------
SwitchNext(p) == MuteForSwitch(p) \/ FlipMode(p) \/ FinishSwitch(p)

WorkNext ==
  \/ mute_post_work_start
  \/ mute_post_work_test
  \/ mute_post_work_unmute

StreamNext ==
  \/ \E dsd \in BOOLEAN : hw_params(dsd)
  \/ shutdown
  \/ trigger_start
  \/ trigger_pause_push
  \/ trigger_pause_release
  \/ trigger_stop
  \/ trigger_stop_locked

UserNext ==
  \/ \E req \in {"mute", "unmute"} : mute_put(req) \/ mute_store(req)
  \/ mute_put_flags
  \/ mute_put_apply
  \/ mute_store_apply
  \/ \E swap \in BOOLEAN : dsd_physical_swap_store(swap)
  \/ \E delay \in Delays : postmute_delay_ms_store(delay)
  \/ \E p \in Switchers, dsd \in BOOLEAN : dsd_mode_manual_store(p, dsd)

Next ==
  \/ WorkNext
  \/ \E p \in Tasks : SwitchNext(p)
  \/ StreamNext
  \/ UserNext

Spec == Init /\ [][Next]_vars

\* The timer, the worker and a call already made go on; nobody is obliged to
\* play, to stop or to touch a control.  A mutex is handed to its waiters, so
\* whoever waits for mute_lock gets it: strong fairness.
Fairness ==
  /\ WF_vars(mute_post_work_start)
  /\ SF_vars(mute_post_work_test)
  /\ WF_vars(mute_post_work_unmute)
  /\ SF_vars(trigger_stop_locked)
  /\ SF_vars(mute_put_flags)
  /\ WF_vars(mute_put_apply)
  /\ WF_vars(mute_store_apply)
  /\ \A p \in Tasks : WF_vars(SwitchNext(p))

FairSpec == Spec /\ Fairness

-----------------------------------------------------------------------------
(* Safety. *)

Started == pcm \in {"RUNNING", "PAUSED"}

\* What a task decided under mute_lock still holds when it drives the lines:
\* nobody else is inside, the user's flags are the ones it set or tested, no
\* format change began and no stop ended.
LockDiscipline ==
  /\ mute_lock = "mixer" <=> mixer \in {"muting", "unmuting"}
  /\ mute_lock = "sysfs" <=> sysfs # "none"
  /\ mute_lock = "work"  <=> work = "unmuting"
  /\ mixer = "muting" \/ sysfs = "muting" => user_mute_priority /\ mute
  /\ mixer = "unmuting" \/ sysfs = "unmuting" => ~user_mute_priority /\ ~mute
  /\ mixer = "unmuting" => Started
  /\ work = "unmuting" => ~user_mute_priority /\ ~format_change_mute

\* A user's mute is never lost: once the call that muted has driven the
\* lines, and as long as the driver grants the user priority, the control
\* shows mute and the DAC is silent, whatever the stream, the worker and the
\* format switches do in the meantime.
UserMuteHolds ==
  user_mute_priority =>
    mute /\ (mute_gpio \/ mixer = "muting" \/ sysfs = "muting")

\* The DAC is never open behind the back of the mixer: when the lines are
\* open the control shows "not muted", or a mute is about to close them.
OpenMeansUnmuted ==
  ~mute_gpio => ~mute \/ mixer = "muting" \/ sysfs = "muting"

\* The delayed unmute belongs to a started stream: it is neither pending nor
\* running when STOP has come to its end, however STOP races with the timer,
\* the worker and mute_lock.
WorkOnlyWhileStarted == timer \/ work # "idle" => Started

\* "IMPORTANT: swap applies only in DSD mode!": the pins are exchanged
\* exactly when the driver is in DSD mode and the setting asks for it, for
\* every interleaving of the attribute and of several format switches.
RoutingMatchesMode == swapped <=> dsd_mode_active /\ dsd_physical_swap

\* A step that opens the lines is a user's, or it is the worker's for a
\* stream that is started and neither muted by a user nor in the settling
\* time of a format switch.  With no stream started only the sysfs attribute
\* opens them.
UnmuteJustified ==
  mute_gpio /\ ~mute_gpio' =>
    \/ sysfs = "unmuting"
    \/ mixer = "unmuting" /\ Started
    \/ /\ work = "unmuting" /\ Started
       /\ ~user_mute_priority /\ ~format_change_mute
OnlyJustifiedUnmute == [][UnmuteJustified]_vars

\* Refinement: stream, controls, worker and format switches together are the
\* mute that DacMute promises.  A user's mute is in force when the flag is set
\* and the lines are driven, an unmute is under way from the one to the other.
Dac == INSTANCE DacMute WITH
  open     <- ~mute_gpio,
  held     <- user_mute_priority /\ mute_gpio,
  asked    <- mixer = "unmuting" \/ sysfs = "unmuting",
  started  <- Started,
  settling <- format_change_mute
DacMuteSpec == Dac!Spec

-----------------------------------------------------------------------------
(* Liveness. *)

\* An unmute that START scheduled is delivered, unless the stream stops, a
\* user takes over or a format switch begins first.
ScheduledUnmuteDelivered ==
  timer ~> \/ ~auto_mute_active
           \/ ~Started
           \/ user_mute_priority
           \/ \E p \in Tasks : sw[p] # "none"

\* STOP and hw_params wait for the worker and for mute_lock, and
\* always return.
StreamCallsReturn == ~StreamFree ~> StreamFree

-----------------------------------------------------------------------------
(* What comments of the driver say and its code does not do. *)

\* "User priority over automation": the worker does not decide to unmute
\* against the last request a user made.
UserPriorityOverAutomation ==
  [][work = "running" /\ work' = "unmuting" => lastRequest # "mute"]_vars
=============================================================================
