---------------------------- MODULE I2sMuteProofs ----------------------------
(***************************************************************************)
(* Proofs about I2sMute for any set of dsd_mode_manual writers and any     *)
(* delays: its invariants, that only a justified step opens the lines, and *)
(* that the driver implements DacMute.                                     *)
(***************************************************************************)
EXTENDS I2sMute, TLAPS

\* The safety invariants of I2sMute need one more fact to be inductive: a
\* substream is either in hw_params, with no stream started and nothing being
\* stopped, or being stopped, with the timer already cancelled.
StreamDiscipline ==
  /\ sw[Stream] # "none" => pcm \in {"OPEN", "SETUP"} /\ ~stopping
  /\ stopping => pcm = "RUNNING" /\ ~timer

IInv ==
  /\ TypeOK
  /\ StreamDiscipline
  /\ LockDiscipline
  /\ UserMuteHolds
  /\ OpenMeansUnmuted
  /\ WorkOnlyWhileStarted
  /\ RoutingMatchesMode

LEMMA StreamIsTask == Stream \in Tasks
BY DEF Tasks

\* The driver's state after probe satisfies the invariant.
LEMMA InitIInv == Init => IInv
<1> SUFFICES ASSUME Init PROVE IInv
  OBVIOUS
<1> USE StreamIsTask DEF Init
<1>1. PositionsOK
  BY DEF PositionsOK
<1>2. FlagsOK
  <2>1. postmute_delay_ms \in 0 .. MaxDelay
    BY SMT DEF DefaultDelay, MaxDelay
  <2> QED
    BY <2>1, Zenon DEF FlagsOK
<1>3. StreamDiscipline
  BY DEF StreamDiscipline
<1>4. LockDiscipline
  BY DEF LockDiscipline
<1>5. UserMuteHolds /\ OpenMeansUnmuted /\ RoutingMatchesMode
  BY DEF UserMuteHolds, OpenMeansUnmuted, RoutingMatchesMode
<1>6. WorkOnlyWhileStarted
  BY DEF WorkOnlyWhileStarted
<1> QED
  BY <1>1, <1>2, <1>3, <1>4, <1>5, <1>6 DEF IInv, TypeOK

\* Every step keeps the positions in range.
LEMMA NextPositionsOK == PositionsOK /\ [Next]_vars => PositionsOK'
<1> SUFFICES ASSUME PositionsOK, [Next]_vars PROVE PositionsOK'
  OBVIOUS
<1> USE StreamIsTask DEF PositionsOK, streamVars, switchVars, userVars, workVars,
                         flagVars, routingVars
<1>1. CASE WorkNext
  <2>1. CASE mute_post_work_start
    BY <2>1 DEF mute_post_work_start
  <2>2. CASE mute_post_work_test
    BY <2>2 DEF mute_post_work_test, WorkSkips
  <2>3. CASE mute_post_work_unmute
    BY <2>3 DEF mute_post_work_unmute
  <2> QED
    BY <1>1, <2>1, <2>2, <2>3 DEF WorkNext
<1>2. CASE \E p \in Tasks : SwitchNext(p)
  <2> PICK p \in Tasks : SwitchNext(p)
    BY <1>2
  <2>1. CASE MuteForSwitch(p)
    BY <2>1 DEF MuteForSwitch
  <2>2. CASE FlipMode(p)
    BY <2>2 DEF FlipMode, Routing
  <2>3. CASE FinishSwitch(p)
    BY <2>3 DEF FinishSwitch
  <2> QED
    BY <2>1, <2>2, <2>3 DEF SwitchNext
<1>3. CASE StreamNext
  <2>1. ASSUME NEW dsd \in BOOLEAN, hw_params(dsd) PROVE PositionsOK'
    BY <2>1 DEF hw_params, BeginSwitch, CancelPending
  <2>2. CASE trigger_start
    BY <2>2 DEF trigger_start, SchedulesUnmute, Canceling
  <2>3. ASSUME NEW from, NEW into \in {"OPEN", "SETUP", "RUNNING", "PAUSED"},
               Transition(from, into)
        PROVE  PositionsOK'
    BY <2>3 DEF Transition
  <2>4. CASE trigger_stop
    BY <2>4 DEF trigger_stop, CancelPending
  <2>5. CASE trigger_stop_locked
    BY <2>5 DEF trigger_stop_locked
  <2> QED
    BY <1>3, <2>1, <2>2, <2>3, <2>4, <2>5
    DEF StreamNext, shutdown, trigger_pause_push, trigger_pause_release
<1>4. CASE UserNext
  <2>1. ASSUME NEW req \in {"mute", "unmute"}, mute_put(req) PROVE PositionsOK'
    BY <2>1 DEF mute_put
  <2>2. ASSUME NEW req \in {"mute", "unmute"}, mute_store(req) PROVE PositionsOK'
    BY <2>2 DEF mute_store
  <2>3. CASE mute_put_flags
    BY <2>3 DEF mute_put_flags
  <2>4. CASE mute_put_apply
    BY <2>4 DEF mute_put_apply, ApplyMute, CancelPending
  <2>5. CASE mute_store_apply
    BY <2>5 DEF mute_store_apply, ApplyMute, CancelPending
  <2>6. ASSUME NEW swap \in BOOLEAN, dsd_physical_swap_store(swap)
        PROVE  PositionsOK'
    BY <2>6 DEF dsd_physical_swap_store, Routing
  <2>7. ASSUME NEW delay \in Delays, postmute_delay_ms_store(delay)
        PROVE  PositionsOK'
    BY <2>7, DelaysAssumption
    DEF postmute_delay_ms_store, ValidDelay, MaxDelay
  <2>8. ASSUME NEW p \in Switchers, NEW dsd \in BOOLEAN,
               dsd_mode_manual_store(p, dsd)
        PROVE  PositionsOK'
    BY <2>8 DEF dsd_mode_manual_store, BeginSwitch, CancelPending, Tasks
  <2> QED
    BY <1>4, <2>1, <2>2, <2>3, <2>4, <2>5, <2>6, <2>7, <2>8 DEF UserNext
<1>5. CASE UNCHANGED vars
  BY <1>5 DEF vars
<1> QED
  BY <1>1, <1>2, <1>3, <1>4, <1>5 DEF Next

\* Every step keeps the flags and settings in range.
LEMMA NextFlagsOK == TypeOK /\ [Next]_vars => FlagsOK'
<1> SUFFICES ASSUME TypeOK, [Next]_vars PROVE FlagsOK'
  OBVIOUS
<1> FlagsOK
  BY DEF TypeOK
<1> USE StreamIsTask DEF FlagsOK, streamVars, switchVars, userVars, workVars,
                         flagVars, routingVars
<1>1. CASE WorkNext
  <2>1. CASE mute_post_work_start
    BY <2>1 DEF mute_post_work_start
  <2>2. CASE mute_post_work_test
    BY <2>2 DEF mute_post_work_test, WorkSkips
  <2>3. CASE mute_post_work_unmute
    BY <2>3 DEF mute_post_work_unmute
  <2> QED
    BY <1>1, <2>1, <2>2, <2>3 DEF WorkNext
<1>2. CASE \E p \in Tasks : SwitchNext(p)
  <2> PICK p \in Tasks : SwitchNext(p)
    BY <1>2
  <2>1. CASE MuteForSwitch(p)
    BY <2>1 DEF MuteForSwitch
  <2>2. CASE FlipMode(p)
    <3>1. to[p] \in BOOLEAN
      BY DEF TypeOK, PositionsOK
    <3> QED
      BY <2>2, <3>1 DEF FlipMode, Routing
  <2>3. CASE FinishSwitch(p)
    BY <2>3 DEF FinishSwitch
  <2> QED
    BY <2>1, <2>2, <2>3 DEF SwitchNext
<1>3. CASE StreamNext
  <2>1. ASSUME NEW dsd \in BOOLEAN, hw_params(dsd) PROVE FlagsOK'
    BY <2>1 DEF hw_params, BeginSwitch, CancelPending
  <2>2. CASE trigger_start
    BY <2>2 DEF trigger_start, SchedulesUnmute, Canceling
  <2>3. ASSUME NEW from, NEW into \in {"OPEN", "SETUP", "RUNNING", "PAUSED"},
               Transition(from, into)
        PROVE  FlagsOK'
    BY <2>3 DEF Transition
  <2>4. CASE trigger_stop
    BY <2>4 DEF trigger_stop, CancelPending
  <2>5. CASE trigger_stop_locked
    BY <2>5 DEF trigger_stop_locked
  <2> QED
    BY <1>3, <2>1, <2>2, <2>3, <2>4, <2>5
    DEF StreamNext, shutdown, trigger_pause_push, trigger_pause_release
<1>4. CASE UserNext
  <2>1. ASSUME NEW req \in {"mute", "unmute"}, mute_put(req) PROVE FlagsOK'
    BY <2>1 DEF mute_put
  <2>2. ASSUME NEW req \in {"mute", "unmute"}, mute_store(req) PROVE FlagsOK'
    BY <2>2 DEF mute_store
  <2>3. CASE mute_put_flags
    BY <2>3 DEF mute_put_flags
  <2>4. CASE mute_put_apply
    BY <2>4 DEF mute_put_apply, ApplyMute, CancelPending
  <2>5. CASE mute_store_apply
    BY <2>5 DEF mute_store_apply, ApplyMute, CancelPending
  <2>6. ASSUME NEW swap \in BOOLEAN, dsd_physical_swap_store(swap)
        PROVE  FlagsOK'
    BY <2>6 DEF dsd_physical_swap_store, Routing
  <2>7. ASSUME NEW delay \in Delays, postmute_delay_ms_store(delay)
        PROVE  FlagsOK'
    BY <2>7, DelaysAssumption
    DEF postmute_delay_ms_store, ValidDelay, MaxDelay
  <2>8. ASSUME NEW p \in Switchers, NEW dsd \in BOOLEAN,
               dsd_mode_manual_store(p, dsd)
        PROVE  FlagsOK'
    BY <2>8 DEF dsd_mode_manual_store, BeginSwitch, CancelPending, Tasks
  <2> QED
    BY <1>4, <2>1, <2>2, <2>3, <2>4, <2>5, <2>6, <2>7, <2>8 DEF UserNext
<1>5. CASE UNCHANGED vars
  BY <1>5 DEF vars
<1> QED
  BY <1>1, <1>2, <1>3, <1>4, <1>5 DEF Next
\* hw_params and STOP exclude each other, and no timer outlives the cancel.
LEMMA NextStreamDiscipline == PositionsOK /\ StreamDiscipline /\ [Next]_vars => StreamDiscipline'
<1> SUFFICES ASSUME PositionsOK /\ StreamDiscipline, [Next]_vars PROVE StreamDiscipline'
  OBVIOUS
<1> USE StreamIsTask DEF PositionsOK, StreamDiscipline, streamVars, switchVars, userVars,
                         workVars, flagVars, routingVars
<1>1. CASE WorkNext
  <2>1. CASE mute_post_work_start
    BY <2>1 DEF mute_post_work_start
  <2>2. CASE mute_post_work_test
    BY <2>2 DEF mute_post_work_test, WorkSkips, LockFree, MayUnmute
  <2>3. CASE mute_post_work_unmute
    BY <2>3 DEF mute_post_work_unmute
  <2> QED
    BY <1>1, <2>1, <2>2, <2>3 DEF WorkNext
<1>2. CASE \E p \in Tasks : SwitchNext(p)
  <2> PICK p \in Tasks : SwitchNext(p)
    BY <1>2
  <2>1. CASE MuteForSwitch(p)
    BY <2>1 DEF MuteForSwitch, WorkFinished
  <2>2. CASE FlipMode(p)
    BY <2>2 DEF FlipMode, Routing
  <2>3. CASE FinishSwitch(p)
    BY <2>3 DEF FinishSwitch
  <2> QED
    BY <2>1, <2>2, <2>3 DEF SwitchNext
<1>3. CASE StreamNext
  <2>1. ASSUME NEW dsd \in BOOLEAN, hw_params(dsd) PROVE StreamDiscipline'
    BY <2>1 DEF hw_params, BeginSwitch, CancelPending, StreamFree
  <2>2. CASE trigger_start
    BY <2>2 DEF trigger_start, SchedulesUnmute, Canceling, StreamFree
  <2>3. CASE shutdown
    BY <2>3 DEF shutdown, Transition, StreamFree
  <2>4. CASE trigger_pause_push \/ trigger_pause_release
    BY <2>4 DEF trigger_pause_push, trigger_pause_release, Transition,
                StreamFree
  <2>5. CASE trigger_stop
    BY <2>5 DEF trigger_stop, CancelPending, StreamFree
  <2>6. CASE trigger_stop_locked
    BY <2>6 DEF trigger_stop_locked, WorkFinished, LockFree
  <2> QED
    BY <1>3, <2>1, <2>2, <2>3, <2>4, <2>5, <2>6 DEF StreamNext
<1>4. CASE UserNext
  <2>1. ASSUME NEW req \in {"mute", "unmute"}, mute_put(req) PROVE StreamDiscipline'
    BY <2>1 DEF mute_put
  <2>2. ASSUME NEW req \in {"mute", "unmute"}, mute_store(req) PROVE StreamDiscipline'
    BY <2>2 DEF mute_store, LockFree
  <2>3. CASE mute_put_flags
    BY <2>3 DEF mute_put_flags, LockFree
  <2>4. CASE mute_put_apply
    BY <2>4 DEF mute_put_apply, ApplyMute, CancelPending
  <2>5. CASE mute_store_apply
    BY <2>5 DEF mute_store_apply, ApplyMute, CancelPending
  <2>6. ASSUME NEW swap \in BOOLEAN, dsd_physical_swap_store(swap)
        PROVE  StreamDiscipline'
    BY <2>6 DEF dsd_physical_swap_store, Routing
  <2>7. ASSUME NEW delay \in Delays, postmute_delay_ms_store(delay)
        PROVE  StreamDiscipline'
    BY <2>7, DelaysAssumption
    DEF postmute_delay_ms_store, ValidDelay, MaxDelay
  <2>8. ASSUME NEW p \in Switchers, NEW dsd \in BOOLEAN,
               dsd_mode_manual_store(p, dsd)
        PROVE  StreamDiscipline'
    BY <2>8, StreamAssumption
    DEF dsd_mode_manual_store, BeginSwitch, CancelPending, Tasks
  <2> QED
    BY <1>4, <2>1, <2>2, <2>3, <2>4, <2>5, <2>6, <2>7, <2>8 DEF UserNext
<1>5. CASE UNCHANGED vars
  BY <1>5 DEF vars
<1> QED
  BY <1>1, <1>2, <1>3, <1>4, <1>5 DEF Next

\* A stop waits for the worker, and until then nothing schedules it again.
LEMMA NextWorkOnlyWhileStarted == PositionsOK /\ StreamDiscipline /\ WorkOnlyWhileStarted /\ [Next]_vars => WorkOnlyWhileStarted'
<1> SUFFICES ASSUME PositionsOK /\ StreamDiscipline /\ WorkOnlyWhileStarted, [Next]_vars PROVE WorkOnlyWhileStarted'
  OBVIOUS
<1> USE StreamIsTask DEF PositionsOK, StreamDiscipline, WorkOnlyWhileStarted, Started, streamVars, switchVars, userVars,
                         workVars, flagVars, routingVars
<1>1. CASE WorkNext
  <2>1. CASE mute_post_work_start
    BY <2>1 DEF mute_post_work_start
  <2>2. CASE mute_post_work_test
    BY <2>2 DEF mute_post_work_test, WorkSkips, LockFree, MayUnmute
  <2>3. CASE mute_post_work_unmute
    BY <2>3 DEF mute_post_work_unmute
  <2> QED
    BY <1>1, <2>1, <2>2, <2>3 DEF WorkNext
<1>2. CASE \E p \in Tasks : SwitchNext(p)
  <2> PICK p \in Tasks : SwitchNext(p)
    BY <1>2
  <2>1. CASE MuteForSwitch(p)
    BY <2>1 DEF MuteForSwitch, WorkFinished
  <2>2. CASE FlipMode(p)
    BY <2>2 DEF FlipMode, Routing
  <2>3. CASE FinishSwitch(p)
    BY <2>3 DEF FinishSwitch
  <2> QED
    BY <2>1, <2>2, <2>3 DEF SwitchNext
<1>3. CASE StreamNext
  <2>1. ASSUME NEW dsd \in BOOLEAN, hw_params(dsd) PROVE WorkOnlyWhileStarted'
    BY <2>1 DEF hw_params, BeginSwitch, CancelPending, StreamFree
  <2>2. CASE trigger_start
    BY <2>2 DEF trigger_start, SchedulesUnmute, Canceling, StreamFree
  <2>3. CASE shutdown
    BY <2>3 DEF shutdown, Transition, StreamFree
  <2>4. CASE trigger_pause_push \/ trigger_pause_release
    BY <2>4 DEF trigger_pause_push, trigger_pause_release, Transition,
                StreamFree
  <2>5. CASE trigger_stop
    BY <2>5 DEF trigger_stop, CancelPending, StreamFree
  <2>6. CASE trigger_stop_locked
    BY <2>6 DEF trigger_stop_locked, WorkFinished, LockFree
  <2> QED
    BY <1>3, <2>1, <2>2, <2>3, <2>4, <2>5, <2>6 DEF StreamNext
<1>4. CASE UserNext
  <2>1. ASSUME NEW req \in {"mute", "unmute"}, mute_put(req) PROVE WorkOnlyWhileStarted'
    BY <2>1 DEF mute_put
  <2>2. ASSUME NEW req \in {"mute", "unmute"}, mute_store(req) PROVE WorkOnlyWhileStarted'
    BY <2>2 DEF mute_store, LockFree
  <2>3. CASE mute_put_flags
    BY <2>3 DEF mute_put_flags, LockFree
  <2>4. CASE mute_put_apply
    BY <2>4 DEF mute_put_apply, ApplyMute, CancelPending
  <2>5. CASE mute_store_apply
    BY <2>5 DEF mute_store_apply, ApplyMute, CancelPending
  <2>6. ASSUME NEW swap \in BOOLEAN, dsd_physical_swap_store(swap)
        PROVE  WorkOnlyWhileStarted'
    BY <2>6 DEF dsd_physical_swap_store, Routing
  <2>7. ASSUME NEW delay \in Delays, postmute_delay_ms_store(delay)
        PROVE  WorkOnlyWhileStarted'
    BY <2>7, DelaysAssumption
    DEF postmute_delay_ms_store, ValidDelay, MaxDelay
  <2>8. ASSUME NEW p \in Switchers, NEW dsd \in BOOLEAN,
               dsd_mode_manual_store(p, dsd)
        PROVE  WorkOnlyWhileStarted'
    BY <2>8, StreamAssumption
    DEF dsd_mode_manual_store, BeginSwitch, CancelPending, Tasks
  <2> QED
    BY <1>4, <2>1, <2>2, <2>3, <2>4, <2>5, <2>6, <2>7, <2>8 DEF UserNext
<1>5. CASE UNCHANGED vars
  BY <1>5 DEF vars
<1> QED
  BY <1>1, <1>2, <1>3, <1>4, <1>5 DEF Next

\* What a section under mute_lock relies on stays true until it ends.
LEMMA NextLockDiscipline == PositionsOK /\ StreamDiscipline /\ LockDiscipline /\ WorkOnlyWhileStarted /\ [Next]_vars => LockDiscipline'
<1> SUFFICES ASSUME PositionsOK /\ StreamDiscipline /\ LockDiscipline /\ WorkOnlyWhileStarted, [Next]_vars PROVE LockDiscipline'
  OBVIOUS
<1> USE StreamIsTask DEF PositionsOK, StreamDiscipline, LockDiscipline, WorkOnlyWhileStarted, Started, streamVars, switchVars, userVars,
                         workVars, flagVars, routingVars
<1>1. CASE WorkNext
  <2>1. CASE mute_post_work_start
    BY <2>1 DEF mute_post_work_start
  <2>2. CASE mute_post_work_test
    BY <2>2 DEF mute_post_work_test, WorkSkips, LockFree, MayUnmute
  <2>3. CASE mute_post_work_unmute
    BY <2>3 DEF mute_post_work_unmute
  <2> QED
    BY <1>1, <2>1, <2>2, <2>3 DEF WorkNext
<1>2. CASE \E p \in Tasks : SwitchNext(p)
  <2> PICK p \in Tasks : SwitchNext(p)
    BY <1>2
  <2>1. CASE MuteForSwitch(p)
    BY <2>1 DEF MuteForSwitch, WorkFinished
  <2>2. CASE FlipMode(p)
    BY <2>2 DEF FlipMode, Routing
  <2>3. CASE FinishSwitch(p)
    BY <2>3 DEF FinishSwitch
  <2> QED
    BY <2>1, <2>2, <2>3 DEF SwitchNext
<1>3. CASE StreamNext
  <2>1. ASSUME NEW dsd \in BOOLEAN, hw_params(dsd) PROVE LockDiscipline'
    BY <2>1 DEF hw_params, BeginSwitch, CancelPending, StreamFree
  <2>2. CASE trigger_start
    BY <2>2 DEF trigger_start, SchedulesUnmute, Canceling, StreamFree
  <2>3. CASE shutdown
    BY <2>3 DEF shutdown, Transition, StreamFree
  <2>4. CASE trigger_pause_push \/ trigger_pause_release
    BY <2>4 DEF trigger_pause_push, trigger_pause_release, Transition,
                StreamFree
  <2>5. CASE trigger_stop
    BY <2>5 DEF trigger_stop, CancelPending, StreamFree
  <2>6. CASE trigger_stop_locked
    BY <2>6 DEF trigger_stop_locked, WorkFinished, LockFree
  <2> QED
    BY <1>3, <2>1, <2>2, <2>3, <2>4, <2>5, <2>6 DEF StreamNext
<1>4. CASE UserNext
  <2>1. ASSUME NEW req \in {"mute", "unmute"}, mute_put(req) PROVE LockDiscipline'
    BY <2>1 DEF mute_put
  <2>2. ASSUME NEW req \in {"mute", "unmute"}, mute_store(req) PROVE LockDiscipline'
    BY <2>2 DEF mute_store, LockFree
  <2>3. CASE mute_put_flags
    BY <2>3 DEF mute_put_flags, LockFree
  <2>4. CASE mute_put_apply
    BY <2>4 DEF mute_put_apply, ApplyMute, CancelPending
  <2>5. CASE mute_store_apply
    BY <2>5 DEF mute_store_apply, ApplyMute, CancelPending
  <2>6. ASSUME NEW swap \in BOOLEAN, dsd_physical_swap_store(swap)
        PROVE  LockDiscipline'
    BY <2>6 DEF dsd_physical_swap_store, Routing
  <2>7. ASSUME NEW delay \in Delays, postmute_delay_ms_store(delay)
        PROVE  LockDiscipline'
    BY <2>7, DelaysAssumption
    DEF postmute_delay_ms_store, ValidDelay, MaxDelay
  <2>8. ASSUME NEW p \in Switchers, NEW dsd \in BOOLEAN,
               dsd_mode_manual_store(p, dsd)
        PROVE  LockDiscipline'
    BY <2>8, StreamAssumption
    DEF dsd_mode_manual_store, BeginSwitch, CancelPending, Tasks
  <2> QED
    BY <1>4, <2>1, <2>2, <2>3, <2>4, <2>5, <2>6, <2>7, <2>8 DEF UserNext
<1>5. CASE UNCHANGED vars
  BY <1>5 DEF vars
<1> QED
  BY <1>1, <1>2, <1>3, <1>4, <1>5 DEF Next

\* No step takes a user's mute away but the user's unmute.
LEMMA NextUserMuteHolds == PositionsOK /\ LockDiscipline /\ UserMuteHolds /\ [Next]_vars => UserMuteHolds'
<1> SUFFICES ASSUME PositionsOK /\ LockDiscipline /\ UserMuteHolds, [Next]_vars PROVE UserMuteHolds'
  OBVIOUS
<1> USE StreamIsTask DEF PositionsOK, LockDiscipline, UserMuteHolds, streamVars, switchVars, userVars,
                         workVars, flagVars, routingVars
<1>1. CASE WorkNext
  <2>1. CASE mute_post_work_start
    BY <2>1 DEF mute_post_work_start
  <2>2. CASE mute_post_work_test
    BY <2>2 DEF mute_post_work_test, WorkSkips, LockFree, MayUnmute
  <2>3. CASE mute_post_work_unmute
    BY <2>3 DEF mute_post_work_unmute
  <2> QED
    BY <1>1, <2>1, <2>2, <2>3 DEF WorkNext
<1>2. CASE \E p \in Tasks : SwitchNext(p)
  <2> PICK p \in Tasks : SwitchNext(p)
    BY <1>2
  <2>1. CASE MuteForSwitch(p)
    BY <2>1 DEF MuteForSwitch, WorkFinished
  <2>2. CASE FlipMode(p)
    BY <2>2 DEF FlipMode, Routing
  <2>3. CASE FinishSwitch(p)
    BY <2>3 DEF FinishSwitch
  <2> QED
    BY <2>1, <2>2, <2>3 DEF SwitchNext
<1>3. CASE StreamNext
  <2>1. ASSUME NEW dsd \in BOOLEAN, hw_params(dsd) PROVE UserMuteHolds'
    BY <2>1 DEF hw_params, BeginSwitch, CancelPending, StreamFree
  <2>2. CASE trigger_start
    BY <2>2 DEF trigger_start, SchedulesUnmute, Canceling, StreamFree
  <2>3. CASE shutdown
    BY <2>3 DEF shutdown, Transition, StreamFree
  <2>4. CASE trigger_pause_push \/ trigger_pause_release
    BY <2>4 DEF trigger_pause_push, trigger_pause_release, Transition,
                StreamFree
  <2>5. CASE trigger_stop
    BY <2>5 DEF trigger_stop, CancelPending, StreamFree
  <2>6. CASE trigger_stop_locked
    BY <2>6 DEF trigger_stop_locked, WorkFinished, LockFree
  <2> QED
    BY <1>3, <2>1, <2>2, <2>3, <2>4, <2>5, <2>6 DEF StreamNext
<1>4. CASE UserNext
  <2>1. ASSUME NEW req \in {"mute", "unmute"}, mute_put(req) PROVE UserMuteHolds'
    BY <2>1 DEF mute_put
  <2>2. ASSUME NEW req \in {"mute", "unmute"}, mute_store(req) PROVE UserMuteHolds'
    BY <2>2 DEF mute_store, LockFree
  <2>3. CASE mute_put_flags
    BY <2>3 DEF mute_put_flags, LockFree
  <2>4. CASE mute_put_apply
    BY <2>4 DEF mute_put_apply, ApplyMute, CancelPending
  <2>5. CASE mute_store_apply
    BY <2>5 DEF mute_store_apply, ApplyMute, CancelPending
  <2>6. ASSUME NEW swap \in BOOLEAN, dsd_physical_swap_store(swap)
        PROVE  UserMuteHolds'
    BY <2>6 DEF dsd_physical_swap_store, Routing
  <2>7. ASSUME NEW delay \in Delays, postmute_delay_ms_store(delay)
        PROVE  UserMuteHolds'
    BY <2>7, DelaysAssumption
    DEF postmute_delay_ms_store, ValidDelay, MaxDelay
  <2>8. ASSUME NEW p \in Switchers, NEW dsd \in BOOLEAN,
               dsd_mode_manual_store(p, dsd)
        PROVE  UserMuteHolds'
    BY <2>8, StreamAssumption
    DEF dsd_mode_manual_store, BeginSwitch, CancelPending, Tasks
  <2> QED
    BY <1>4, <2>1, <2>2, <2>3, <2>4, <2>5, <2>6, <2>7, <2>8 DEF UserNext
<1>5. CASE UNCHANGED vars
  BY <1>5 DEF vars
<1> QED
  BY <1>1, <1>2, <1>3, <1>4, <1>5 DEF Next

\* Whoever opens the lines has set the control to not muted.
LEMMA NextOpenMeansUnmuted == PositionsOK /\ LockDiscipline /\ OpenMeansUnmuted /\ [Next]_vars => OpenMeansUnmuted'
<1> SUFFICES ASSUME PositionsOK /\ LockDiscipline /\ OpenMeansUnmuted, [Next]_vars PROVE OpenMeansUnmuted'
  OBVIOUS
<1> USE StreamIsTask DEF PositionsOK, LockDiscipline, OpenMeansUnmuted, streamVars, switchVars, userVars,
                         workVars, flagVars, routingVars
<1>1. CASE WorkNext
  <2>1. CASE mute_post_work_start
    BY <2>1 DEF mute_post_work_start
  <2>2. CASE mute_post_work_test
    BY <2>2 DEF mute_post_work_test, WorkSkips, LockFree, MayUnmute
  <2>3. CASE mute_post_work_unmute
    BY <2>3 DEF mute_post_work_unmute
  <2> QED
    BY <1>1, <2>1, <2>2, <2>3 DEF WorkNext
<1>2. CASE \E p \in Tasks : SwitchNext(p)
  <2> PICK p \in Tasks : SwitchNext(p)
    BY <1>2
  <2>1. CASE MuteForSwitch(p)
    BY <2>1 DEF MuteForSwitch, WorkFinished
  <2>2. CASE FlipMode(p)
    BY <2>2 DEF FlipMode, Routing
  <2>3. CASE FinishSwitch(p)
    BY <2>3 DEF FinishSwitch
  <2> QED
    BY <2>1, <2>2, <2>3 DEF SwitchNext
<1>3. CASE StreamNext
  <2>1. ASSUME NEW dsd \in BOOLEAN, hw_params(dsd) PROVE OpenMeansUnmuted'
    BY <2>1 DEF hw_params, BeginSwitch, CancelPending, StreamFree
  <2>2. CASE trigger_start
    BY <2>2 DEF trigger_start, SchedulesUnmute, Canceling, StreamFree
  <2>3. CASE shutdown
    BY <2>3 DEF shutdown, Transition, StreamFree
  <2>4. CASE trigger_pause_push \/ trigger_pause_release
    BY <2>4 DEF trigger_pause_push, trigger_pause_release, Transition,
                StreamFree
  <2>5. CASE trigger_stop
    BY <2>5 DEF trigger_stop, CancelPending, StreamFree
  <2>6. CASE trigger_stop_locked
    BY <2>6 DEF trigger_stop_locked, WorkFinished, LockFree
  <2> QED
    BY <1>3, <2>1, <2>2, <2>3, <2>4, <2>5, <2>6 DEF StreamNext
<1>4. CASE UserNext
  <2>1. ASSUME NEW req \in {"mute", "unmute"}, mute_put(req) PROVE OpenMeansUnmuted'
    BY <2>1 DEF mute_put
  <2>2. ASSUME NEW req \in {"mute", "unmute"}, mute_store(req) PROVE OpenMeansUnmuted'
    BY <2>2 DEF mute_store, LockFree
  <2>3. CASE mute_put_flags
    BY <2>3 DEF mute_put_flags, LockFree
  <2>4. CASE mute_put_apply
    BY <2>4 DEF mute_put_apply, ApplyMute, CancelPending
  <2>5. CASE mute_store_apply
    BY <2>5 DEF mute_store_apply, ApplyMute, CancelPending
  <2>6. ASSUME NEW swap \in BOOLEAN, dsd_physical_swap_store(swap)
        PROVE  OpenMeansUnmuted'
    BY <2>6 DEF dsd_physical_swap_store, Routing
  <2>7. ASSUME NEW delay \in Delays, postmute_delay_ms_store(delay)
        PROVE  OpenMeansUnmuted'
    BY <2>7, DelaysAssumption
    DEF postmute_delay_ms_store, ValidDelay, MaxDelay
  <2>8. ASSUME NEW p \in Switchers, NEW dsd \in BOOLEAN,
               dsd_mode_manual_store(p, dsd)
        PROVE  OpenMeansUnmuted'
    BY <2>8, StreamAssumption
    DEF dsd_mode_manual_store, BeginSwitch, CancelPending, Tasks
  <2> QED
    BY <1>4, <2>1, <2>2, <2>3, <2>4, <2>5, <2>6, <2>7, <2>8 DEF UserNext
<1>5. CASE UNCHANGED vars
  BY <1>5 DEF vars
<1> QED
  BY <1>1, <1>2, <1>3, <1>4, <1>5 DEF Next

\* Mode, setting and pins change together.
LEMMA NextRoutingMatchesMode == FlagsOK /\ RoutingMatchesMode /\ [Next]_vars => RoutingMatchesMode'
<1> SUFFICES ASSUME FlagsOK /\ RoutingMatchesMode, [Next]_vars PROVE RoutingMatchesMode'
  OBVIOUS
<1> USE StreamIsTask DEF FlagsOK, RoutingMatchesMode, streamVars, switchVars, userVars,
                         workVars, flagVars, routingVars
<1>1. CASE WorkNext
  <2>1. CASE mute_post_work_start
    BY <2>1 DEF mute_post_work_start
  <2>2. CASE mute_post_work_test
    BY <2>2 DEF mute_post_work_test, WorkSkips, LockFree, MayUnmute
  <2>3. CASE mute_post_work_unmute
    BY <2>3 DEF mute_post_work_unmute
  <2> QED
    BY <1>1, <2>1, <2>2, <2>3 DEF WorkNext
<1>2. CASE \E p \in Tasks : SwitchNext(p)
  <2> PICK p \in Tasks : SwitchNext(p)
    BY <1>2
  <2>1. CASE MuteForSwitch(p)
    BY <2>1 DEF MuteForSwitch, WorkFinished
  <2>2. CASE FlipMode(p)
    BY <2>2 DEF FlipMode, Routing
  <2>3. CASE FinishSwitch(p)
    BY <2>3 DEF FinishSwitch
  <2> QED
    BY <2>1, <2>2, <2>3 DEF SwitchNext
<1>3. CASE StreamNext
  <2>1. ASSUME NEW dsd \in BOOLEAN, hw_params(dsd) PROVE RoutingMatchesMode'
    BY <2>1 DEF hw_params, BeginSwitch, CancelPending, StreamFree
  <2>2. CASE trigger_start
    BY <2>2 DEF trigger_start, SchedulesUnmute, Canceling, StreamFree
  <2>3. CASE shutdown
    BY <2>3 DEF shutdown, Transition, StreamFree
  <2>4. CASE trigger_pause_push \/ trigger_pause_release
    BY <2>4 DEF trigger_pause_push, trigger_pause_release, Transition,
                StreamFree
  <2>5. CASE trigger_stop
    BY <2>5 DEF trigger_stop, CancelPending, StreamFree
  <2>6. CASE trigger_stop_locked
    BY <2>6 DEF trigger_stop_locked, WorkFinished, LockFree
  <2> QED
    BY <1>3, <2>1, <2>2, <2>3, <2>4, <2>5, <2>6 DEF StreamNext
<1>4. CASE UserNext
  <2>1. ASSUME NEW req \in {"mute", "unmute"}, mute_put(req) PROVE RoutingMatchesMode'
    BY <2>1 DEF mute_put
  <2>2. ASSUME NEW req \in {"mute", "unmute"}, mute_store(req) PROVE RoutingMatchesMode'
    BY <2>2 DEF mute_store, LockFree
  <2>3. CASE mute_put_flags
    BY <2>3 DEF mute_put_flags, LockFree
  <2>4. CASE mute_put_apply
    BY <2>4 DEF mute_put_apply, ApplyMute, CancelPending
  <2>5. CASE mute_store_apply
    BY <2>5 DEF mute_store_apply, ApplyMute, CancelPending
  <2>6. ASSUME NEW swap \in BOOLEAN, dsd_physical_swap_store(swap)
        PROVE  RoutingMatchesMode'
    BY <2>6 DEF dsd_physical_swap_store, Routing
  <2>7. ASSUME NEW delay \in Delays, postmute_delay_ms_store(delay)
        PROVE  RoutingMatchesMode'
    BY <2>7, DelaysAssumption
    DEF postmute_delay_ms_store, ValidDelay, MaxDelay
  <2>8. ASSUME NEW p \in Switchers, NEW dsd \in BOOLEAN,
               dsd_mode_manual_store(p, dsd)
        PROVE  RoutingMatchesMode'
    BY <2>8, StreamAssumption
    DEF dsd_mode_manual_store, BeginSwitch, CancelPending, Tasks
  <2> QED
    BY <1>4, <2>1, <2>2, <2>3, <2>4, <2>5, <2>6, <2>7, <2>8 DEF UserNext
<1>5. CASE UNCHANGED vars
  BY <1>5 DEF vars
<1> QED
  BY <1>1, <1>2, <1>3, <1>4, <1>5 DEF Next

-----------------------------------------------------------------------------
\* The invariant is inductive.
LEMMA NextIInv == IInv /\ [Next]_vars => IInv'
BY NextPositionsOK, NextFlagsOK, NextStreamDiscipline, NextLockDiscipline,
   NextUserMuteHolds, NextOpenMeansUnmuted, NextWorkOnlyWhileStarted,
   NextRoutingMatchesMode
DEF IInv, TypeOK

\* It holds in every reachable state.
THEOREM Invariance == Spec => []IInv
<1>1. Init => IInv
  BY InitIInv
<1>2. IInv /\ [Next]_vars => IInv'
  BY NextIInv
<1> QED
  BY <1>1, <1>2, PTL DEF Spec

\* The driver's state keeps its types, and the delay the range of its
\* attribute.
THEOREM TypeCorrect == Spec => []TypeOK
<1>1. IInv => TypeOK
  BY DEF IInv
<1> QED
  BY <1>1, Invariance, PTL

\* No task finds what it decided under mute_lock changed when it acts on it.
THEOREM LockRespected == Spec => []LockDiscipline
<1>1. IInv => LockDiscipline
  BY DEF IInv
<1> QED
  BY <1>1, Invariance, PTL

\* A user's mute is not lost while the driver grants the user priority.
THEOREM UserMuteKept == Spec => []UserMuteHolds
<1>1. IInv => UserMuteHolds
  BY DEF IInv
<1> QED
  BY <1>1, Invariance, PTL

\* Open lines are shown as not muted.
THEOREM NeverOpenBehindMixer == Spec => []OpenMeansUnmuted
<1>1. IInv => OpenMeansUnmuted
  BY DEF IInv
<1> QED
  BY <1>1, Invariance, PTL

\* No delayed unmute outlives the stream that scheduled it.
THEOREM NoLateUnmute == Spec => []WorkOnlyWhileStarted
<1>1. IInv => WorkOnlyWhileStarted
  BY DEF IInv
<1> QED
  BY <1>1, Invariance, PTL

\* The DSD pins are exchanged in DSD mode only, and then as the setting says.
THEOREM SwapOnlyInDsd == Spec => []RoutingMatchesMode
<1>1. IInv => RoutingMatchesMode
  BY DEF IInv
<1> QED
  BY <1>1, Invariance, PTL

\* Only the apply steps, the worker, a stop and a switch drive the lines, and
\* each that opens them is one of the justified three.
LEMMA StepJustified == IInv /\ [Next]_vars => UnmuteJustified
<1> SUFFICES ASSUME IInv, [Next]_vars PROVE UnmuteJustified
  OBVIOUS
<1>  TypeOK /\ LockDiscipline /\ WorkOnlyWhileStarted
  BY DEF IInv
<1> USE StreamIsTask DEF UnmuteJustified, LockDiscipline, TypeOK, FlagsOK, PositionsOK, 
                         WorkOnlyWhileStarted, Started, streamVars,
                         switchVars, userVars, workVars, flagVars, routingVars
<1>1. CASE WorkNext
  <2>1. CASE mute_post_work_start
    BY <2>1 DEF mute_post_work_start
  <2>2. CASE mute_post_work_test
    BY <2>2 DEF mute_post_work_test, WorkSkips, LockFree, MayUnmute
  <2>3. CASE mute_post_work_unmute
    BY <2>3 DEF mute_post_work_unmute
  <2> QED
    BY <1>1, <2>1, <2>2, <2>3 DEF WorkNext
<1>2. CASE \E p \in Tasks : SwitchNext(p)
  <2> PICK p \in Tasks : SwitchNext(p)
    BY <1>2
  <2>1. CASE MuteForSwitch(p)
    BY <2>1 DEF MuteForSwitch, WorkFinished
  <2>2. CASE FlipMode(p)
    BY <2>2 DEF FlipMode, Routing
  <2>3. CASE FinishSwitch(p)
    BY <2>3 DEF FinishSwitch
  <2> QED
    BY <2>1, <2>2, <2>3 DEF SwitchNext
<1>3. CASE StreamNext
  <2>1. ASSUME NEW dsd \in BOOLEAN, hw_params(dsd) PROVE UnmuteJustified
    BY <2>1 DEF hw_params, BeginSwitch, CancelPending, StreamFree
  <2>2. CASE trigger_start
    BY <2>2 DEF trigger_start, SchedulesUnmute, Canceling, StreamFree
  <2>3. CASE shutdown
    BY <2>3 DEF shutdown, Transition, StreamFree
  <2>4. CASE trigger_pause_push \/ trigger_pause_release
    BY <2>4 DEF trigger_pause_push, trigger_pause_release, Transition,
                StreamFree
  <2>5. CASE trigger_stop
    BY <2>5 DEF trigger_stop, CancelPending, StreamFree
  <2>6. CASE trigger_stop_locked
    BY <2>6 DEF trigger_stop_locked, WorkFinished, LockFree
  <2> QED
    BY <1>3, <2>1, <2>2, <2>3, <2>4, <2>5, <2>6 DEF StreamNext
<1>4. CASE UserNext
  <2>1. ASSUME NEW req \in {"mute", "unmute"}, mute_put(req) PROVE UnmuteJustified
    BY <2>1 DEF mute_put
  <2>2. ASSUME NEW req \in {"mute", "unmute"}, mute_store(req) PROVE UnmuteJustified
    BY <2>2 DEF mute_store, LockFree
  <2>3. CASE mute_put_flags
    BY <2>3 DEF mute_put_flags, LockFree
  <2>4. CASE mute_put_apply
    BY <2>4 DEF mute_put_apply, ApplyMute, CancelPending
  <2>5. CASE mute_store_apply
    BY <2>5 DEF mute_store_apply, ApplyMute, CancelPending
  <2>6. ASSUME NEW swap \in BOOLEAN, dsd_physical_swap_store(swap)
        PROVE  UnmuteJustified
    BY <2>6 DEF dsd_physical_swap_store, Routing
  <2>7. ASSUME NEW delay \in Delays, postmute_delay_ms_store(delay)
        PROVE  UnmuteJustified
    BY <2>7, DelaysAssumption
    DEF postmute_delay_ms_store, ValidDelay, MaxDelay
  <2>8. ASSUME NEW p \in Switchers, NEW dsd \in BOOLEAN,
               dsd_mode_manual_store(p, dsd)
        PROVE  UnmuteJustified
    BY <2>8, StreamAssumption
    DEF dsd_mode_manual_store, BeginSwitch, CancelPending, Tasks
  <2> QED
    BY <1>4, <2>1, <2>2, <2>3, <2>4, <2>5, <2>6, <2>7, <2>8 DEF UserNext
<1>5. CASE UNCHANGED vars
  BY <1>5 DEF vars
<1> QED
  BY <1>1, <1>2, <1>3, <1>4, <1>5 DEF Next

\* Every step that opens the lines is justified.
THEOREM EveryUnmuteJustified == Spec => OnlyJustifiedUnmute
<1>1. IInv /\ [Next]_vars => [UnmuteJustified]_vars
  BY StepJustified
<1> QED
  BY <1>1, Invariance, PTL DEF Spec, OnlyJustifiedUnmute

-----------------------------------------------------------------------------
(* The driver implements DacMute. *)

\* The state after probe is an initial state of DacMute.
LEMMA InitDac == Init => Dac!Init
BY DEF Init, Dac!Init, Started

\* A step that drives no line and changes no flag of the refinement mapping
\* stutters.
LEMMA DacStutters ==
  ASSUME UNCHANGED <<mute_gpio, user_mute_priority, mixer, sysfs, pcm,
                     format_change_mute>>
  PROVE  UNCHANGED Dac!vars
BY DEF Dac!vars, Started

\* The worker opens the DAC as DacMute lets the automation open it: it holds
\* mute_lock, so no user's request is under way, and its stream is started.
LEMMA WorkImplementsDac == IInv /\ WorkNext => [Dac!Next]_(Dac!vars)
<1> SUFFICES ASSUME IInv, WorkNext PROVE [Dac!Next]_(Dac!vars)
  OBVIOUS
<1> TypeOK /\ LockDiscipline /\ WorkOnlyWhileStarted
  BY DEF IInv
<1> USE DEF streamVars, switchVars, userVars, workVars, flagVars, routingVars
<1>1. CASE mute_post_work_start
  BY <1>1, DacStutters DEF mute_post_work_start
<1>2. CASE mute_post_work_test
  BY <1>2, DacStutters DEF mute_post_work_test
<1>3. CASE mute_post_work_unmute
  <2>1. Started /\ ~user_mute_priority /\ ~format_change_mute
    BY <1>3 DEF mute_post_work_unmute, LockDiscipline, WorkOnlyWhileStarted
  <2>2. mixer # "unmuting" /\ sysfs # "unmuting"
    BY <1>3 DEF mute_post_work_unmute, LockDiscipline, TypeOK, PositionsOK
  <2>3. Dac!AutomationOpens
    BY <1>3, <2>1, <2>2
    DEF mute_post_work_unmute, Dac!AutomationOpens, Started
  <2> QED
    BY <2>3 DEF Dac!Next
<1> QED
  BY <1>1, <1>2, <1>3 DEF WorkNext

\* The two ends of a format switch are the two ends of the settling time.
LEMMA SwitchImplementsDac ==
  ASSUME IInv, NEW p \in Tasks, SwitchNext(p)
  PROVE  [Dac!Next]_(Dac!vars)
<1> TypeOK /\ LockDiscipline /\ StreamDiscipline
  BY DEF IInv
<1> USE DEF streamVars, switchVars, userVars, workVars, flagVars, routingVars
<1>1. CASE MuteForSwitch(p)
  <2>1. mixer = "unmuting" \/ sysfs = "unmuting" => ~user_mute_priority
    BY DEF LockDiscipline
  <2>2. user_mute_priority \in BOOLEAN /\ mute_gpio \in BOOLEAN
    BY DEF TypeOK, FlagsOK
  <2>3. Dac!Settle
    BY <1>1, <2>1, <2>2 DEF MuteForSwitch, Dac!Settle, Started
  <2> QED
    BY <2>3 DEF Dac!Next
<1>2. CASE FlipMode(p)
  BY <1>2, DacStutters DEF FlipMode
<1>3. CASE FinishSwitch(p)
  <2>1. UNCHANGED Started
    BY <1>3 DEF FinishSwitch, Started, StreamDiscipline
  <2>2. Dac!Settled
    BY <1>3, <2>1 DEF FinishSwitch, Dac!Settled
  <2> QED
    BY <2>2 DEF Dac!Next
<1> QED
  BY <1>1, <1>2, <1>3 DEF SwitchNext

\* START and STOP are those of DacMute.  STOP leaves the lines alone in two
\* cases: in the settling time, and when a user's mute already drives them.
LEMMA StreamImplementsDac == IInv /\ StreamNext => [Dac!Next]_(Dac!vars)
<1> SUFFICES ASSUME IInv, StreamNext PROVE [Dac!Next]_(Dac!vars)
  OBVIOUS
<1> TypeOK /\ LockDiscipline /\ StreamDiscipline /\ UserMuteHolds
  BY DEF IInv
<1> USE DEF streamVars, switchVars, userVars, workVars, flagVars, routingVars
<1>1. ASSUME NEW dsd \in BOOLEAN, hw_params(dsd)
      PROVE  [Dac!Next]_(Dac!vars)
  BY <1>1 DEF hw_params, Dac!vars, Started
<1>2. CASE shutdown \/ trigger_pause_push \/ trigger_pause_release
  BY <1>2
  DEF shutdown, trigger_pause_push, trigger_pause_release, Transition,
      Dac!vars, Started
<1>3. CASE trigger_start
  <2>1. Dac!Start
    BY <1>3 DEF trigger_start, Dac!Start, Started
  <2> QED
    BY <2>1 DEF Dac!Next
<1>4. CASE trigger_stop
  BY <1>4, DacStutters DEF trigger_stop
<1>5. CASE trigger_stop_locked
  <2>1. Started /\ ~Started'
    BY <1>5 DEF trigger_stop_locked, StreamDiscipline, Started
  <2>2. user_mute_priority => mute_gpio
    BY <1>5 DEF trigger_stop_locked, LockFree, LockDiscipline, UserMuteHolds
  <2>3. mute_gpio' = (mute_gpio \/ ~format_change_mute)
    BY <1>5, <2>2 DEF trigger_stop_locked, StopMutes, TypeOK, FlagsOK
  <2>4. Dac!Stop
    BY <1>5, <2>1, <2>2, <2>3
    DEF trigger_stop_locked, Dac!Stop, TypeOK, FlagsOK
  <2> QED
    BY <2>4 DEF Dac!Next
<1> QED
  BY <1>1, <1>2, <1>3, <1>4, <1>5 DEF StreamNext

\* A user's mute takes hold when the lines are driven; an unmute ends the hold
\* when the flag is cleared and opens the DAC when the lines are driven.
LEMMA UserImplementsDac == IInv /\ UserNext => [Dac!Next]_(Dac!vars)
<1> SUFFICES ASSUME IInv, UserNext PROVE [Dac!Next]_(Dac!vars)
  OBVIOUS
<1> TypeOK /\ LockDiscipline
  BY DEF IInv
<1> USE DEF streamVars, switchVars, userVars, workVars, flagVars, routingVars
<1>1. ASSUME NEW req \in {"mute", "unmute"}, mute_put(req)
      PROVE  [Dac!Next]_(Dac!vars)
  BY <1>1 DEF mute_put, Dac!vars, Started
<1>2. ASSUME NEW req \in {"mute", "unmute"}, mute_store(req)
      PROVE  [Dac!Next]_(Dac!vars)
  <2>1. mixer # "unmuting" /\ sysfs = "none"
    BY <1>2 DEF mute_store, LockFree, LockDiscipline
  <2>2. CASE UNCHANGED <<sysfs, user_mute_priority>>
    BY <1>2, <2>2, DacStutters DEF mute_store
  <2>3. CASE sysfs' = "muting" /\ user_mute_priority'
    <3>1. CASE mute_gpio
      <4>1. Dac!UserMutes
        BY <1>2, <2>1, <2>3, <3>1 DEF mute_store, Dac!UserMutes, Started
      <4> QED
        BY <4>1 DEF Dac!Next
    <3>2. CASE ~mute_gpio
      BY <1>2, <2>1, <2>3, <3>2 DEF mute_store, Dac!vars, Started
    <3> QED
      BY <3>1, <3>2
  <2>4. CASE sysfs' = "unmuting" /\ ~user_mute_priority'
    <3>1. Dac!UserAsks
      BY <1>2, <2>1, <2>4 DEF mute_store, Dac!UserAsks, Started
    <3> QED
      BY <3>1 DEF Dac!Next
  <2> QED
    BY <1>2, <2>2, <2>3, <2>4 DEF mute_store
<1>3. CASE mute_put_flags
  <2>1. mixer # "unmuting" /\ sysfs = "none"
    BY <1>3 DEF mute_put_flags, LockFree, LockDiscipline
  <2>2. CASE mixer = "mute"
    <3>1. mixer' = "muting" /\ user_mute_priority'
      BY <1>3, <2>2 DEF mute_put_flags
    <3>2. CASE mute_gpio
      <4>1. Dac!UserMutes
        BY <1>3, <2>1, <3>1, <3>2 DEF mute_put_flags, Dac!UserMutes, Started
      <4> QED
        BY <4>1 DEF Dac!Next
    <3>3. CASE ~mute_gpio
      BY <1>3, <2>1, <3>1, <3>3 DEF mute_put_flags, Dac!vars, Started
    <3> QED
      BY <3>2, <3>3
  <2>3. CASE mixer = "unmute"
    <3>1. ~user_mute_priority'
      BY <1>3, <2>3 DEF mute_put_flags
    <3>2. Dac!UserAsks
      BY <1>3, <2>1, <3>1 DEF mute_put_flags, Dac!UserAsks, Started
    <3> QED
      BY <3>2 DEF Dac!Next
  <2> QED
    BY <1>3, <2>2, <2>3 DEF mute_put_flags
<1>4. CASE mute_put_apply
  <2>1. CASE mixer = "muting"
    <3>1. user_mute_priority /\ sysfs = "none"
      BY <2>1 DEF LockDiscipline
    <3>2. mute_gpio' /\ user_mute_priority'
      BY <1>4, <2>1, <3>1 DEF mute_put_apply, ApplyMute
    <3>3. Dac!UserMutes
      BY <1>4, <2>1, <3>1, <3>2 DEF mute_put_apply, Dac!UserMutes, Started
    <3> QED
      BY <3>3 DEF Dac!Next
  <2>2. CASE mixer = "unmuting"
    <3>1. ~user_mute_priority /\ sysfs = "none"
      BY <2>2 DEF LockDiscipline
    <3>2. ~mute_gpio' /\ ~user_mute_priority'
      BY <1>4, <2>2, <3>1 DEF mute_put_apply, ApplyMute
    <3>3. Dac!UserOpens
      BY <1>4, <2>2, <3>1, <3>2 DEF mute_put_apply, Dac!UserOpens, Started
    <3> QED
      BY <3>3 DEF Dac!Next
  <2> QED
    BY <1>4, <2>1, <2>2 DEF mute_put_apply
<1>5. CASE mute_store_apply
  <2>1. CASE sysfs = "muting"
    <3>1. user_mute_priority /\ mixer # "unmuting"
      BY <2>1 DEF LockDiscipline
    <3>2. mute_gpio' /\ user_mute_priority'
      BY <1>5, <2>1, <3>1 DEF mute_store_apply, ApplyMute
    <3>3. Dac!UserMutes
      BY <1>5, <2>1, <3>1, <3>2 DEF mute_store_apply, Dac!UserMutes, Started
    <3> QED
      BY <3>3 DEF Dac!Next
  <2>2. CASE sysfs = "unmuting"
    <3>1. ~user_mute_priority /\ mixer # "unmuting"
      BY <2>2 DEF LockDiscipline
    <3>2. ~mute_gpio' /\ ~user_mute_priority'
      BY <1>5, <2>2, <3>1 DEF mute_store_apply, ApplyMute
    <3>3. Dac!UserOpens
      BY <1>5, <2>2, <3>1, <3>2 DEF mute_store_apply, Dac!UserOpens, Started
    <3> QED
      BY <3>3 DEF Dac!Next
  <2> QED
    BY <1>5, <2>1, <2>2 DEF mute_store_apply, TypeOK, PositionsOK
<1>6. ASSUME NEW swap \in BOOLEAN, dsd_physical_swap_store(swap)
      PROVE  [Dac!Next]_(Dac!vars)
  BY <1>6, DacStutters DEF dsd_physical_swap_store
<1>7. ASSUME NEW delay \in Delays, postmute_delay_ms_store(delay)
      PROVE  [Dac!Next]_(Dac!vars)
  BY <1>7, DacStutters DEF postmute_delay_ms_store
<1>8. ASSUME NEW p \in Switchers, NEW dsd \in BOOLEAN,
             dsd_mode_manual_store(p, dsd)
      PROVE  [Dac!Next]_(Dac!vars)
  BY <1>8, DacStutters DEF dsd_mode_manual_store
<1> QED
  BY <1>1, <1>2, <1>3, <1>4, <1>5, <1>6, <1>7, <1>8 DEF UserNext

\* A user's mute in force keeps the DAC closed, no older request to unmute
\* comes after it, and the automation opens the DAC only for a started stream
\* outside the settling time of a format switch.
THEOREM ImplementsDacMute == Spec => DacMuteSpec
<1>1. Init => Dac!Init
  BY InitDac
<1>2. IInv /\ [Next]_vars => [Dac!Next]_(Dac!vars)
  <2> SUFFICES ASSUME IInv, [Next]_vars PROVE [Dac!Next]_(Dac!vars)
    OBVIOUS
  <2>1. CASE UNCHANGED vars
    BY <2>1, DacStutters DEF vars
  <2> QED
    BY <2>1, WorkImplementsDac, SwitchImplementsDac, StreamImplementsDac,
       UserImplementsDac
    DEF Next
<1> QED
  BY <1>1, <1>2, Invariance, PTL DEF Spec, DacMuteSpec, Dac!Spec
=============================================================================
