------------------------------- MODULE I2sXfer -------------------------------
(***************************************************************************)
(* Transfer and DMA control of the I2S/TDM sound driver                    *)
(* (linux_rv1106.patch): what the PCM triggers, hw_params and the platform *)
(* device's shutdown do to the transfer bits, the DMA requests and the     *)
(* reference count.  With clk-trcm the streams share one clock, which runs *)
(* while one of them is started; a pause stops it without being counted.   *)
(*                                                                         *)
(* A call does not sleep between its writes and the triggers run with      *)
(* interrupts off on a uniprocessor kernel: one call is one step.  The     *)
(* mute part of the triggers is the subject of I2sMute.  No shipped device *)
(* tree sets the quirk always-on and the kernel has no system sleep: those *)
(* branches are left out.  The PCM core is external: it releases a paused  *)
(* stream before it stops it.                                              *)
(***************************************************************************)
EXTENDS Integers

CONSTANT Connected   \* the streams for which the device has a PCM

Streams == {"playback", "capture"}

ASSUME ConnectedAssumption == Connected \subseteq Streams

VARIABLES
  clk_trcm,  \* the device tree's clk-trcm, fixed by probe
  up,        \* platform_shutdown has not been called
  pcm,       \* state of each stream's PCM runtime, CLOSED: substreams[s] = NULL
  paused,    \* playback_paused and capture_paused
  hw         \* the reference count, the DMA requests and the transfer bits

vars == <<clk_trcm, up, pcm, paused, hw>>

\* Type invariant.  platform_shutdown may count below zero.
TypeOK ==
  /\ clk_trcm \in BOOLEAN /\ up \in BOOLEAN
  /\ pcm \in [Streams -> {"CLOSED", "OPEN", "SETUP", "RUNNING", "PAUSED"}]
  /\ paused \in [Streams -> BOOLEAN]
  /\ hw \in [refcount : -2 .. 2,
             dma : [Streams -> BOOLEAN], xfer : [Streams -> BOOLEAN]]

AllOff == [s \in Streams |-> FALSE]

Init ==
  /\ clk_trcm \in BOOLEAN /\ up = TRUE
  /\ pcm = [s \in Streams |-> "CLOSED"]
  /\ paused = AllOff
  /\ hw = [refcount |-> 0, dma |-> AllOff, xfer |-> AllOff]

-----------------------------------------------------------------------------
(* The helpers, as functions of the hardware's state. *)

Other(s) == IF s = "playback" THEN "capture" ELSE "playback"

dma_ctrl(h, s, en) == [h EXCEPT !.dma[s] = en]

\* With the shared clock both transfer bits are written.
SetXfer(h, s, on) ==
  [h EXCEPT !.xfer = [t \in Streams |->
                        IF clk_trcm \/ t = s THEN on ELSE h.xfer[t]]]

xfer_start(h, s) == SetXfer(h, s, TRUE)
xfer_stop(h, s)  == SetXfer(h, s, FALSE)

xfer_trcm_start(h) ==
  LET g == [h EXCEPT !.refcount = @ + 1]
  IN  IF g.refcount = 1 THEN xfer_start(g, "playback") ELSE g

xfer_trcm_stop(h) ==
  LET g == [h EXCEPT !.refcount = @ - 1]
  IN  IF g.refcount = 0 THEN xfer_stop(g, "playback") ELSE g

trcm_pause(h, s) ==
  xfer_stop(dma_ctrl(dma_ctrl(h, s, FALSE), Other(s), FALSE), Other(s))

\* mutant: the other stream's DMA is not brought back
ResumeXferOnly(h, s) == xfer_start(h, Other(s))

trcm_resume(h, s) == xfer_start(dma_ctrl(h, Other(s), TRUE), Other(s))

start(h, s) ==
  LET g == dma_ctrl(h, s, TRUE)
  IN  IF clk_trcm THEN xfer_trcm_start(g) ELSE xfer_start(g, s)

stop(h, s) ==
  dma_ctrl(IF clk_trcm THEN xfer_trcm_stop(h) ELSE xfer_stop(h, s), s, FALSE)

\* mutant: pause counts the stream out
PauseCounts(h, s) == dma_ctrl(xfer_trcm_stop(h), s, FALSE)

pause(h, s) ==
  LET g == dma_ctrl(h, s, FALSE)
  IN  IF clk_trcm THEN trcm_pause(g, s) ELSE xfer_stop(g, s)

\* mutant: resume counts the stream in
ResumeCounts(h, s) == dma_ctrl(xfer_trcm_start(h), s, TRUE)

resume(h, s) ==
  dma_ctrl(IF clk_trcm THEN trcm_resume(h, s) ELSE xfer_start(h, s), s, TRUE)

\* The clock is stopped around a change of the divisors if a stream uses it.
params_trcm(h, s) ==
  IF h.refcount # 0 THEN trcm_resume(trcm_pause(h, s), s) ELSE h

-----------------------------------------------------------------------------
(* The calls. *)

Move(s, from, to) ==
  /\ up /\ pcm[s] \in from
  /\ pcm' = [pcm EXCEPT ![s] = to]
  /\ UNCHANGED <<clk_trcm, up>>

SetPaused(s, flag) == paused' = [paused EXCEPT ![s] = flag]

\* startup and shutdown of the DAI.
Startup(s)  == Move(s, {"CLOSED"}, "OPEN") /\ UNCHANGED <<paused, hw>>
Shutdown(s) == Move(s, {"OPEN", "SETUP"}, "CLOSED") /\ UNCHANGED <<paused, hw>>

\* hw_params writes nothing unless a divisor or the format differs from the
\* registers' (is_params_dirty).
HwParams(s) ==
  /\ Move(s, {"OPEN", "SETUP"}, "SETUP")
  /\ hw' \in {hw, IF clk_trcm THEN params_trcm(hw, s)
                               ELSE IF hw.xfer[s] THEN xfer_stop(hw, s) ELSE hw}
  /\ UNCHANGED paused

\* TRIGGER_START
TriggerStart(s) ==
  /\ Move(s, {"SETUP"}, "RUNNING")
  /\ SetPaused(s, FALSE)
  /\ hw' = start(hw, s)

\* TRIGGER_STOP, also of an underrun.
TriggerStop(s) ==
  /\ Move(s, {"RUNNING"}, "SETUP")
  /\ SetPaused(s, FALSE)
  /\ hw' = stop(hw, s)

\* TRIGGER_PAUSE_PUSH
PausePush(s) ==
  /\ Move(s, {"RUNNING"}, "PAUSED")
  /\ SetPaused(s, TRUE)
  /\ hw' = IF paused[s] THEN hw ELSE pause(hw, s)

\* TRIGGER_PAUSE_RELEASE
PauseRelease(s) ==
  /\ Move(s, {"PAUSED"}, "RUNNING")
  /\ SetPaused(s, FALSE)
  /\ hw' = IF paused[s] THEN resume(hw, s) ELSE hw

\* mutant: only playback is stopped
StopsPlayback(h) == stop(h, "playback")

StopsBoth(h) == stop(stop(h, "playback"), "capture")

\* The last call to the driver before the board restarts.
platform_shutdown ==
  /\ up /\ up' = FALSE
  /\ hw' = StopsBoth(hw)
  /\ UNCHANGED <<clk_trcm, pcm, paused>>

StreamCall(s) ==
  \/ Startup(s) \/ HwParams(s) \/ Shutdown(s)
  \/ TriggerStart(s) \/ TriggerStop(s)
  \/ PausePush(s) \/ PauseRelease(s)

Next == (\E s \in Connected : StreamCall(s)) \/ platform_shutdown

Spec == Init /\ [][Next]_vars

-----------------------------------------------------------------------------
(* Properties. *)

Started(s) == pcm[s] \in {"RUNNING", "PAUSED"}
Count(s)   == IF Started(s) THEN 1 ELSE 0

\* The reference count of the shared clock is the number of started streams,
\* paused ones included: no sequence of starts, stops, pauses and releases of
\* two streams leaves it off by one, which would keep the clock running for
\* ever or never start it again.
RefcountCounts ==
  up => hw.refcount =
          (IF clk_trcm THEN Count("playback") + Count("capture") ELSE 0)

\* As long as no stream is paused, every running stream has its DMA and its
\* transfer on: neither the other stream's stop, hw_params or release nor the
\* order in which they start and stop silences it.
RunningFlows ==
  up /\ paused = AllOff =>
    \A s \in Streams : pcm[s] = "RUNNING" => hw.dma[s] /\ hw.xfer[s]

\* Without a started stream no transfer goes on, and after platform_shutdown
\* neither a transfer nor a DMA request does, whichever streams were started
\* or paused, although it stops streams that were never started.
QuietAtRest ==
  /\ (\A s \in Streams : ~Started(s)) => hw.xfer = AllOff
  /\ ~up => hw.xfer = AllOff /\ hw.dma = AllOff
=============================================================================
