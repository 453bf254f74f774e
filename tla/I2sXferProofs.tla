---------------------------- MODULE I2sXferProofs ----------------------------
(***************************************************************************)
(* Proofs about I2sXfer: its type invariant and its three safety           *)
(* invariants, for every set of connected streams and for both ways of     *)
(* clocking them.                                                          *)
(***************************************************************************)
EXTENDS I2sXfer, TLAPS

-----------------------------------------------------------------------------
(* What the helpers do to each part of the hardware's state. *)

Hw == [refcount : Int, dma : [Streams -> BOOLEAN], xfer : [Streams -> BOOLEAN]]

AllOn == [t \in Streams |-> TRUE]

LEMMA OtherFacts ==
  /\ \A s \in Streams : Other(s) \in Streams /\ Other(s) # s
  /\ \A s, t \in Streams : t = s \/ t = Other(s)
BY DEF Streams, Other

\* dma_ctrl writes one DMA request.
LEMMA DmaFacts ==
  ASSUME NEW h \in Hw, NEW s \in Streams
  PROVE  /\ dma_ctrl(h, s, TRUE) \in Hw
         /\ dma_ctrl(h, s, TRUE).refcount = h.refcount
         /\ dma_ctrl(h, s, TRUE).xfer = h.xfer
         /\ dma_ctrl(h, s, TRUE).dma = [h.dma EXCEPT ![s] = TRUE]
         /\ dma_ctrl(h, s, FALSE) \in Hw
         /\ dma_ctrl(h, s, FALSE).refcount = h.refcount
         /\ dma_ctrl(h, s, FALSE).xfer = h.xfer
         /\ dma_ctrl(h, s, FALSE).dma = [h.dma EXCEPT ![s] = FALSE]
BY DEF dma_ctrl, Hw

\* SetXfer writes one transfer bit, or both with the shared clock.
LEMMA SetXferFacts ==
  ASSUME NEW h \in Hw, NEW s \in Streams, NEW on \in BOOLEAN
  PROVE  /\ SetXfer(h, s, on) \in Hw
         /\ SetXfer(h, s, on).refcount = h.refcount
         /\ SetXfer(h, s, on).dma = h.dma
         /\ clk_trcm => SetXfer(h, s, on).xfer = [t \in Streams |-> on]
         /\ ~clk_trcm => SetXfer(h, s, on).xfer = [h.xfer EXCEPT ![s] = on]
<1>1. \A t \in Streams : (IF clk_trcm \/ t = s THEN on ELSE h.xfer[t]) \in BOOLEAN
  BY DEF Hw
<1> QED
  BY <1>1 DEF SetXfer, Hw

\* Starting a transfer bit and stopping it, under the names in the code.
LEMMA XferFacts ==
  ASSUME NEW h \in Hw, NEW s \in Streams
  PROVE  /\ xfer_start(h, s) \in Hw
         /\ xfer_start(h, s).refcount = h.refcount
         /\ xfer_start(h, s).dma = h.dma
         /\ clk_trcm => xfer_start(h, s).xfer = AllOn
         /\ ~clk_trcm => xfer_start(h, s).xfer = [h.xfer EXCEPT ![s] = TRUE]
         /\ xfer_stop(h, s) \in Hw
         /\ xfer_stop(h, s).refcount = h.refcount
         /\ xfer_stop(h, s).dma = h.dma
         /\ clk_trcm => xfer_stop(h, s).xfer = AllOff
         /\ ~clk_trcm => xfer_stop(h, s).xfer = [h.xfer EXCEPT ![s] = FALSE]
BY SetXferFacts, Zenon DEF xfer_start, xfer_stop, AllOn, AllOff

LEMMA TrcmStartFacts ==
  ASSUME NEW h \in Hw, clk_trcm
  PROVE  /\ xfer_trcm_start(h) \in Hw
         /\ xfer_trcm_start(h).refcount = h.refcount + 1
         /\ xfer_trcm_start(h).dma = h.dma
         /\ h.refcount = 0 => xfer_trcm_start(h).xfer = AllOn
         /\ h.refcount # 0 => xfer_trcm_start(h).xfer = h.xfer
<1> DEFINE g == [h EXCEPT !.refcount = h.refcount + 1]
<1>1. /\ g \in Hw /\ g.refcount = h.refcount + 1
      /\ g.dma = h.dma /\ g.xfer = h.xfer
      /\ (g.refcount = 1) = (h.refcount = 0)
  BY DEF Hw
<1>2. "playback" \in Streams
  BY DEF Streams
<1>3. xfer_trcm_start(h) =
        IF g.refcount = 1 THEN xfer_start(g, "playback") ELSE g
  BY DEF xfer_trcm_start
<1> HIDE DEF g
<1> QED
  BY <1>1, <1>2, <1>3, XferFacts, Zenon

LEMMA TrcmStopFacts ==
  ASSUME NEW h \in Hw, clk_trcm
  PROVE  /\ xfer_trcm_stop(h) \in Hw
         /\ xfer_trcm_stop(h).refcount = h.refcount - 1
         /\ xfer_trcm_stop(h).dma = h.dma
         /\ h.refcount = 1 => xfer_trcm_stop(h).xfer = AllOff
         /\ h.refcount # 1 => xfer_trcm_stop(h).xfer = h.xfer
<1> DEFINE g == [h EXCEPT !.refcount = h.refcount - 1]
<1>1. /\ g \in Hw /\ g.refcount = h.refcount - 1
      /\ g.dma = h.dma /\ g.xfer = h.xfer
      /\ (g.refcount = 0) = (h.refcount = 1)
  BY DEF Hw
<1>2. "playback" \in Streams
  BY DEF Streams
<1>3. xfer_trcm_stop(h) =
        IF g.refcount = 0 THEN xfer_stop(g, "playback") ELSE g
  BY DEF xfer_trcm_stop
<1> HIDE DEF g
<1> QED
  BY <1>1, <1>2, <1>3, XferFacts, Zenon

\* start: the stream's DMA, and the shared clock if it is the first.
LEMMA StartFacts ==
  ASSUME NEW h \in Hw, NEW s \in Streams
  PROVE  /\ start(h, s) \in Hw
         /\ start(h, s).dma = [h.dma EXCEPT ![s] = TRUE]
         /\ clk_trcm =>
              /\ start(h, s).refcount = h.refcount + 1
              /\ h.refcount = 0 => start(h, s).xfer = AllOn
              /\ h.refcount # 0 => start(h, s).xfer = h.xfer
         /\ ~clk_trcm =>
              /\ start(h, s).refcount = h.refcount
              /\ start(h, s).xfer = [h.xfer EXCEPT ![s] = TRUE]
<1> DEFINE g == dma_ctrl(h, s, TRUE)
<1>1. /\ g \in Hw /\ g.refcount = h.refcount /\ g.xfer = h.xfer
      /\ g.dma = [h.dma EXCEPT ![s] = TRUE]
  BY DmaFacts, Zenon
<1>2. CASE clk_trcm
  <2>1. start(h, s) = xfer_trcm_start(g)
    BY <1>2 DEF start
  <2> HIDE DEF g
  <2> QED
    BY <1>1, <1>2, <2>1, TrcmStartFacts, Zenon
<1>3. CASE ~clk_trcm
  <2>1. start(h, s) = xfer_start(g, s)
    BY <1>3 DEF start
  <2> HIDE DEF g
  <2>2. /\ xfer_start(g, s) \in Hw
        /\ xfer_start(g, s).refcount = g.refcount
        /\ xfer_start(g, s).dma = g.dma
        /\ xfer_start(g, s).xfer = [g.xfer EXCEPT ![s] = TRUE]
    BY <1>1, <1>3, XferFacts, Zenon
  <2> QED
    BY <1>1, <1>3, <2>1, <2>2
<1> QED
  BY <1>2, <1>3

\* stop: the shared clock if it is the last, then the stream's DMA.
LEMMA StopFacts ==
  ASSUME NEW h \in Hw, NEW s \in Streams
  PROVE  /\ stop(h, s) \in Hw
         /\ stop(h, s).dma = [h.dma EXCEPT ![s] = FALSE]
         /\ clk_trcm =>
              /\ stop(h, s).refcount = h.refcount - 1
              /\ h.refcount = 1 => stop(h, s).xfer = AllOff
              /\ h.refcount # 1 => stop(h, s).xfer = h.xfer
         /\ ~clk_trcm =>
              /\ stop(h, s).refcount = h.refcount
              /\ stop(h, s).xfer = [h.xfer EXCEPT ![s] = FALSE]
<1>1. CASE clk_trcm
  <2> DEFINE g == xfer_trcm_stop(h)
  <2>1. stop(h, s) = dma_ctrl(g, s, FALSE)
    BY <1>1 DEF stop
  <2>2. /\ g \in Hw /\ g.refcount = h.refcount - 1 /\ g.dma = h.dma
        /\ h.refcount = 1 => g.xfer = AllOff
        /\ h.refcount # 1 => g.xfer = h.xfer
    BY <1>1, TrcmStopFacts, Zenon
  <2> HIDE DEF g
  <2>3. /\ dma_ctrl(g, s, FALSE) \in Hw
        /\ dma_ctrl(g, s, FALSE).refcount = g.refcount
        /\ dma_ctrl(g, s, FALSE).dma = [g.dma EXCEPT ![s] = FALSE]
        /\ dma_ctrl(g, s, FALSE).xfer = g.xfer
    BY <2>2, DmaFacts, Zenon
  <2> QED
    BY <1>1, <2>1, <2>2, <2>3
<1>2. CASE ~clk_trcm
  <2> DEFINE g == xfer_stop(h, s)
  <2>1. stop(h, s) = dma_ctrl(g, s, FALSE)
    BY <1>2 DEF stop
  <2>2. /\ g \in Hw /\ g.refcount = h.refcount /\ g.dma = h.dma
        /\ g.xfer = [h.xfer EXCEPT ![s] = FALSE]
    BY <1>2, XferFacts, Zenon
  <2> HIDE DEF g
  <2>3. /\ dma_ctrl(g, s, FALSE) \in Hw
        /\ dma_ctrl(g, s, FALSE).refcount = g.refcount
        /\ dma_ctrl(g, s, FALSE).dma = [g.dma EXCEPT ![s] = FALSE]
        /\ dma_ctrl(g, s, FALSE).xfer = g.xfer
    BY <2>2, DmaFacts, Zenon
  <2> QED
    BY <1>2, <2>1, <2>2, <2>3
<1> QED
  BY <1>1, <1>2

\* trcm_pause silences both streams and stops their clock.
LEMMA TrcmPauseFacts ==
  ASSUME NEW h \in Hw, NEW s \in Streams, clk_trcm
  PROVE  /\ trcm_pause(h, s) \in Hw
         /\ trcm_pause(h, s).refcount = h.refcount
         /\ trcm_pause(h, s).xfer = AllOff
<1> DEFINE a == dma_ctrl(h, s, FALSE)
           b == dma_ctrl(a, Other(s), FALSE)
<1>1. a \in Hw /\ a.refcount = h.refcount
  BY DmaFacts, Zenon
<1>2. b \in Hw /\ b.refcount = h.refcount
  BY <1>1, DmaFacts, OtherFacts, Zenon
<1>3. trcm_pause(h, s) = xfer_stop(b, Other(s))
  BY DEF trcm_pause
<1> HIDE DEF a, b
<1> QED
  <2>1. Other(s) \in Streams
    BY OtherFacts
  <2>2. /\ xfer_stop(b, Other(s)) \in Hw
        /\ xfer_stop(b, Other(s)).refcount = h.refcount
        /\ xfer_stop(b, Other(s)).xfer = AllOff
    BY <1>2, <2>1, XferFacts, Zenon
  <2> QED
    BY <1>3, <2>2

\* trcm_resume brings back the other stream's DMA and the clock.
LEMMA TrcmResumeFacts ==
  ASSUME NEW h \in Hw, NEW s \in Streams, clk_trcm
  PROVE  /\ trcm_resume(h, s) \in Hw
         /\ trcm_resume(h, s).refcount = h.refcount
         /\ trcm_resume(h, s).dma = [h.dma EXCEPT ![Other(s)] = TRUE]
         /\ trcm_resume(h, s).xfer = AllOn
<1> DEFINE a == dma_ctrl(h, Other(s), TRUE)
<1>1. /\ a \in Hw /\ a.refcount = h.refcount
      /\ a.dma = [h.dma EXCEPT ![Other(s)] = TRUE]
  BY DmaFacts, OtherFacts, Zenon
<1>2. trcm_resume(h, s) = xfer_start(a, Other(s))
  BY DEF trcm_resume
<1> HIDE DEF a
<1> QED
  <2>1. Other(s) \in Streams
    BY OtherFacts
  <2>2. /\ xfer_start(a, Other(s)) \in Hw
        /\ xfer_start(a, Other(s)).refcount = h.refcount
        /\ xfer_start(a, Other(s)).dma = [h.dma EXCEPT ![Other(s)] = TRUE]
        /\ xfer_start(a, Other(s)).xfer = AllOn
    BY <1>1, <2>1, XferFacts, Zenon
  <2> QED
    BY <1>2, <2>2

LEMMA PauseFacts ==
  ASSUME NEW h \in Hw, NEW s \in Streams
  PROVE  /\ pause(h, s) \in Hw
         /\ pause(h, s).refcount = h.refcount
         /\ clk_trcm => pause(h, s).xfer = AllOff
         /\ ~clk_trcm => /\ pause(h, s).xfer = [h.xfer EXCEPT ![s] = FALSE]
                         /\ pause(h, s).dma = [h.dma EXCEPT ![s] = FALSE]
<1> DEFINE a == dma_ctrl(h, s, FALSE)
<1>1. /\ a \in Hw /\ a.refcount = h.refcount /\ a.xfer = h.xfer
      /\ a.dma = [h.dma EXCEPT ![s] = FALSE]
  BY DmaFacts, Zenon
<1>2. pause(h, s) = IF clk_trcm THEN trcm_pause(a, s) ELSE xfer_stop(a, s)
  BY DEF pause
<1> HIDE DEF a
<1>3. CASE clk_trcm
  BY <1>1, <1>2, <1>3, TrcmPauseFacts, Zenon
<1>4. CASE ~clk_trcm
  <2>1. /\ xfer_stop(a, s) \in Hw
        /\ xfer_stop(a, s).refcount = a.refcount
        /\ xfer_stop(a, s).dma = a.dma
        /\ xfer_stop(a, s).xfer = [a.xfer EXCEPT ![s] = FALSE]
    BY <1>1, <1>4, XferFacts, Zenon
  <2> QED
    BY <1>1, <1>2, <1>4, <2>1
<1> QED
  BY <1>3, <1>4

LEMMA ResumeFacts ==
  ASSUME NEW h \in Hw, NEW s \in Streams
  PROVE  /\ resume(h, s) \in Hw
         /\ resume(h, s).refcount = h.refcount
         /\ clk_trcm => resume(h, s).xfer = AllOn /\ resume(h, s).dma = AllOn
         /\ ~clk_trcm => /\ resume(h, s).xfer = [h.xfer EXCEPT ![s] = TRUE]
                         /\ resume(h, s).dma = [h.dma EXCEPT ![s] = TRUE]
<1>1. CASE clk_trcm
  <2> DEFINE a == trcm_resume(h, s)
  <2>1. /\ a \in Hw /\ a.refcount = h.refcount /\ a.xfer = AllOn
        /\ a.dma = [h.dma EXCEPT ![Other(s)] = TRUE]
    BY <1>1, TrcmResumeFacts, Zenon
  <2>2. resume(h, s) = dma_ctrl(a, s, TRUE)
    BY <1>1 DEF resume
  <2> HIDE DEF a
  <2>3. [a.dma EXCEPT ![s] = TRUE] = AllOn
    <3>1. h.dma \in [Streams -> BOOLEAN]
      BY DEF Hw
    <3>2. ASSUME NEW t \in Streams
          PROVE  [a.dma EXCEPT ![s] = TRUE][t] = TRUE
      BY <2>1, <3>1, OtherFacts
    <3>3. DOMAIN [a.dma EXCEPT ![s] = TRUE] = Streams
      BY <2>1, <3>1
    <3> QED
      BY <3>2, <3>3, <2>1, <3>1, Zenon DEF AllOn
  <2>4. /\ dma_ctrl(a, s, TRUE) \in Hw
        /\ dma_ctrl(a, s, TRUE).refcount = h.refcount
        /\ dma_ctrl(a, s, TRUE).dma = AllOn
        /\ dma_ctrl(a, s, TRUE).xfer = AllOn
    BY <2>1, <2>3, DmaFacts, Zenon
  <2> QED
    BY <1>1, <2>2, <2>4
<1>2. CASE ~clk_trcm
  <2> DEFINE a == xfer_start(h, s)
  <2>1. resume(h, s) = dma_ctrl(a, s, TRUE)
    BY <1>2 DEF resume
  <2>2. /\ a \in Hw /\ a.refcount = h.refcount /\ a.dma = h.dma
        /\ a.xfer = [h.xfer EXCEPT ![s] = TRUE]
    BY <1>2, XferFacts, Zenon
  <2> HIDE DEF a
  <2>3. /\ dma_ctrl(a, s, TRUE) \in Hw
        /\ dma_ctrl(a, s, TRUE).refcount = h.refcount
        /\ dma_ctrl(a, s, TRUE).dma = [a.dma EXCEPT ![s] = TRUE]
        /\ dma_ctrl(a, s, TRUE).xfer = a.xfer
    BY <2>2, DmaFacts, Zenon
  <2> QED
    BY <1>2, <2>1, <2>2, <2>3
<1> QED
  BY <1>1, <1>2

\* params_trcm: if a stream uses the clock, the other stream ends up with its
\* DMA and the clock on.
LEMMA ParamsFacts ==
  ASSUME NEW h \in Hw, NEW s \in Streams, clk_trcm
  PROVE  /\ params_trcm(h, s) \in Hw
         /\ params_trcm(h, s).refcount = h.refcount
         /\ h.refcount = 0 => params_trcm(h, s) = h
         /\ h.refcount # 0 => params_trcm(h, s).xfer = AllOn
         /\ h.refcount # 0 => params_trcm(h, s).dma[Other(s)]
<1> DEFINE a == trcm_pause(h, s)
           b == trcm_resume(a, s)
<1>1. a \in Hw /\ a.refcount = h.refcount
  BY TrcmPauseFacts, Zenon
<1>2. /\ b \in Hw /\ b.refcount = h.refcount /\ b.xfer = AllOn
      /\ b.dma = [a.dma EXCEPT ![Other(s)] = TRUE]
  BY <1>1, TrcmResumeFacts, Zenon
<1>3. params_trcm(h, s) = IF h.refcount # 0 THEN b ELSE h
  BY DEF params_trcm
<1> HIDE DEF a, b
<1>4. b.dma[Other(s)]
  BY <1>1, <1>2, OtherFacts DEF Hw
<1> QED
  BY <1>2, <1>3, <1>4, Zenon

-----------------------------------------------------------------------------
(* The inductive invariant. *)

\* The driver's pause flags agree with the PCM core's states.
PausedAgrees == \A s \in Streams : paused[s] <=> pcm[s] = "PAUSED"

\* With the shared clock the transfer bits are equal; without it a stream's
\* own bit and DMA request follow its state.
Clocking ==
  /\ clk_trcm => hw.xfer["playback"] <=> hw.xfer["capture"]
  /\ ~clk_trcm /\ up =>
       \A s \in Streams : /\ hw.xfer[s] <=> pcm[s] = "RUNNING"
                          /\ pcm[s] = "RUNNING" => hw.dma[s]

XferInv ==
  TypeOK /\ PausedAgrees /\ Clocking
    /\ RefcountCounts /\ RunningFlows /\ QuietAtRest

LEMMA XferInit == Init => XferInv
<1> SUFFICES ASSUME Init PROVE XferInv
  OBVIOUS
<1>1. /\ AllOff \in [Streams -> BOOLEAN]
      /\ \A s \in Streams : ~AllOff[s]
  BY DEF AllOff
<1>2. TypeOK
  BY <1>1 DEF Init, TypeOK
<1>3. /\ "playback" \in Streams /\ "capture" \in Streams
      /\ up /\ paused = AllOff /\ hw.xfer = AllOff /\ hw.refcount = 0
      /\ \A s \in Streams : pcm[s] = "CLOSED"
  BY DEF Init, Streams
<1>4. PausedAgrees /\ Clocking
  BY <1>1, <1>3 DEF PausedAgrees, Clocking
<1>5. RefcountCounts /\ RunningFlows /\ QuietAtRest
  BY <1>3 DEF RefcountCounts, RunningFlows, QuietAtRest, Started, Count
<1> QED
  BY <1>2, <1>4, <1>5 DEF XferInv

\* The number of started streams, seen from either of them.
LEMMA CountFacts ==
  ASSUME NEW s \in Streams
  PROVE  /\ Count("playback") + Count("capture") = Count(s) + Count(Other(s))
         /\ Count(s) \in {0, 1} /\ Count(Other(s)) \in {0, 1}
BY DEF Streams, Other, Count

\* What the invariant says, seen from one stream.
LEMMA XferSeenFrom ==
  ASSUME XferInv, up, NEW s \in Streams
  PROVE  /\ hw \in Hw
         /\ clk_trcm => hw.refcount = Count(s) + Count(Other(s))
         /\ ~clk_trcm => hw.refcount = 0
BY CountFacts DEF XferInv, TypeOK, RefcountCounts, Hw

\* The part of a step that the calls have in common: the PCM states, and what
\* is left to show for each conjunct of the invariant.
LEMMA MoveFacts ==
  ASSUME XferInv, NEW s \in Streams, NEW from,
         NEW to \in {"CLOSED", "OPEN", "SETUP", "RUNNING", "PAUSED"},
         Move(s, from, to)
  PROVE  /\ up /\ up' /\ clk_trcm' = clk_trcm /\ clk_trcm' \in BOOLEAN
         /\ up' \in BOOLEAN
         /\ pcm[s] \in from /\ pcm'[s] = to
         /\ pcm'[Other(s)] = pcm[Other(s)]
         /\ pcm' \in [Streams ->
                        {"CLOSED", "OPEN", "SETUP", "RUNNING", "PAUSED"}]
         /\ paused \in [Streams -> BOOLEAN]
         /\ Count(Other(s))' = Count(Other(s))
         /\ Count("playback")' + Count("capture")' =
              Count(s)' + Count(Other(s))'
BY OtherFacts DEF XferInv, TypeOK, Move, Count, Started, Streams, Other

\* The invariant holds after a step if it does as seen from stream s.
LEMMA XferInvFrom ==
  ASSUME NEW s \in Streams, up', clk_trcm' \in BOOLEAN,
         pcm' \in [Streams -> {"CLOSED", "OPEN", "SETUP", "RUNNING", "PAUSED"}],
         paused' \in [Streams -> BOOLEAN], hw' \in Hw, up' \in BOOLEAN,
         Count("playback")' + Count("capture")' = Count(s)' + Count(Other(s))',
         Count(s)' \in {0, 1}, Count(Other(s))' \in {0, 1},
         \A t \in Streams : paused'[t] <=> pcm'[t] = "PAUSED",
         clk_trcm' => /\ hw'.xfer[s] <=> hw'.xfer[Other(s)]
                      /\ hw'.refcount = Count(s)' + Count(Other(s))'
                      /\ hw'.refcount = 0 => ~hw'.xfer[s]
                      /\ (~paused'[s] /\ ~paused'[Other(s)]) =>
                           \A t \in Streams :
                             pcm'[t] = "RUNNING" => hw'.dma[t] /\ hw'.xfer[t],
         ~clk_trcm' => /\ hw'.refcount = 0
                       /\ \A t \in Streams :
                            /\ hw'.xfer[t] <=> pcm'[t] = "RUNNING"
                            /\ pcm'[t] = "RUNNING" => hw'.dma[t]
  PROVE  XferInv'
<1>1. hw'.refcount \in -2 .. 2 /\ TypeOK'
  BY DEF TypeOK, Hw
<1>2. PausedAgrees' /\ RefcountCounts'
  BY DEF PausedAgrees, RefcountCounts
<1>3. Clocking'
  BY DEF Clocking, Streams, Other
<1>4. RunningFlows'
  <2>1. paused' = AllOff' => ~paused'[s] /\ ~paused'[Other(s)]
    BY OtherFacts DEF AllOff
  <2> QED
    BY <2>1 DEF RunningFlows
<1>5. QuietAtRest'
  <2>1. ASSUME \A t \in Streams : ~Started(t)'
        PROVE  hw'.xfer = AllOff'
    <3>1. /\ Count(s)' + Count(Other(s))' = 0
          /\ \A t \in Streams : pcm'[t] # "RUNNING"
      BY <2>1, OtherFacts DEF Count, Started
    <3>2. \A t \in Streams : ~hw'.xfer[t]
      BY <3>1, OtherFacts
    <3> QED
      BY <3>2 DEF Hw, AllOff
  <2> QED
    BY <2>1 DEF QuietAtRest
<1> QED
  BY <1>1, <1>2, <1>3, <1>4, <1>5 DEF XferInv

\* startup and shutdown change neither hardware nor flags.
LEMMA StartupStep ==
  ASSUME XferInv, NEW s \in Streams, Startup(s) \/ Shutdown(s)
  PROVE  XferInv'
<1>1. PICK to \in {"OPEN", "CLOSED"} :
        /\ Move(s, {"CLOSED", "OPEN", "SETUP"}, to)
        /\ UNCHANGED <<paused, hw>>
  BY DEF Startup, Shutdown, Move
<1>2. /\ up /\ up' /\ pcm[s] \in {"CLOSED", "OPEN", "SETUP"}
      /\ pcm' \in [Streams ->
                      {"CLOSED", "OPEN", "SETUP", "RUNNING", "PAUSED"}]
      /\ pcm'[s] \in {"OPEN", "CLOSED"} /\ pcm'[Other(s)] = pcm[Other(s)]
      /\ clk_trcm' = clk_trcm
  BY <1>1, MoveFacts
<1>3. \A t \in Streams : /\ pcm'[t] = "PAUSED" <=> pcm[t] = "PAUSED"
                         /\ pcm'[t] = "RUNNING" <=> pcm[t] = "RUNNING"
                         /\ Started(t)' <=> Started(t)
  BY <1>2, OtherFacts DEF Started
<1>4. "playback" \in Streams /\ "capture" \in Streams
  BY DEF Streams
<1>5. TypeOK'
  BY <1>1, <1>2 DEF XferInv, TypeOK
<1>6. PausedAgrees' /\ Clocking'
  BY <1>1, <1>2, <1>3, <1>4 DEF XferInv, PausedAgrees, Clocking
<1>7. RefcountCounts'
  BY <1>1, <1>2, <1>3, <1>4 DEF XferInv, RefcountCounts, Count
<1>8. RunningFlows' /\ QuietAtRest'
  BY <1>1, <1>2, <1>3, <1>4 DEF XferInv, RunningFlows, QuietAtRest, AllOff
<1> QED
  BY <1>5, <1>6, <1>7, <1>8 DEF XferInv

\* TRIGGER_START: the first stream to start starts the shared clock; otherwise
\* the other stream is started, and either has the clock running or is paused.
LEMMA StartStep ==
  ASSUME XferInv, NEW s \in Streams, TriggerStart(s)
  PROVE  XferInv'
<1>1. /\ Move(s, {"SETUP"}, "RUNNING")
      /\ paused' = [paused EXCEPT ![s] = FALSE] /\ hw' = start(hw, s)
  BY DEF TriggerStart, SetPaused
<1>2. /\ up /\ up' /\ up' \in BOOLEAN
      /\ clk_trcm' = clk_trcm /\ clk_trcm' \in BOOLEAN
      /\ pcm[s] = "SETUP" /\ pcm'[s] = "RUNNING"
      /\ pcm'[Other(s)] = pcm[Other(s)]
      /\ pcm' \in [Streams ->
                      {"CLOSED", "OPEN", "SETUP", "RUNNING", "PAUSED"}]
      /\ paused \in [Streams -> BOOLEAN]
      /\ Count(Other(s))' = Count(Other(s))
      /\ Count("playback")' + Count("capture")' = Count(s)' + Count(Other(s))'
  BY <1>1, MoveFacts
<1>3. Count(s) = 0 /\ Count(s)' = 1 /\ Count(Other(s)) \in {0, 1}
  BY <1>2 DEF Count, Started
<1>4. /\ hw \in Hw
      /\ clk_trcm => hw.refcount = Count(Other(s))
      /\ ~clk_trcm => hw.refcount = 0
  BY <1>2, <1>3, XferSeenFrom
<1>5. /\ hw' \in Hw /\ hw'.dma = [hw.dma EXCEPT ![s] = TRUE]
      /\ clk_trcm => /\ hw'.refcount = hw.refcount + 1
                     /\ hw.refcount = 0 => hw'.xfer = AllOn
                     /\ hw.refcount # 0 => hw'.xfer = hw.xfer
      /\ ~clk_trcm => /\ hw'.refcount = hw.refcount
                      /\ hw'.xfer = [hw.xfer EXCEPT ![s] = TRUE]
  BY <1>1, <1>4, StartFacts
<1>6. /\ paused' \in [Streams -> BOOLEAN]
      /\ \A t \in Streams : paused'[t] <=> pcm'[t] = "PAUSED"
  BY <1>1, <1>2, OtherFacts DEF XferInv, PausedAgrees
<1>7. ASSUME clk_trcm
      PROVE  /\ hw'.xfer[s] <=> hw'.xfer[Other(s)]
             /\ hw'.refcount = Count(s)' + Count(Other(s))'
             /\ hw'.refcount # 0
             /\ (~paused'[s] /\ ~paused'[Other(s)]) =>
                  \A t \in Streams :
                    pcm'[t] = "RUNNING" => hw'.dma[t] /\ hw'.xfer[t]
  <2>1. CASE hw.refcount = 0
    <3>1. hw'.xfer = AllOn /\ hw'.refcount = 1 /\ Count(Other(s)) = 0
      BY <1>4, <1>5, <1>7, <2>1
    <3>2. pcm'[Other(s)] # "RUNNING"
      BY <1>2, <3>1 DEF Count, Started
    <3> QED
      BY <1>2, <1>3, <1>4, <1>5, <3>1, <3>2, OtherFacts DEF AllOn, Hw
  <2>2. CASE hw.refcount # 0
    <3>1. hw'.xfer = hw.xfer /\ hw'.refcount = 2 /\ Count(Other(s)) = 1
      BY <1>3, <1>4, <1>5, <1>7, <2>2
    <3>2. hw.xfer[s] <=> hw.xfer[Other(s)]
      BY <1>7 DEF XferInv, Clocking, Streams, Other
    <3>3. ASSUME ~paused'[s], ~paused'[Other(s)]
          PROVE  /\ hw.xfer[Other(s)]
                 /\ pcm[Other(s)] = "RUNNING" => hw.dma[Other(s)]
      <4>1. ~paused[s] /\ ~paused[Other(s)]
        BY <1>1, <1>2, <3>3, OtherFacts DEF XferInv, PausedAgrees
      <4>2. paused = AllOff
        BY <1>2, <4>1, OtherFacts DEF AllOff
      <4>3. pcm[Other(s)] = "RUNNING"
        BY <3>1, <4>1, OtherFacts
           DEF Count, Started, XferInv, PausedAgrees
      <4> QED
        BY <1>2, <4>2, <4>3, OtherFacts DEF XferInv, RunningFlows
    <3> QED
      BY <1>2, <1>3, <1>4, <1>5, <3>1, <3>2, <3>3, OtherFacts DEF Hw
  <2> QED
    BY <2>1, <2>2
<1>8. ASSUME ~clk_trcm
      PROVE  /\ hw'.refcount = 0
             /\ \A t \in Streams :
                  /\ hw'.xfer[t] <=> pcm'[t] = "RUNNING"
                  /\ pcm'[t] = "RUNNING" => hw'.dma[t]
  <2>1. /\ hw.xfer[Other(s)] <=> pcm[Other(s)] = "RUNNING"
        /\ pcm[Other(s)] = "RUNNING" => hw.dma[Other(s)]
    <3>1. Other(s) \in Streams /\ up
      BY <1>2, OtherFacts
    <3> QED
      BY <1>8, <3>1, Zenon DEF XferInv, Clocking
  <2>2. /\ hw'.xfer[s] /\ hw'.dma[s]
        /\ hw'.xfer[Other(s)] <=> hw.xfer[Other(s)]
        /\ hw'.dma[Other(s)] <=> hw.dma[Other(s)]
    BY <1>4, <1>5, <1>8, OtherFacts DEF Hw
  <2> QED
    BY <1>2, <1>4, <1>5, <1>8, <2>1, <2>2, OtherFacts
<1> QED
  BY <1>1, <1>2, <1>3, <1>5, <1>6, <1>7, <1>8, XferInvFrom

\* TRIGGER_STOP: the last stream stops the clock; otherwise the other stream
\* is started, and goes on if it is not paused.
LEMMA StopStep ==
  ASSUME XferInv, NEW s \in Streams, TriggerStop(s)
  PROVE  XferInv'
<1>1. /\ Move(s, {"RUNNING"}, "SETUP")
      /\ paused' = [paused EXCEPT ![s] = FALSE]
      /\ hw' = stop(hw, s)
  BY DEF TriggerStop, SetPaused
<1>2. /\ up /\ up' /\ up' \in BOOLEAN
      /\ clk_trcm' = clk_trcm /\ clk_trcm' \in BOOLEAN
      /\ pcm[s] = "RUNNING" /\ pcm'[s] = "SETUP"
      /\ pcm'[Other(s)] = pcm[Other(s)]
      /\ pcm' \in [Streams ->
                      {"CLOSED", "OPEN", "SETUP", "RUNNING", "PAUSED"}]
      /\ paused \in [Streams -> BOOLEAN]
      /\ Count(Other(s))' = Count(Other(s))
      /\ Count("playback")' + Count("capture")' = Count(s)' + Count(Other(s))'
  BY <1>1, MoveFacts
<1>3. Count(s) = 1 /\ Count(s)' = 0 /\ Count(Other(s)) \in {0, 1}
  BY <1>2 DEF Count, Started
<1>4. /\ hw \in Hw
      /\ clk_trcm => hw.refcount = 1 + Count(Other(s))
      /\ ~clk_trcm => hw.refcount = 0
  BY <1>2, <1>3, XferSeenFrom
<1>5. /\ hw' \in Hw /\ hw'.dma = [hw.dma EXCEPT ![s] = FALSE]
      /\ clk_trcm => /\ hw'.refcount = hw.refcount - 1
                     /\ hw.refcount = 1 => hw'.xfer = AllOff
                     /\ hw.refcount # 1 => hw'.xfer = hw.xfer
      /\ ~clk_trcm => /\ hw'.refcount = hw.refcount
                      /\ hw'.xfer = [hw.xfer EXCEPT ![s] = FALSE]
  BY <1>1, <1>4, StopFacts
<1>6. /\ paused' \in [Streams -> BOOLEAN]
      /\ \A t \in Streams : paused'[t] <=> pcm'[t] = "PAUSED"
  BY <1>1, <1>2, OtherFacts DEF XferInv, PausedAgrees
<1>7. ASSUME clk_trcm
      PROVE  /\ hw'.xfer[s] <=> hw'.xfer[Other(s)]
             /\ hw'.refcount = Count(s)' + Count(Other(s))'
             /\ hw'.refcount = 0 => ~hw'.xfer[s]
             /\ (~paused'[s] /\ ~paused'[Other(s)]) =>
                  \A t \in Streams :
                    pcm'[t] = "RUNNING" => hw'.dma[t] /\ hw'.xfer[t]
  <2>1. CASE Count(Other(s)) = 0
    <3>1. hw'.xfer = AllOff /\ hw'.refcount = 0
      BY <1>4, <1>5, <1>7, <2>1
    <3>2. pcm'[Other(s)] # "RUNNING"
      BY <1>2, <2>1 DEF Count, Started
    <3> QED
      BY <1>2, <1>3, <2>1, <3>1, <3>2, OtherFacts DEF AllOff
  <2>2. CASE Count(Other(s)) = 1
    <3>1. hw'.xfer = hw.xfer /\ hw'.refcount = 1
      BY <1>4, <1>5, <1>7, <2>2
    <3>2. hw.xfer[s] <=> hw.xfer[Other(s)]
      BY <1>7 DEF XferInv, Clocking, Streams, Other
    <3>3. ASSUME ~paused'[s], ~paused'[Other(s)], pcm'[Other(s)] = "RUNNING"
          PROVE  hw'.dma[Other(s)] /\ hw'.xfer[Other(s)]
      <4>1. ~paused[s] /\ ~paused[Other(s)]
        BY <1>1, <1>2, <3>3, OtherFacts DEF XferInv, PausedAgrees
      <4>2. paused = AllOff
        BY <1>2, <4>1, OtherFacts DEF AllOff
      <4>3. hw.dma[Other(s)] /\ hw.xfer[Other(s)]
        BY <1>2, <3>3, <4>2, OtherFacts DEF XferInv, RunningFlows
      <4> QED
        BY <1>4, <1>5, <3>1, <4>3, OtherFacts DEF Hw
    <3> QED
      BY <1>2, <1>3, <2>2, <3>1, <3>2, <3>3, OtherFacts
  <2> QED
    BY <1>3, <2>1, <2>2
<1>8. ASSUME ~clk_trcm
      PROVE  /\ hw'.refcount = 0
             /\ \A t \in Streams :
                  /\ hw'.xfer[t] <=> pcm'[t] = "RUNNING"
                  /\ pcm'[t] = "RUNNING" => hw'.dma[t]
  <2>1. /\ hw.xfer[Other(s)] <=> pcm[Other(s)] = "RUNNING"
        /\ pcm[Other(s)] = "RUNNING" => hw.dma[Other(s)]
    <3>1. Other(s) \in Streams /\ up
      BY <1>2, OtherFacts
    <3> QED
      BY <1>8, <3>1, Zenon DEF XferInv, Clocking
  <2>2. /\ ~hw'.xfer[s]
        /\ hw'.xfer[Other(s)] <=> hw.xfer[Other(s)]
        /\ hw'.dma[Other(s)] <=> hw.dma[Other(s)]
    BY <1>4, <1>5, <1>8, OtherFacts DEF Hw
  <2> QED
    BY <1>2, <1>4, <1>5, <1>8, <2>1, <2>2, OtherFacts
<1> QED
  BY <1>1, <1>2, <1>3, <1>5, <1>6, <1>7, <1>8, XferInvFrom

\* TRIGGER_PAUSE_PUSH: the stream stays counted.
LEMMA PauseStep ==
  ASSUME XferInv, NEW s \in Streams, PausePush(s)
  PROVE  XferInv'
<1>1. /\ Move(s, {"RUNNING"}, "PAUSED")
      /\ paused' = [paused EXCEPT ![s] = TRUE]
      /\ hw' = IF paused[s] THEN hw ELSE pause(hw, s)
  BY DEF PausePush, SetPaused
<1>2. /\ up /\ up' /\ up' \in BOOLEAN
      /\ clk_trcm' = clk_trcm /\ clk_trcm' \in BOOLEAN
      /\ pcm[s] = "RUNNING" /\ pcm'[s] = "PAUSED"
      /\ pcm'[Other(s)] = pcm[Other(s)]
      /\ pcm' \in [Streams ->
                      {"CLOSED", "OPEN", "SETUP", "RUNNING", "PAUSED"}]
      /\ paused \in [Streams -> BOOLEAN]
      /\ Count(Other(s))' = Count(Other(s))
      /\ Count("playback")' + Count("capture")' = Count(s)' + Count(Other(s))'
  BY <1>1, MoveFacts
<1>3. Count(s) = 1 /\ Count(s)' = 1 /\ Count(Other(s)) \in {0, 1}
  BY <1>2 DEF Count, Started
<1>4. /\ hw \in Hw
      /\ clk_trcm => hw.refcount = 1 + Count(Other(s))
      /\ ~clk_trcm => hw.refcount = 0
  BY <1>2, <1>3, XferSeenFrom
<1>5. /\ hw' \in Hw /\ hw'.refcount = hw.refcount
      /\ clk_trcm => hw'.xfer = AllOff
      /\ ~clk_trcm => /\ hw'.xfer = [hw.xfer EXCEPT ![s] = FALSE]
                      /\ hw'.dma = [hw.dma EXCEPT ![s] = FALSE]
  <2>1. ~paused[s]
    BY <1>2 DEF XferInv, PausedAgrees
  <2> QED
    BY <1>1, <1>4, <2>1, PauseFacts
<1>6. /\ paused' \in [Streams -> BOOLEAN]
      /\ \A t \in Streams : paused'[t] <=> pcm'[t] = "PAUSED"
  BY <1>1, <1>2, OtherFacts DEF XferInv, PausedAgrees
<1>7. ASSUME clk_trcm
      PROVE  /\ hw'.xfer[s] <=> hw'.xfer[Other(s)]
             /\ hw'.refcount = Count(s)' + Count(Other(s))'
             /\ hw'.refcount = 0 => ~hw'.xfer[s]
             /\ (~paused'[s] /\ ~paused'[Other(s)]) =>
                  \A t \in Streams :
                    pcm'[t] = "RUNNING" => hw'.dma[t] /\ hw'.xfer[t]
  BY <1>1, <1>2, <1>3, <1>4, <1>5, <1>7, OtherFacts DEF AllOff
<1>8. ASSUME ~clk_trcm
      PROVE  /\ hw'.refcount = 0
             /\ \A t \in Streams :
                  /\ hw'.xfer[t] <=> pcm'[t] = "RUNNING"
                  /\ pcm'[t] = "RUNNING" => hw'.dma[t]
  <2>1. /\ hw.xfer[Other(s)] <=> pcm[Other(s)] = "RUNNING"
        /\ pcm[Other(s)] = "RUNNING" => hw.dma[Other(s)]
    <3>1. Other(s) \in Streams /\ up
      BY <1>2, OtherFacts
    <3> QED
      BY <1>8, <3>1, Zenon DEF XferInv, Clocking
  <2>2. /\ ~hw'.xfer[s]
        /\ hw'.xfer[Other(s)] <=> hw.xfer[Other(s)]
        /\ hw'.dma[Other(s)] <=> hw.dma[Other(s)]
    BY <1>4, <1>5, <1>8, OtherFacts DEF Hw
  <2> QED
    BY <1>2, <1>4, <1>5, <1>8, <2>1, <2>2, OtherFacts
<1> QED
  BY <1>1, <1>2, <1>3, <1>5, <1>6, <1>7, <1>8, XferInvFrom

\* TRIGGER_PAUSE_RELEASE: with the shared clock everything is on again.
LEMMA ReleaseStep ==
  ASSUME XferInv, NEW s \in Streams, PauseRelease(s)
  PROVE  XferInv'
<1>1. /\ Move(s, {"PAUSED"}, "RUNNING")
      /\ paused' = [paused EXCEPT ![s] = FALSE]
      /\ hw' = IF paused[s] THEN resume(hw, s) ELSE hw
  BY DEF PauseRelease, SetPaused
<1>2. /\ up /\ up' /\ up' \in BOOLEAN
      /\ clk_trcm' = clk_trcm /\ clk_trcm' \in BOOLEAN
      /\ pcm[s] = "PAUSED" /\ pcm'[s] = "RUNNING"
      /\ pcm'[Other(s)] = pcm[Other(s)]
      /\ pcm' \in [Streams ->
                      {"CLOSED", "OPEN", "SETUP", "RUNNING", "PAUSED"}]
      /\ paused \in [Streams -> BOOLEAN]
      /\ Count(Other(s))' = Count(Other(s))
      /\ Count("playback")' + Count("capture")' = Count(s)' + Count(Other(s))'
  BY <1>1, MoveFacts
<1>3. Count(s) = 1 /\ Count(s)' = 1 /\ Count(Other(s)) \in {0, 1}
  BY <1>2 DEF Count, Started
<1>4. /\ hw \in Hw
      /\ clk_trcm => hw.refcount = 1 + Count(Other(s))
      /\ ~clk_trcm => hw.refcount = 0
  BY <1>2, <1>3, XferSeenFrom
<1>5. /\ hw' \in Hw /\ hw'.refcount = hw.refcount
      /\ clk_trcm => hw'.xfer = AllOn /\ hw'.dma = AllOn
      /\ ~clk_trcm => /\ hw'.xfer = [hw.xfer EXCEPT ![s] = TRUE]
                      /\ hw'.dma = [hw.dma EXCEPT ![s] = TRUE]
  <2>1. paused[s]
    BY <1>2 DEF XferInv, PausedAgrees
  <2> QED
    BY <1>1, <1>4, <2>1, ResumeFacts
<1>6. /\ paused' \in [Streams -> BOOLEAN]
      /\ \A t \in Streams : paused'[t] <=> pcm'[t] = "PAUSED"
  BY <1>1, <1>2, OtherFacts DEF XferInv, PausedAgrees
<1>7. ASSUME clk_trcm
      PROVE  /\ hw'.xfer[s] <=> hw'.xfer[Other(s)]
             /\ hw'.refcount = Count(s)' + Count(Other(s))'
             /\ hw'.refcount = 0 => ~hw'.xfer[s]
             /\ (~paused'[s] /\ ~paused'[Other(s)]) =>
                  \A t \in Streams :
                    pcm'[t] = "RUNNING" => hw'.dma[t] /\ hw'.xfer[t]
  BY <1>2, <1>3, <1>4, <1>5, <1>7, OtherFacts DEF AllOn
<1>8. ASSUME ~clk_trcm
      PROVE  /\ hw'.refcount = 0
             /\ \A t \in Streams :
                  /\ hw'.xfer[t] <=> pcm'[t] = "RUNNING"
                  /\ pcm'[t] = "RUNNING" => hw'.dma[t]
  <2>1. /\ hw.xfer[Other(s)] <=> pcm[Other(s)] = "RUNNING"
        /\ pcm[Other(s)] = "RUNNING" => hw.dma[Other(s)]
    <3>1. Other(s) \in Streams /\ up
      BY <1>2, OtherFacts
    <3> QED
      BY <1>8, <3>1, Zenon DEF XferInv, Clocking
  <2>2. /\ hw'.xfer[s] /\ hw'.dma[s]
        /\ hw'.xfer[Other(s)] <=> hw.xfer[Other(s)]
        /\ hw'.dma[Other(s)] <=> hw.dma[Other(s)]
    BY <1>4, <1>5, <1>8, OtherFacts DEF Hw
  <2> QED
    BY <1>2, <1>4, <1>5, <1>8, <2>1, <2>2, OtherFacts
<1> QED
  BY <1>1, <1>2, <1>3, <1>5, <1>6, <1>7, <1>8, XferInvFrom

\* hw_params: if the other stream is started it has its DMA and the clock
\* afterwards; otherwise nothing is written.
LEMMA HwParamsStep ==
  ASSUME XferInv, NEW s \in Streams, HwParams(s)
  PROVE  XferInv'
<1>1. /\ Move(s, {"OPEN", "SETUP"}, "SETUP") /\ paused' = paused
      /\ hw' \in {hw, IF clk_trcm THEN params_trcm(hw, s)
                         ELSE IF hw.xfer[s] THEN xfer_stop(hw, s) ELSE hw}
  BY DEF HwParams
<1>2. /\ up /\ up' /\ up' \in BOOLEAN
      /\ clk_trcm' = clk_trcm /\ clk_trcm' \in BOOLEAN
      /\ pcm[s] \in {"OPEN", "SETUP"} /\ pcm'[s] = "SETUP"
      /\ pcm'[Other(s)] = pcm[Other(s)]
      /\ pcm' \in [Streams ->
                      {"CLOSED", "OPEN", "SETUP", "RUNNING", "PAUSED"}]
      /\ paused \in [Streams -> BOOLEAN]
      /\ Count(Other(s))' = Count(Other(s))
      /\ Count("playback")' + Count("capture")' = Count(s)' + Count(Other(s))'
  BY <1>1, MoveFacts
<1>3. Count(s) = 0 /\ Count(s)' = 0 /\ Count(Other(s)) \in {0, 1}
  BY <1>2 DEF Count, Started
<1>4. /\ hw \in Hw
      /\ clk_trcm => hw.refcount = Count(Other(s))
      /\ ~clk_trcm => hw.refcount = 0
  BY <1>2, <1>3, XferSeenFrom
<1>5. /\ clk_trcm =>
           \/ hw' = hw
           \/ /\ hw.refcount # 0 /\ hw' \in Hw /\ hw'.refcount = hw.refcount
              /\ hw'.xfer = AllOn /\ hw'.dma[Other(s)]
      /\ ~clk_trcm => hw' = hw
  <2>1. CASE clk_trcm
    BY <1>1, <1>4, <2>1, ParamsFacts
  <2>2. CASE ~clk_trcm
    <3>1. ~hw.xfer[s]
      BY <1>2, <2>2 DEF XferInv, Clocking
    <3> QED
      BY <1>1, <2>2, <3>1
  <2> QED
    BY <2>1, <2>2
<1>6. /\ paused' \in [Streams -> BOOLEAN]
      /\ \A t \in Streams : paused'[t] <=> pcm'[t] = "PAUSED"
  BY <1>1, <1>2, OtherFacts DEF XferInv, PausedAgrees
<1>7. ASSUME clk_trcm
      PROVE  /\ hw'.xfer[s] <=> hw'.xfer[Other(s)]
             /\ hw'.refcount = Count(s)' + Count(Other(s))'
             /\ hw'.refcount = 0 => ~hw'.xfer[s]
             /\ (~paused'[s] /\ ~paused'[Other(s)]) =>
                  \A t \in Streams :
                    pcm'[t] = "RUNNING" => hw'.dma[t] /\ hw'.xfer[t]
  <2>1. CASE hw' = hw
    <3>1. hw.xfer[s] <=> hw.xfer[Other(s)]
      BY <1>7 DEF XferInv, Clocking, Streams, Other
    <3>2. ASSUME hw.refcount = 0 PROVE ~hw.xfer[s]
      <4>1. \A t \in Streams : ~Started(t)
        BY <1>2, <1>4, <1>7, <3>2, OtherFacts DEF Count, Started
      <4> QED
        BY <4>1 DEF XferInv, QuietAtRest, AllOff
    <3>3. ASSUME ~paused'[s], ~paused'[Other(s)], pcm'[Other(s)] = "RUNNING"
          PROVE  hw.dma[Other(s)] /\ hw.xfer[Other(s)]
      <4>1. paused = AllOff
        BY <1>1, <1>2, <3>3, OtherFacts DEF AllOff
      <4> QED
        BY <1>2, <3>3, <4>1, OtherFacts DEF XferInv, RunningFlows
    <3> QED
      BY <1>2, <1>3, <1>4, <1>7, <2>1, <3>1, <3>2, <3>3, OtherFacts
  <2>2. CASE hw' # hw
    BY <1>2, <1>3, <1>4, <1>5, <1>7, <2>2, OtherFacts DEF AllOn
  <2> QED
    BY <2>1, <2>2
<1>8. ASSUME ~clk_trcm
      PROVE  /\ hw'.refcount = 0
             /\ \A t \in Streams :
                  /\ hw'.xfer[t] <=> pcm'[t] = "RUNNING"
                  /\ pcm'[t] = "RUNNING" => hw'.dma[t]
  <2>1. \A t \in Streams : /\ hw.xfer[t] <=> pcm[t] = "RUNNING"
                           /\ pcm[t] = "RUNNING" => hw.dma[t]
    BY <1>2, <1>8, Zenon DEF XferInv, Clocking
  <2> QED
    BY <1>2, <1>4, <1>5, <1>8, <2>1, OtherFacts
<1>9. hw' \in Hw
  BY <1>4, <1>5
<1> QED
  BY <1>1, <1>2, <1>3, <1>6, <1>7, <1>8, <1>9, XferInvFrom

\* platform_shutdown stops both streams.  One of the two decrements reaches
\* zero unless no stream was started, when the clock is off already.
LEMMA PlatformShutdownStep ==
  ASSUME XferInv, platform_shutdown
  PROVE  XferInv'
<1> DEFINE g == stop(hw, "playback")
<1>1. /\ up /\ ~up' /\ up' \in BOOLEAN /\ hw' = stop(g, "capture")
      /\ clk_trcm' = clk_trcm /\ pcm' = pcm /\ paused' = paused
  BY DEF platform_shutdown, StopsBoth
<1>2. /\ "playback" \in Streams /\ "capture" \in Streams
      /\ \A t \in Streams : t = "playback" \/ t = "capture"
  BY DEF Streams
<1>3. /\ hw \in Hw /\ Count("playback") \in {0, 1} /\ Count("capture") \in {0, 1}
      /\ clk_trcm => hw.refcount = Count("playback") + Count("capture")
      /\ ~clk_trcm => hw.refcount = 0
  BY <1>1 DEF XferInv, TypeOK, RefcountCounts, Hw, Count
<1>4. /\ g \in Hw /\ g.dma = [hw.dma EXCEPT !["playback"] = FALSE]
      /\ clk_trcm => /\ g.refcount = hw.refcount - 1
                     /\ hw.refcount = 1 => g.xfer = AllOff
                     /\ hw.refcount # 1 => g.xfer = hw.xfer
      /\ ~clk_trcm => /\ g.refcount = hw.refcount
                      /\ g.xfer = [hw.xfer EXCEPT !["playback"] = FALSE]
  BY <1>2, <1>3, StopFacts
<1> HIDE DEF g
<1>5. /\ hw' \in Hw /\ hw'.dma = [g.dma EXCEPT !["capture"] = FALSE]
      /\ clk_trcm => /\ hw'.refcount = g.refcount - 1
                     /\ g.refcount = 1 => hw'.xfer = AllOff
                     /\ g.refcount # 1 => hw'.xfer = g.xfer
      /\ ~clk_trcm => /\ hw'.refcount = g.refcount
                      /\ hw'.xfer = [g.xfer EXCEPT !["capture"] = FALSE]
  BY <1>1, <1>2, <1>4, StopFacts
<1>6. hw'.dma = AllOff
  <2>1. ~hw'.dma["playback"] /\ ~hw'.dma["capture"]
    BY <1>2, <1>3, <1>4, <1>5 DEF Hw
  <2> QED
    BY <1>2, <1>5, <2>1 DEF Hw, AllOff
<1>7. hw'.xfer = AllOff
  <2>1. CASE ~clk_trcm
    <3>1. ~hw'.xfer["playback"] /\ ~hw'.xfer["capture"]
      BY <1>2, <1>3, <1>4, <1>5, <2>1 DEF Hw
    <3> QED
      BY <1>2, <1>5, <3>1 DEF Hw, AllOff
  <2>2. CASE clk_trcm /\ hw.refcount = 0
    <3>1. hw.xfer = AllOff
      BY <1>2, <1>3, <2>2 DEF XferInv, QuietAtRest, Count
    <3> QED
      BY <1>3, <1>4, <1>5, <2>2, <3>1
  <2>3. CASE clk_trcm /\ hw.refcount = 1
    BY <1>3, <1>4, <1>5, <2>3
  <2>4. CASE clk_trcm /\ hw.refcount = 2
    BY <1>3, <1>4, <1>5, <2>4
  <2> QED
    BY <1>3, <2>1, <2>2, <2>3, <2>4
<1>8. TypeOK'
  <2>1. hw'.refcount \in -2 .. 2
    BY <1>3, <1>4, <1>5
  <2> QED
    BY <1>1, <1>5, <2>1 DEF XferInv, TypeOK, Hw
<1>9. PausedAgrees' /\ Clocking' /\ RefcountCounts'
  BY <1>1, <1>2, <1>7
     DEF XferInv, PausedAgrees, Clocking, RefcountCounts, AllOff
<1>10. RunningFlows' /\ QuietAtRest'
  BY <1>1, <1>6, <1>7 DEF RunningFlows, QuietAtRest, AllOff
<1> QED
  BY <1>8, <1>9, <1>10 DEF XferInv

LEMMA XferStutter == XferInv /\ UNCHANGED vars => XferInv'
BY DEF vars, XferInv, TypeOK, PausedAgrees, Clocking, RefcountCounts,
       RunningFlows, QuietAtRest, Count, Started, AllOff

LEMMA XferStep == XferInv /\ [Next]_vars => XferInv'
<1> SUFFICES ASSUME XferInv, [Next]_vars
             PROVE  XferInv'
  OBVIOUS
<1>1. ASSUME NEW s \in Connected, StreamCall(s)
      PROVE  XferInv'
  <2>1. s \in Streams
    BY ConnectedAssumption
  <2>2. CASE Startup(s) \/ Shutdown(s)
    BY <2>1, <2>2, StartupStep
  <2>3. CASE HwParams(s)
    BY <2>1, <2>3, HwParamsStep
  <2>4. CASE TriggerStart(s)
    BY <2>1, <2>4, StartStep
  <2>5. CASE TriggerStop(s)
    BY <2>1, <2>5, StopStep
  <2>6. CASE PausePush(s)
    BY <2>1, <2>6, PauseStep
  <2>7. CASE PauseRelease(s)
    BY <2>1, <2>7, ReleaseStep
  <2> QED
    BY <1>1, <2>2, <2>3, <2>4, <2>5, <2>6, <2>7 DEF StreamCall
<1>2. CASE platform_shutdown
  BY <1>2, PlatformShutdownStep
<1>3. CASE UNCHANGED vars
  BY <1>3, XferStutter
<1> QED
  BY <1>1, <1>2, <1>3 DEF Next

\* The inductive invariant holds in every reachable state.
THEOREM XferInvHolds == Spec => []XferInv
BY XferInit, XferStep, PTL DEF Spec

\* Every variable keeps its type, in particular the reference count its range.
THEOREM XferTypeCorrect == Spec => []TypeOK
<1>1. XferInv => TypeOK
  BY DEF XferInv
<1> QED
  BY <1>1, XferInvHolds, PTL

\* The reference count is the number of started streams until the platform
\* device is shut down: no order of starts, stops, pauses, releases and
\* hw_params of two streams leaves it off by one.
THEOREM ReferenceCountExact == Spec => []RefcountCounts
<1>1. XferInv => RefcountCounts
  BY DEF XferInv
<1> QED
  BY <1>1, XferInvHolds, PTL

\* As long as no stream is paused, no call for one stream silences the other.
THEOREM RunningStreamsFlow == Spec => []RunningFlows
<1>1. XferInv => RunningFlows
  BY DEF XferInv
<1> QED
  BY <1>1, XferInvHolds, PTL

\* No transfer without a started stream, and neither a transfer nor a DMA
\* request after platform_shutdown.
THEOREM QuietWhenNothingPlays == Spec => []QuietAtRest
<1>1. XferInv => QuietAtRest
  BY DEF XferInv
<1> QED
  BY <1>1, XferInvHolds, PTL
=============================================================================
