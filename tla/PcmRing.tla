------------------------------ MODULE PcmRing ------------------------------
(***************************************************************************)
(* The PCM devices of the ALSA card (driver/audio_driver.c) on top of      *)
(* IOControl: open, hw_params and prepare, trigger, the interrupt that     *)
(* copies a frame to or from the DMA buffer, the pointer, close.           *)
(*                                                                         *)
(* The ALSA core is external: it calls trigger to start a prepared or      *)
(* paused stream and to stop or pause a running one, prepare and close     *)
(* only while the stream does not run, and stops a running stream from     *)
(* snd_pcm_period_elapsed when it has run out of frames.  A stream that    *)
(* was stopped or has run out is "setup".  Sizes and offsets are in        *)
(* frames.                                                                 *)
(*                                                                         *)
(* An interrupt holds the lock of its direction while it copies.  close    *)
(* takes that lock; prepare takes another, so that it may change offset    *)
(* and size under an interrupt that was late.                              *)
(***************************************************************************)
EXTENDS IOControl

CONSTANTS
  PcmDirs,        \* directions followed here; the other is triggered at will
  BufferSizes     \* buffer sizes that applications ask for

ASSUME PcmAssumption == PcmDirs \subseteq Dirs /\ BufferSizes \subseteq Nat \ {0}

VARIABLE
  pcm             \* [state, sub, size, offset, copy, next, straddled]: the core's state of
                  \* the stream, *_substream is set, pcm_*_buffer_size, dma_*_offset; where
                  \* the interrupt is and its new_offset; history: an interrupt and a
                  \* prepare overlapped since prepare was called last

pcmVars == <<vars, pcm>>

ClosedPcm == [state |-> "closed", sub |-> FALSE, size |-> 0, offset |-> 0, copy |-> "none",
              next |-> 0, straddled |-> FALSE]

PcmInit == Init /\ pcm = [d \in PcmDirs |-> ClosedPcm]

\* The core calls the driver for direction d.
Called(d, states) == alsa[d].pc = "idle" /\ Alone /\ pcm[d].state \in states

\* The interrupt holds the lock of direction d.
Copying(d) == pcm[d].copy \in {"read", "reduced"}

Becomes(d, r) == pcm' = [pcm EXCEPT ![d] = r]

\* An open that fails after it set the substream leaves it set; the core does not call
\* close then.
pcm_open(d) ==
  /\ Called(d, {"closed"})
  /\ \E state \in {"setup", "closed"} :
       Becomes(d, [pcm[d] EXCEPT !.state = state, !.sub = TRUE])
  /\ UNCHANGED vars

\* hw_params with a buffer size, if it is called, and prepare, up to the new offset. Both
\* find the direction stopped. A rate that differs from the manager's is sent to the
\* daemon, which sets it by SetSamplingRate, before or after they have given up waiting
\* for it. One that fails changes nothing here.
pcm_prepare(d) ==
  /\ Called(d, {"setup", "prepared"})
  /\ Becomes(d, [pcm[d] EXCEPT !.state = "preparing", !.offset = 0, !.straddled = Copying(d)])
  /\ UNCHANGED vars

\* The end of prepare: the size of the buffer.
PrepareSize(d, size) ==
  /\ pcm[d].state = "preparing"
  /\ Becomes(d, [pcm[d] EXCEPT !.state = "prepared", !.size = size])
  /\ UNCHANGED vars

\* The core frees the buffer before it calls close; the chip keeps what prepare set.
pcm_close(d) ==
  /\ Called(d, {"setup", "prepared", "paused"}) /\ ~Copying(d)
  /\ Becomes(d, [pcm[d] EXCEPT !.state = "closed", !.sub = FALSE])
  /\ UNCHANGED vars

\* start_interrupts may fail; the trigger succeeds.
TriggerStart(d) ==
  /\ Called(d, {"prepared", "paused"})
  /\ Becomes(d, [pcm[d] EXCEPT !.state = "running"])
  /\ startIO(d) \/ (~m_bIsStarted /\ UNCHANGED vars)

\* Mutant: a pause only tells the core.
TriggerStop_NotPause(d, state) ==
  /\ Called(d, {"running"})
  /\ Becomes(d, [pcm[d] EXCEPT !.state = state])
  /\ IF IO[d] /\ state # "paused" THEN stopIO(d) ELSE UNCHANGED vars

TriggerStop(d, state) ==
  /\ Called(d, {"running"})
  /\ Becomes(d, [pcm[d] EXCEPT !.state = state])
  /\ IF IO[d] THEN stopIO(d) ELSE UNCHANGED vars

\* pcm_interrupt. The frame size is read before the lock is taken.
pcm_interrupt(d) ==
  /\ timer = Interrupt(d) /\ pcm[d].copy = "none"
  /\ Becomes(d, [pcm[d] EXCEPT !.copy = "frame", !.next = m_ui32FrameSize])
  /\ UNCHANGED vars

\* The frame is copied at the offset; nothing without a substream.
CopyFrame(d) ==
  /\ pcm[d].copy = "frame" /\ pcm[d].sub
  /\ Becomes(d, [pcm[d] EXCEPT !.copy = "read", !.next = @ + pcm[d].offset,
                                !.straddled = @ \/ pcm[d].state = "preparing"])
  /\ UNCHANGED vars

NoSubstream(d) ==
  /\ pcm[d].copy = "frame" /\ ~pcm[d].sub
  /\ Becomes(d, [pcm[d] EXCEPT !.copy = "none", !.next = 0])
  /\ Interrupted(d)

\* Mutant: the position is reduced when it has passed the end only.
Reduced_Late(p) == IF p.next > p.size THEN p.next - p.size ELSE p.next

\* new_offset, which is reduced once.
Reduced(p) == IF p.next >= p.size THEN p.next - p.size ELSE p.next

ReduceOffset(d) ==
  /\ pcm[d].copy = "read"
  /\ Becomes(d, [pcm[d] EXCEPT !.copy = "reduced", !.next = Reduced(pcm[d])])
  /\ UNCHANGED vars

Stored(p) == [p EXCEPT !.copy = "none", !.offset = p.next, !.next = 0]

\* The new offset, and the end of the interrupt.
StoreOffset(d) ==
  /\ pcm[d].copy = "reduced"
  /\ Becomes(d, Stored(pcm[d]))
  /\ Interrupted(d)

\* The same with a snd_pcm_period_elapsed that finds that the stream has run out, and
\* stops it by trigger and stopIO.
StoreOffset_xrun(d) ==
  /\ Called(d, {"running"}) /\ IO[d]
  /\ pcm[d].copy = "reduced"
  /\ timer = Interrupt(d) /\ timer' = AfterInterrupt(d)
  /\ Becomes(d, [Stored(pcm[d]) EXCEPT !.state = "setup"])
  /\ IO' = [IO EXCEPT ![d] = FALSE]
  /\ m_bIORunning' = IO[Other(d)]
  /\ UNCHANGED <<activeLocked, hrVars>> /\ TimerFrame

InterruptStep(d) ==
  \/ pcm_interrupt(d) \/ CopyFrame(d) \/ NoSubstream(d) \/ ReduceOffset(d) \/ StoreOffset(d)

-----------------------------------------------------------------------------
PcmNext ==
  \/ \E d \in PcmDirs :
       \/ pcm_open(d) \/ pcm_close(d)
       \/ pcm_prepare(d) \/ \E size \in BufferSizes : PrepareSize(d, size)
       \/ TriggerStart(d) \/ \E state \in {"setup", "paused"} : TriggerStop(d, state)
       \/ InterruptStep(d) \/ StoreOffset_xrun(d)
  \/ /\ \/ \E d \in Dirs \ PcmDirs : startIO(d) \/ stopIO(d) \/ Interrupted(d)
        \/ \E d \in Dirs : AppStepNext(d)
        \/ \E n \in NICs : ClockLocks(n) \/ ClockResets(n)
        \/ MgrCall \/ MgrStep \/ TimerFires \/ TimerStep
     /\ UNCHANGED pcm

PcmSpec == PcmInit /\ [][PcmNext]_pcmVars

\* The timer expires and its tasklet runs, and a call that began goes on.
PcmFairness ==
  /\ WF_pcmVars(TimerFires /\ UNCHANGED pcm)
  /\ WF_pcmVars(TimerStep /\ UNCHANGED pcm)
  /\ WF_pcmVars(MgrStep /\ UNCHANGED pcm)
  /\ \A d \in Dirs : WF_pcmVars(AppStepNext(d) /\ UNCHANGED pcm)
  /\ \A d \in PcmDirs : WF_pcmVars(InterruptStep(d))
  /\ \A d \in Dirs \ PcmDirs : WF_pcmVars(Interrupted(d) /\ UNCHANGED pcm)

-----------------------------------------------------------------------------
(***************************************************************************)
(* Properties                                                              *)
(***************************************************************************)
\* The manager runs a direction only while the core takes its stream for running:
\* through pauses, underruns in the timer, restarts of the driver and closed devices,
\* so that hw_params, prepare and close never meet a running direction.
OnlyTriggered == \A d \in PcmDirs : IO[d] => pcm[d].state = "running"

\* "The position must be returned in frames, ranging from 0 to buffer_size - 1". Nothing
\* sees to it that a frame is not longer than the buffer, nor that an interrupt that was
\* late does not store an offset into the former buffer.
PositionInBuffer ==
  \A d \in PcmDirs :
    pcm[d].state \in {"prepared", "running", "paused"} => pcm[d].offset < pcm[d].size

\* The position stays in a buffer that was prepared while no interrupt was copying:
\* through changes of rate and frame sizes between prepare and start, during a pause,
\* and with an interrupt that comes after the stream was stopped and prepared again with
\* another size. Holds as long as no frame is longer than the buffer.
PositionKept ==
  \A d \in PcmDirs :
    pcm[d].state \in {"prepared", "running", "paused"} /\ ~pcm[d].straddled =>
      pcm[d].offset < pcm[d].size
=============================================================================
