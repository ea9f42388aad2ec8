--------------------------- MODULE PcmRingProofs ---------------------------
(***************************************************************************)
(* Proofs about the audio I/O control of TManager and the PCM devices on   *)
(* top of it: the flags agree between calls, the clocks follow the rate,   *)
(* only triggered streams run, and the position stays within the buffer.   *)
(*                                                                         *)
(* The invariants say what holds in the middle of every call: at each pc   *)
(* of the management thread and of an application's trigger.               *)
(***************************************************************************)
EXTENDS PcmRing, TLAPS

Starting == {"start0", "start1", "timer", "started"}
Silencing == {"io_capture", "io_capture_write", "io_playback", "io_playback_write"}
Halting == {"cancel", "kill", "stop0", "stop1", "stopped"}
Rating == {"rate", "rate0", "rate1", "rate_timer"}
MgrPCs == {"idle", "wait"} \cup Starting \cup Silencing \cup Halting \cup Rating

MgrRecords == [pc : MgrPCs, restart : BOOLEAN, tic : TICSizes \cup {0},
               max : MaxFrameSizes \cup {0}, rate : Rates, run : BOOLEAN]

MgrType == mgr \in MgrRecords

\* The sizes that a setter gives a driver it stops and starts again.
RestartSizes == mgr.restart => mgr.tic \in TICSizes /\ mgr.max \in MaxFrameSizes

FlagType ==
  /\ m_bIsStarted \in BOOLEAN /\ m_bIORunning \in BOOLEAN
  /\ IO \in [Dirs -> BOOLEAN]
  /\ alsa \in [Dirs -> [pc : {"idle", "flag", "run", "write"}, run : BOOLEAN]]

SizeType ==
  /\ m_SampleRate \in Rates /\ m_TICFrameSizeAt1FS \in TICSizes
  /\ m_MaxFrameSize \in MaxFrameSizes /\ m_ui32FrameSize \in 1 .. m_MaxFrameSize
  /\ RestartSizes

Clocks == [started : BOOLEAN, locked : BOOLEAN, frame : Nat, rate : Nat]

NICType ==
  /\ m_Is_NIC_Active \in [NICs -> BOOLEAN] /\ renamed \in BOOLEAN
  /\ clock \in [NICs -> Clocks]

TypeInv == MgrType /\ FlagType /\ SizeType /\ NICType

-----------------------------------------------------------------------------
\* The calls take turns: an application's call is the only one, but for a management
\* thread that waits for a lock.
Turns ==
  /\ mgr.pc \notin {"idle", "wait"} => AppsIdle
  /\ \A d, e \in Dirs : alsa[d].pc # "idle" /\ alsa[e].pc # "idle" => d = e

SomeIO == \E d \in Dirs : IO[d]

\* m_bIORunning is the disjunction of the directions except between the two writes of a
\* startIO or a stopIO, which knows what it will write.
FlagInv ==
  /\ AppsIdle /\ mgr.pc \notin {"io_capture_write", "io_playback_write"}
       => (m_bIORunning <=> SomeIO)
  /\ mgr.pc \in {"io_capture_write", "io_playback"} => ~IO["capture"]
  /\ mgr.pc = "io_capture_write" => (mgr.run <=> IO["playback"])
  /\ mgr.pc = "io_playback_write" => ~SomeIO /\ ~mgr.run
  /\ mgr.pc \in Halting => ~m_bIORunning
  /\ \A d \in Dirs :
       /\ alsa[d].pc = "flag" => (m_bIORunning <=> SomeIO)
       /\ alsa[d].pc = "run" => IO[d]
       /\ alsa[d].pc = "write" => ~IO[d] /\ (alsa[d].run <=> IO[Other(d)])

\* Only a started driver runs a direction, or has an application about to run one.
StartedInv ==
  /\ m_bIORunning \/ SomeIO => m_bIsStarted
  /\ \A d \in Dirs : alsa[d].pc \in {"flag", "run"} => m_bIsStarted

-----------------------------------------------------------------------------
\* The clock of NIC n runs with the manager's sizes if the NIC is active.
Follows(n) ==
  m_Is_NIC_Active[n] =>
    /\ clock[n].started
    /\ clock[n].frame = m_ui32FrameSize /\ clock[n].rate = m_SampleRate

\* What holds of the clocks while the management thread is at each step of a start, a
\* stop or a change of rate, and of the clocks of a driver none of these has touched.
ClockInv ==
  /\ mgr.pc \in {"idle", "wait", "start0", "cancel", "kill", "stop0", "rate"} \cup Silencing =>
       IF m_bIsStarted THEN ~renamed => \A n \in NICs : Follows(n)
                       ELSE \A n \in NICs : ~clock[n].started
  /\ mgr.pc \in {"start1", "rate1"} => Follows(0)
  /\ mgr.pc \in {"timer", "started", "rate_timer"} => Follows(0) /\ Follows(1)
  /\ mgr.pc \in {"stop1", "stopped"} => ~clock[0].started
  /\ mgr.pc = "stopped" => ~clock[1].started
  /\ mgr.pc \in {"rate0", "rate1", "rate_timer", "wait"} => m_bIsStarted

-----------------------------------------------------------------------------
Streams == [state : {"closed", "setup", "preparing", "prepared", "running", "paused"},
            sub : BOOLEAN, size : Nat, offset : Nat,
            copy : {"none", "frame", "read", "reduced"}, next : Nat, straddled : BOOLEAN]

PcmType == pcm \in [PcmDirs -> Streams]

\* The manager runs, or is about to run, a direction only while its stream is running.
TriggerInv ==
  \A d \in PcmDirs :
    IO[d] \/ alsa[d].pc \in {"flag", "run"} => pcm[d].state = "running"

\* A frame that an interrupt has read fits in every buffer.  A stream that was prepared
\* while no interrupt was copying has one of the buffers asked for, its position is within
\* it, and so is the position that an interrupt is about to store, after the reduction;
\* and while it is being prepared no interrupt is copying.
InBuffer(r) ==
  /\ r.copy = "frame" => \A b \in BufferSizes : r.next <= b
  /\ ~r.straddled =>
       /\ r.state \in {"prepared", "running", "paused"} =>
            /\ r.size \in BufferSizes /\ r.offset < r.size
            /\ r.copy = "read" => r.next < r.size + r.size
            /\ r.copy = "reduced" => r.next < r.size
       /\ r.state = "preparing" => r.offset = 0 /\ r.copy \notin {"read", "reduced"}

BufferInv == \A d \in PcmDirs : InBuffer(pcm[d])

-----------------------------------------------------------------------------
(***************************************************************************)
(* The steps of PcmNext as the manager sees them                           *)
(***************************************************************************)
\* What an underrun found by the interrupt does to the manager: a whole stopIO.
XrunStops(d) ==
  /\ alsa[d].pc = "idle" /\ Alone /\ IO[d]
  /\ IO' = [IO EXCEPT ![d] = FALSE] /\ m_bIORunning' = IO[Other(d)]
  /\ timer = Interrupt(d) /\ UNCHANGED hrVars /\ TimerFrame

TimerNext == TimerFires \/ TimerStep \/ \E d \in Dirs : Interrupted(d)

IONext ==
  \/ \E d \in Dirs : startIO(d) \/ stopIO(d) \/ AppStepNext(d) \/ XrunStops(d)
  \/ \E n \in NICs : ClockLocks(n) \/ ClockResets(n)
  \/ MgrCall \/ MgrStep \/ TimerNext

LEMMA OtherDir ==
  /\ Other("capture") = "playback" /\ Other("playback") = "capture"
  /\ \A d \in Dirs : Other(d) \in Dirs /\ Other(d) # d /\ Dirs = {d, Other(d)}
<1>1. Other("capture") = "playback" /\ Other("playback") = "capture"
  BY DEF Other, Dirs
<1>2. \A d \in Dirs : Other(d) \in Dirs /\ Other(d) # d /\ Dirs = {d, Other(d)}
  BY <1>1 DEF Dirs
<1>3. QED BY <1>1, <1>2

\* A frame is at least one sample and at most m_MaxFrameSize long.
LEMMA FrameSizeBounds ==
  ASSUME NEW tic \in TICSizes, NEW rate \in Rates, NEW max \in MaxFrameSizes
  PROVE  FrameSize(tic, rate, max) \in 1 .. max
<1>1. tic \in Nat \ {0} /\ rate \in Nat \ {0} /\ max \in Nat \ {0}
  BY SizesAssumption
<1>2. PICK p \in Nat \ {0} : p = tic * rate
  BY <1>1
<1>3. PICK m \in {p, max} : m <= p /\ m <= max
  BY <1>1
<1>4. Min({p, max}) \in {p, max} /\ Min({p, max}) <= p /\ Min({p, max}) <= max
  BY <1>1, <1>3 DEF Min
<1>5. Min({p, max}) \in 1 .. max
  BY <1>1, <1>4
<1>6. QED BY <1>2, <1>5 DEF FrameSize

\* Every step of the PCM devices is one of the manager's, or none.
LEMMA StepIO == ASSUME PcmNext PROVE IONext \/ UNCHANGED vars
<1>1. PcmDirs \subseteq Dirs
  BY PcmAssumption
<1>2. ASSUME NEW d \in PcmDirs,
             \/ pcm_open(d) \/ pcm_close(d)
             \/ pcm_prepare(d) \/ \E size \in BufferSizes : PrepareSize(d, size)
             \/ pcm_interrupt(d) \/ CopyFrame(d) \/ ReduceOffset(d)
      PROVE  UNCHANGED vars
  BY <1>2, Zenon DEF pcm_open, pcm_close, pcm_prepare, PrepareSize, pcm_interrupt, CopyFrame,
     ReduceOffset
<1>3. ASSUME NEW d \in PcmDirs,
             TriggerStart(d) \/ \E state \in {"setup", "paused"} : TriggerStop(d, state)
      PROVE  startIO(d) \/ stopIO(d) \/ UNCHANGED vars
  BY <1>3, Zenon DEF TriggerStart, TriggerStop
<1>4. ASSUME NEW d \in PcmDirs, NoSubstream(d) \/ StoreOffset(d)
      PROVE  Interrupted(d)
  BY <1>4, Zenon DEF NoSubstream, StoreOffset
<1>5. ASSUME NEW d \in PcmDirs, StoreOffset_xrun(d)
      PROVE  XrunStops(d)
  BY <1>5, Zenon DEF StoreOffset_xrun, XrunStops, Called
<1>6. QED
  BY <1>1, <1>2, <1>3, <1>4, <1>5, Zenon DEF PcmNext, InterruptStep, IONext, TimerNext

LEMMA TimerKeeps ==
  ASSUME TimerNext
  PROVE  m_bIORunning' = m_bIORunning /\ IO' = IO /\ TimerFrame
BY Zenon DEF TimerNext, TimerFires, TimerStep, Interrupted, Select_PTP_NIC, AudioFrameTIC,
   TimerEnds, TimerRestarts, TestIO, ioVars

-----------------------------------------------------------------------------
(***************************************************************************)
(* Types                                                                   *)
(***************************************************************************)
\* What a step of the management thread that only moves on does to it.
LEMMA MgrMoves ==
  ASSUME MgrType, NEW from, NEW to \in MgrPCs, MgrGoes(from, to)
  PROVE  /\ MgrType'
         /\ mgr.pc = from /\ mgr'.pc = to
         /\ mgr'.restart = mgr.restart /\ mgr'.tic = mgr.tic /\ mgr'.max = mgr.max /\ mgr'.run = mgr.run
BY DEF MgrType, MgrRecords, MgrGoes

\* stopIO by the management thread, and the write that ends it.
LEMMA MgrStopIOMoves ==
  ASSUME MgrType, FlagType, NEW d \in Dirs, NEW from, NEW write \in MgrPCs, NEW next \in MgrPCs,
         MgrStopIO(d, from, write, next)
  PROVE  /\ MgrType'
         /\ mgr.pc = from /\ mgr'.restart = mgr.restart /\ mgr'.tic = mgr.tic /\ mgr'.max = mgr.max
         /\ \/ IO[d] /\ mgr'.pc = write /\ mgr'.run = IO[Other(d)]
            \/ ~IO[d] /\ mgr'.pc = next /\ IO' = IO
<1>1. PICK run \in BOOLEAN : run = IO[Other(d)]
  BY OtherDir DEF FlagType
<1>2. mgr.pc = from
  BY DEF MgrStopIO
<1>3. CASE IO[d]
  <2>1. mgr' = [mgr EXCEPT !.pc = write, !.run = run]
    BY <1>1, <1>3, Zenon DEF MgrStopIO
  <2>2. MgrType' /\ mgr'.restart = mgr.restart /\ mgr'.tic = mgr.tic /\ mgr'.max = mgr.max
        /\ mgr'.pc = write /\ mgr'.run = run
    BY <2>1 DEF MgrType, MgrRecords
  <2>3. QED BY <1>1, <1>2, <1>3, <2>2
<1>4. CASE ~IO[d]
  <2>1. mgr' = [mgr EXCEPT !.pc = next] /\ IO' = IO
    BY <1>4, Zenon DEF MgrStopIO
  <2>2. MgrType' /\ mgr'.restart = mgr.restart /\ mgr'.tic = mgr.tic /\ mgr'.max = mgr.max /\ mgr'.pc = next
    BY <2>1 DEF MgrType, MgrRecords
  <2>3. QED BY <1>2, <1>4, <2>1, <2>2
<1>5. QED BY <1>3, <1>4

LEMMA MgrStopWriteMoves ==
  ASSUME MgrType, NEW write, NEW next \in MgrPCs, MgrStopWrite(write, next)
  PROVE  /\ MgrType'
         /\ mgr.pc = write /\ mgr'.restart = mgr.restart /\ mgr'.tic = mgr.tic /\ mgr'.max = mgr.max
         /\ mgr'.pc = next
BY DEF MgrType, MgrRecords, MgrStopWrite

LEMMA IdleFacts ==
  /\ Idle \in MgrRecords
  /\ Idle.pc = "idle" /\ ~Idle.restart /\ Idle.tic = 0
BY SizesAssumption DEF Idle, MgrPCs, MgrRecords

LEMMA MgrCallType == ASSUME TypeInv, MgrCall PROVE MgrType' /\ RestartSizes'
<1> USE DEF MgrPCs, Starting, Silencing, Halting, Rating, MgrRecords, RestartSizes
<1>1. MgrType /\ RestartSizes
  BY DEF TypeInv, SizeType
<1>2. CASE MgrStart
  BY <1>1, <1>2, MgrMoves DEF MgrStart
<1>3. ASSUME NEW restart \in BOOLEAN, NEW tic \in TICSizes \cup {0},
             NEW max \in MaxFrameSizes \cup {0}, MgrStop(restart, tic, max),
             restart => tic \in TICSizes /\ max \in MaxFrameSizes
      PROVE  MgrType' /\ RestartSizes'
  BY <1>1, <1>3 DEF MgrStop, MgrType
<1>4. ASSUME NEW tic \in TICSizes, NEW max \in MaxFrameSizes, SetFrameSizes(tic, max)
      PROVE  MgrType' /\ RestartSizes'
  BY <1>1, <1>3, <1>4 DEF SetFrameSizes, MgrType
<1>5. ASSUME NEW named \in NamedNICs, SetInterfaceName(named)
      PROVE  MgrType' /\ RestartSizes'
  BY <1>1, <1>5 DEF SetInterfaceName, MgrType
<1>6. ASSUME NEW rate \in Rates, SetSamplingRate(rate)
      PROVE  MgrType' /\ RestartSizes'
  BY <1>1, <1>6 DEF SetSamplingRate, MgrType
<1>7. m_TICFrameSizeAt1FS \in TICSizes /\ m_MaxFrameSize \in MaxFrameSizes
  BY DEF TypeInv, SizeType
<1>8. QED
  BY <1>2, <1>3, <1>4, <1>5, <1>6, <1>7 DEF MgrCall, SetTICFrameSizeAt1FS, SetMaxTICFrameSize

LEMMA MgrStepType == ASSUME TypeInv, MgrStep PROVE MgrType' /\ RestartSizes'
<1> USE DEF MgrPCs, Starting, Silencing, Halting, Rating, MgrRecords, RestartSizes
<1>1. MgrType /\ RestartSizes /\ FlagType
  BY DEF TypeInv, SizeType
<1>2. ASSUME NEW from, NEW to \in MgrPCs, MgrGoes(from, to)
      PROVE  MgrType' /\ RestartSizes'
  BY <1>1, <1>2, MgrMoves
<1>3. ASSUME NEW n \in NICs, NEW from, NEW to \in MgrPCs, StartClock(n, from, to) \/ StopClock(n, from, to)
      PROVE  MgrType' /\ RestartSizes'
  BY <1>2, <1>3, Zenon DEF StartClock, StopClock
<1>4. ASSUME NEW from, NEW to \in MgrPCs, start_clock_timer(from, to)
      PROVE  MgrType' /\ RestartSizes'
  BY <1>2, <1>4, Zenon DEF start_clock_timer
<1>5. CASE stop_clock_timer \/ tasklet_kill
  BY <1>2, <1>5 DEF stop_clock_timer, tasklet_kill
<1>6. ASSUME NEW d \in Dirs, NEW from, NEW write \in MgrPCs, NEW next \in MgrPCs,
             MgrStopIO(d, from, write, next) \/ MgrStopWrite(write, next)
      PROVE  MgrType' /\ RestartSizes'
  BY <1>1, <1>6, MgrStopIOMoves, MgrStopWriteMoves
<1>7. CASE Started \/ WaitEnds
  BY <1>7, IdleFacts DEF Started, WaitEnds, MgrType
<1>8. CASE Stopped \/ RateSet
  <2>1. \A pc \in MgrPCs : /\ [Idle EXCEPT !.pc = pc] \in MgrRecords
                           /\ ~[Idle EXCEPT !.pc = pc].restart
    BY SizesAssumption DEF Idle
  <2>2. PICK pc \in MgrPCs : mgr' = Idle \/ mgr' = [Idle EXCEPT !.pc = pc]
    BY <1>8 DEF Stopped, RateSet
  <2>3. QED BY <2>1, <2>2, IdleFacts DEF MgrType
<1>9. QED
  <2>1. {"start0", "start1", "timer", "started", "io_capture", "io_capture_write",
         "io_playback", "io_playback_write", "cancel", "stop0", "stop1", "stopped", "rate0",
         "rate1", "rate_timer", "wait"} \subseteq MgrPCs
    OBVIOUS
  <2>2. "capture" \in Dirs /\ "playback" \in Dirs /\ 0 \in NICs /\ 1 \in NICs
    BY DEF Dirs, NICs
  <2>3. QED
    BY <1>3, <1>4, <1>5, <1>6, <1>7, <1>8, <2>1, <2>2 DEF MgrStep

AppNext(d) == startIO(d) \/ stopIO(d) \/ AppStepNext(d)

\* The application that makes a call is the only one a step of it moves.
LEMMA AppMoves ==
  ASSUME FlagType, NEW d \in Dirs, AppNext(d)
  PROVE  /\ FlagType'
         /\ \A e \in Dirs : e # d => alsa'[e] = alsa[e] /\ IO'[e] = IO[e]
         /\ AppFrame
<1>1. PICK run \in BOOLEAN : run = IO[Other(d)]
  BY OtherDir DEF FlagType
<1>2. AppFrame
  BY Zenon DEF AppNext, AppStepNext, startIO, stopIO, StartFlag, StartRun, StopWrite
<1>3. m_bIsStarted' = m_bIsStarted
  BY <1>2 DEF AppFrame
<1>4. CASE startIO(d) \/ StartFlag(d) \/ StartRun(d)
  <2>1. PICK pc \in {"flag", "run", "idle"} : alsa' = [alsa EXCEPT ![d].pc = pc]
    BY <1>4 DEF startIO, StartFlag, StartRun, AppStep
  <2>2. IO' = IO \/ IO' = [IO EXCEPT ![d] = TRUE]
    BY <1>4 DEF startIO, StartFlag, StartRun, ioVars
  <2>3. m_bIORunning' = m_bIORunning \/ m_bIORunning' = TRUE
    BY <1>4 DEF startIO, StartFlag, StartRun, ioVars
  <2>4. QED BY <1>2, <1>3, <2>1, <2>2, <2>3 DEF FlagType
<1>5. CASE stopIO(d)
  <2>1. alsa' = [alsa EXCEPT ![d] = [pc |-> "write", run |-> run]]
    BY <1>1, <1>5 DEF stopIO
  <2>2. IO' = [IO EXCEPT ![d] = FALSE] /\ m_bIORunning' = m_bIORunning
    BY <1>5 DEF stopIO
  <2>3. QED BY <1>2, <1>3, <2>1, <2>2 DEF FlagType
<1>6. CASE StopWrite(d)
  <2>1. alsa' = [alsa EXCEPT ![d] = [pc |-> "idle", run |-> FALSE]]
    BY <1>6 DEF StopWrite, IdleApp
  <2>2. IO' = IO /\ m_bIORunning' = alsa[d].run
    BY <1>6 DEF StopWrite
  <2>3. QED BY <1>2, <1>3, <2>1, <2>2 DEF FlagType
<1>7. QED BY <1>4, <1>5, <1>6 DEF AppNext, AppStepNext

LEMMA XrunMoves ==
  ASSUME FlagType, NEW d \in Dirs, XrunStops(d)
  PROVE  FlagType'
<1>1. PICK run \in BOOLEAN : run = IO[Other(d)]
  BY OtherDir DEF FlagType
<1>2. IO' = [IO EXCEPT ![d] = FALSE] /\ m_bIORunning' = run
      /\ m_bIsStarted' = m_bIsStarted /\ alsa' = alsa
  BY <1>1 DEF XrunStops, TimerFrame
<1>3. QED BY <1>2 DEF FlagType

\* What the management thread leaves alone when a call of it begins.
LEMMA MgrCallKeeps ==
  ASSUME MgrCall
  PROVE  /\ Alone /\ mgr.pc = "idle"
         /\ alsa' = alsa /\ IO' = IO /\ m_bIORunning' = m_bIORunning
         /\ m_bIsStarted' = m_bIsStarted /\ clock' = clock
BY DEF MgrCall, MgrStart, MgrStop, SetTICFrameSizeAt1FS,
   SetMaxTICFrameSize, SetFrameSizes, SetInterfaceName, SetSamplingRate, MgrGoes,
   ioVars, MgrFrame

LEMMA MgrStepFlagType == ASSUME TypeInv, MgrStep PROVE FlagType'
<1>1. FlagType /\ MgrType
  BY DEF TypeInv
<1>2. alsa' = alsa
  BY Zenon DEF MgrStep, MgrStopIO, MgrStopWrite, Started, Stopped, WaitEnds, RateSet, stop_clock_timer,
     tasklet_kill, StartClock, StopClock, start_clock_timer, MgrFrame
<1>3. m_bIsStarted' \in BOOLEAN
  <2>1. m_bIsStarted' = m_bIsStarted \/ m_bIsStarted' = TRUE \/ m_bIsStarted' = FALSE
    BY Zenon DEF MgrStep, MgrStopIO, MgrStopWrite, Started, Stopped, WaitEnds, RateSet, stop_clock_timer,
       tasklet_kill, StartClock, StopClock, start_clock_timer
  <2>2. QED BY <1>1, <2>1 DEF FlagType
<1>4. m_bIORunning' \in BOOLEAN
  <2>1. m_bIORunning' = m_bIORunning \/ m_bIORunning' = mgr.run
    BY Zenon DEF MgrStep, MgrStopIO, MgrStopWrite, Started, Stopped, WaitEnds, RateSet, stop_clock_timer,
       tasklet_kill, StartClock, StopClock, start_clock_timer, ioVars
  <2>2. mgr.run \in BOOLEAN
    BY <1>1 DEF MgrType, MgrRecords
  <2>3. QED BY <1>1, <2>1, <2>2 DEF FlagType
<1>5. IO' \in [Dirs -> BOOLEAN]
  <2>1. \/ IO' = IO \/ IO' = [IO EXCEPT !["capture"] = FALSE]
        \/ IO' = [IO EXCEPT !["playback"] = FALSE]
    BY Zenon DEF MgrStep, MgrStopIO, MgrStopWrite, Started, Stopped, WaitEnds, RateSet, stop_clock_timer,
       tasklet_kill, StartClock, StopClock, start_clock_timer, ioVars
  <2>2. QED BY <1>1, <2>1 DEF FlagType
<1>6. QED BY <1>1, <1>2, <1>3, <1>4, <1>5 DEF FlagType

\* The sizes are set by a setter, or by the management thread when it has stopped or
\* has the new rate.
LEMMA SetSizesType ==
  ASSUME SizeType, NEW tic \in TICSizes, NEW max \in MaxFrameSizes, SetSizes(tic, max)
  PROVE  /\ m_SampleRate' \in Rates /\ m_TICFrameSizeAt1FS' \in TICSizes
         /\ m_MaxFrameSize' \in MaxFrameSizes /\ m_ui32FrameSize' \in 1 .. m_MaxFrameSize'
BY FrameSizeBounds DEF SizeType, SetSizes

LEMMA MgrSizeType ==
  ASSUME TypeInv, MgrCall \/ MgrStep
  PROVE  /\ m_SampleRate' \in Rates /\ m_TICFrameSizeAt1FS' \in TICSizes
         /\ m_MaxFrameSize' \in MaxFrameSizes /\ m_ui32FrameSize' \in 1 .. m_MaxFrameSize'
<1>1. SizeType /\ mgr.rate \in Rates
  BY DEF TypeInv, MgrType, MgrRecords
<1>2. CASE UNCHANGED sizeVars
  BY <1>1, <1>2 DEF SizeType, RestartSizes, sizeVars
<1>3. CASE \E tic \in TICSizes, max \in MaxFrameSizes : SetSizes(tic, max)
  BY <1>1, <1>3, SetSizesType
<1>4. CASE RateSet
  BY <1>1, <1>4, FrameSizeBounds DEF RateSet, SizeType
<1>5. CASE Stopped
  BY <1>1, <1>2, <1>3, <1>5 DEF Stopped, SizeType, RestartSizes
<1>6. ASSUME NEW tic \in TICSizes, NEW max \in MaxFrameSizes, SetFrameSizes(tic, max)
      PROVE  UNCHANGED sizeVars \/ SetSizes(tic, max)
  BY <1>6, Zenon DEF SetFrameSizes, MgrStop
<1>7. CASE MgrCall
  <2>1. \/ UNCHANGED sizeVars
        \/ \E tic \in TICSizes : SetFrameSizes(tic, m_MaxFrameSize)
        \/ \E max \in MaxFrameSizes : SetFrameSizes(m_TICFrameSizeAt1FS, max)
    BY <1>7, Zenon DEF MgrCall, MgrStart, MgrStop, SetTICFrameSizeAt1FS, SetMaxTICFrameSize,
       SetInterfaceName, SetSamplingRate
  <2>2. m_TICFrameSizeAt1FS \in TICSizes /\ m_MaxFrameSize \in MaxFrameSizes
    BY <1>1 DEF SizeType
  <2>3. QED BY <1>2, <1>3, <1>6, <2>1, <2>2
<1>8. CASE MgrStep
  <2>1. UNCHANGED sizeVars \/ RateSet \/ Stopped
    BY <1>8, Zenon DEF MgrStep, MgrStopIO, MgrStopWrite, Started, WaitEnds, stop_clock_timer,
       tasklet_kill, StartClock, StopClock, start_clock_timer
  <2>2. QED BY <1>2, <1>4, <1>5, <2>1
<1>9. QED BY <1>7, <1>8

\* The steps that start, stop, lock or reset a clock.
LEMMA ClockSteps ==
  ASSUME TypeInv, NEW n \in NICs, NEW from, NEW to,
         StartClock(n, from, to) \/ StopClock(n, from, to) \/ ClockLocks(n) \/ ClockResets(n)
  PROVE  NICType'
<1>1. NICType /\ m_ui32FrameSize \in Nat /\ m_SampleRate \in Nat
  BY SizesAssumption DEF TypeInv, SizeType
<1>2. m_Is_NIC_Active' = m_Is_NIC_Active /\ (renamed' = renamed \/ renamed' = FALSE)
  BY Zenon DEF StartClock, StopClock, ClockLocks, ClockResets, activeVars
<1>3. \/ clock' = clock
      \/ clock' = [clock EXCEPT ![n] = [started |-> TRUE, locked |-> FALSE,
                                        frame |-> m_ui32FrameSize, rate |-> m_SampleRate]]
      \/ clock' = [clock EXCEPT ![n] = Off]
      \/ clock' = [clock EXCEPT ![n].locked = TRUE]
      \/ clock' = [clock EXCEPT ![n].locked = FALSE]
  BY Zenon DEF StartClock, StopClock, ClockLocks, ClockResets, StartAudioFrameTICTimer,
     StopAudioFrameTICTimer
<1>4. clock' \in [NICs -> Clocks]
  <2>1. CASE clock' = [clock EXCEPT ![n] = Off]
    BY <1>1, <2>1 DEF NICType, Clocks, Off
  <2>2. CASE clock' = [clock EXCEPT ![n] = [started |-> TRUE, locked |-> FALSE,
                                            frame |-> m_ui32FrameSize, rate |-> m_SampleRate]]
    BY <1>1, <2>2 DEF NICType, Clocks
  <2>3. CASE clock' = [clock EXCEPT ![n].locked = TRUE]
    <3>1. [clock[n] EXCEPT !.locked = TRUE] \in Clocks
      BY <1>1 DEF NICType, Clocks
    <3>2. clock' = [clock EXCEPT ![n] = [clock[n] EXCEPT !.locked = TRUE]]
      BY <2>3, Zenon
    <3>3. QED BY <1>1, <3>1, <3>2 DEF NICType
  <2>4. CASE clock' = [clock EXCEPT ![n].locked = FALSE]
    <3>1. [clock[n] EXCEPT !.locked = FALSE] \in Clocks
      BY <1>1 DEF NICType, Clocks
    <3>2. clock' = [clock EXCEPT ![n] = [clock[n] EXCEPT !.locked = FALSE]]
      BY <2>4, Zenon
    <3>3. QED BY <1>1, <3>1, <3>2 DEF NICType
  <2>5. CASE clock' = clock
    BY <1>1, <2>5 DEF NICType
  <2>6. QED BY <1>3, <2>1, <2>2, <2>3, <2>4, <2>5, Zenon
<1>5. QED BY <1>1, <1>2, <1>4 DEF NICType

LEMMA MgrNICType == ASSUME TypeInv, MgrCall \/ MgrStep PROVE NICType'
<1>1. NICType
  BY DEF TypeInv
<1>2. CASE UNCHANGED <<activeVars, clock>>
  BY <1>1, <1>2 DEF NICType, activeVars
<1>3. CASE \E named \in NamedNICs : SetInterfaceName(named)
  BY <1>1, <1>3 DEF SetInterfaceName, NICType, TypeInv, FlagType
<1>4. CASE \E n \in NICs : \E from, to : StartClock(n, from, to) \/ StopClock(n, from, to)
  BY <1>4, ClockSteps
<1>5. \/ UNCHANGED <<activeVars, clock>> \/ \E named \in NamedNICs : SetInterfaceName(named)
      \/ \E n \in NICs : \E from, to : StartClock(n, from, to) \/ StopClock(n, from, to)
  <2>1. 0 \in NICs /\ 1 \in NICs
    BY DEF NICs
  <2>2. QED
    BY <2>1, Zenon DEF MgrCall, MgrStart, MgrStop, SetTICFrameSizeAt1FS,
       SetMaxTICFrameSize, SetFrameSizes, SetSamplingRate,
       MgrStep, MgrStopIO, MgrStopWrite, Started, Stopped, RateSet, WaitEnds, stop_clock_timer,
       tasklet_kill, start_clock_timer
<1>6. QED BY <1>2, <1>3, <1>4, <1>5

LEMMA InitType == Init => TypeInv
<1> SUFFICES ASSUME Init PROVE TypeInv
  OBVIOUS
<1>1. MgrType /\ ~mgr.restart
  BY IdleFacts DEF Init, MgrType, MgrRecords
<1>2. FlagType
  BY DEF Init, FlagType, IdleApp
<1>3. SizeType
  BY <1>1, FrameSizeBounds, SizesAssumption DEF Init, SizeType, RestartSizes
<1>4. NICType
  BY DEF Init, NICType, Clocks, Off
<1>5. QED BY <1>1, <1>2, <1>3, <1>4 DEF TypeInv

LEMMA NextType == ASSUME TypeInv, IONext \/ UNCHANGED vars PROVE TypeInv'
<1>1. MgrType /\ FlagType /\ SizeType /\ NICType
  BY DEF TypeInv
<1>2. ASSUME UNCHANGED <<sizeVars, nicVars, mgr>> PROVE MgrType' /\ SizeType' /\ NICType'
  BY <1>1, <1>2 DEF MgrType, MgrRecords, SizeType, RestartSizes, NICType, sizeVars, nicVars, activeVars
<1>3. ASSUME UNCHANGED <<m_bIsStarted, ioVars, alsa>> PROVE FlagType'
  BY <1>1, <1>3 DEF FlagType, ioVars
<1>4. ASSUME NEW d \in Dirs, AppNext(d) PROVE TypeInv'
  <2>1. UNCHANGED <<sizeVars, nicVars, mgr>>
    BY <1>1, <1>4, AppMoves, Zenon DEF AppFrame
  <2>2. QED BY <1>1, <1>2, <1>4, <2>1, AppMoves DEF TypeInv
<1>5. ASSUME NEW d \in Dirs, XrunStops(d) PROVE TypeInv'
  <2>1. UNCHANGED <<sizeVars, nicVars, mgr>>
    BY <1>5, Zenon DEF XrunStops, TimerFrame
  <2>2. QED BY <1>1, <1>2, <1>5, <2>1, XrunMoves DEF TypeInv
<1>6. ASSUME NEW n \in NICs, ClockLocks(n) \/ ClockResets(n) PROVE TypeInv'
  <2>1. UNCHANGED <<m_bIsStarted, ioVars, alsa, sizeVars, mgr>>
    BY <1>6, Zenon DEF ClockLocks, ClockResets
  <2>2. MgrType' /\ SizeType'
    BY <1>1, <2>1 DEF MgrType, MgrRecords, SizeType, RestartSizes, sizeVars
  <2>3. NICType'
    BY <1>6, ClockSteps
  <2>4. FlagType'
    BY <1>3, <2>1, Zenon
  <2>5. QED BY <2>2, <2>3, <2>4 DEF TypeInv
<1>7. CASE MgrCall
  <2>1. FlagType'
    BY <1>1, <1>7, MgrCallKeeps DEF FlagType
  <2>2. SizeType'
    BY <1>7, MgrCallType, MgrSizeType DEF SizeType
  <2>3. QED BY <1>7, <2>1, <2>2, MgrCallType, MgrNICType DEF TypeInv
<1>8. CASE MgrStep
  <2>1. SizeType'
    BY <1>8, MgrStepType, MgrSizeType DEF SizeType
  <2>2. QED BY <1>8, <2>1, MgrStepType, MgrNICType, MgrStepFlagType DEF TypeInv
<1>9. CASE TimerNext \/ UNCHANGED vars
  <2>1. UNCHANGED <<m_bIsStarted, ioVars, alsa>> /\ UNCHANGED <<sizeVars, nicVars, mgr>>
    BY <1>9, TimerKeeps DEF TimerFrame, vars, ioVars
  <2>2. QED BY <1>2, <1>3, <2>1 DEF TypeInv
<1>10. QED BY <1>4, <1>5, <1>6, <1>7, <1>8, <1>9 DEF IONext, AppNext

-----------------------------------------------------------------------------
(***************************************************************************)
(* The calls take turns                                                    *)
(***************************************************************************)
LEMMA MgrStepKeeps ==
  ASSUME MgrType, MgrStep
  PROVE  alsa' = alsa /\ mgr.pc # "idle" /\ (mgr.pc = "wait" => mgr'.pc = "idle")
<1>1. alsa' = alsa
  BY Zenon DEF MgrStep, MgrStopIO, MgrStopWrite, Started, Stopped, WaitEnds, RateSet, stop_clock_timer,
     tasklet_kill, StartClock, StopClock, start_clock_timer, MgrFrame
<1>2. mgr.pc # "idle" /\ (mgr.pc = "wait" => mgr' = Idle)
  BY DEF MgrStep, MgrStopIO, MgrStopWrite, Started, Stopped, WaitEnds, RateSet, stop_clock_timer,
     tasklet_kill, StartClock, StopClock, start_clock_timer, MgrGoes
<1>3. QED BY <1>1, <1>2, IdleFacts

LEMMA NextTurns == ASSUME TypeInv, Turns, IONext \/ UNCHANGED vars PROVE Turns'
<1>1. MgrType /\ FlagType
  BY DEF TypeInv
<1>2. ASSUME UNCHANGED <<alsa, mgr>> PROVE Turns'
  BY <1>2 DEF Turns, AppsIdle
<1>3. ASSUME NEW d \in Dirs, AppNext(d) PROVE Turns'
  <2>1. mgr' = mgr /\ \A e \in Dirs : e # d => alsa'[e] = alsa[e]
    BY <1>1, <1>3, AppMoves, Zenon DEF AppFrame
  <2>2. CASE startIO(d) \/ stopIO(d)
    <3>1. mgr.pc \in {"idle", "wait"} /\ AppsIdle
      BY <2>2 DEF startIO, stopIO, Alone
    <3>2. QED BY <2>1, <3>1 DEF Turns, AppsIdle
  <2>3. CASE AppStepNext(d)
    <3>1. alsa[d].pc # "idle"
      BY <2>3 DEF AppStepNext, StartFlag, StartRun, StopWrite
    <3>2. mgr.pc \in {"idle", "wait"} /\ \A e \in Dirs : e # d => alsa[e].pc = "idle"
      BY <3>1 DEF Turns, AppsIdle
    <3>3. QED BY <2>1, <3>2 DEF Turns, AppsIdle
  <2>4. QED BY <1>3, <2>2, <2>3 DEF AppNext
<1>4. ASSUME NEW d \in Dirs, XrunStops(d) PROVE Turns'
  BY <1>2, <1>4, Zenon DEF XrunStops, TimerFrame
<1>5. ASSUME NEW n \in NICs, ClockLocks(n) \/ ClockResets(n) PROVE Turns'
  BY <1>2, <1>5, Zenon DEF ClockLocks, ClockResets
<1>6. CASE MgrCall
  BY <1>6, MgrCallKeeps DEF Alone, Turns, AppsIdle
<1>7. CASE MgrStep
  BY <1>1, <1>7, MgrStepKeeps DEF Turns, AppsIdle
<1>8. CASE TimerNext \/ UNCHANGED vars
  <2>1. UNCHANGED <<alsa, mgr>>
    BY <1>8, TimerKeeps, Zenon DEF TimerFrame, vars
  <2>2. QED BY <1>2, <2>1
<1>9. QED BY <1>3, <1>4, <1>5, <1>6, <1>7, <1>8 DEF IONext, AppNext

-----------------------------------------------------------------------------
(***************************************************************************)
(* m_bIORunning is the disjunction of the directions                       *)
(***************************************************************************)
\* By an application: the two writes of startIO and of stopIO.
LEMMA AppFlags ==
  ASSUME TypeInv, Turns, FlagInv, StartedInv, NEW d \in Dirs, AppNext(d)
  PROVE  FlagInv' /\ StartedInv'
<1>1. FlagType /\ mgr' = mgr /\ m_bIsStarted' = m_bIsStarted
      /\ \A e \in Dirs : e # d => alsa'[e] = alsa[e] /\ IO'[e] = IO[e]
  BY AppMoves, Zenon DEF AppFrame, TypeInv
<1>2. mgr.pc \in {"idle", "wait"} /\ \A e \in Dirs : e # d => alsa[e].pc = "idle"
  BY DEF AppNext, startIO, stopIO, AppStepNext, StartFlag, StartRun, StopWrite, Alone, Turns, AppsIdle
<1>3. \A e \in Dirs : e # d => alsa'[e].pc = "idle" /\ e = Other(d)
  BY <1>1, <1>2, OtherDir
<1>4. Other(d) \in Dirs /\ Other(d) # d /\ IO[d] \in BOOLEAN /\ IO[Other(d)] \in BOOLEAN
      /\ IO'[Other(d)] = IO[Other(d)]
  BY <1>1, OtherDir DEF FlagType
<1>5. /\ SomeIO <=> IO[d] \/ IO[Other(d)]
      /\ SomeIO' <=> IO'[d] \/ IO'[Other(d)]
  BY <1>4, OtherDir DEF SomeIO
<1>6. AppsIdle <=> alsa[d].pc = "idle"
  BY <1>2 DEF AppsIdle
<1>7. AppsIdle' <=> alsa'[d].pc = "idle"
  BY <1>3 DEF AppsIdle
<1>8. mgr'.pc \in {"idle", "wait"}
  BY <1>1, <1>2
<1>9. ASSUME /\ alsa'[d].pc \in {"idle", "flag"} => (m_bIORunning' <=> SomeIO')
             /\ alsa'[d].pc = "run" => IO'[d]
             /\ alsa'[d].pc = "write" => ~IO'[d] /\ (alsa'[d].run <=> IO'[Other(d)])
             /\ m_bIORunning' \/ SomeIO' => m_bIsStarted'
             /\ alsa'[d].pc \in {"flag", "run"} => m_bIsStarted'
      PROVE  FlagInv' /\ StartedInv'
  <2>1. \A e \in Dirs : e = d \/ alsa'[e].pc = "idle"
    BY <1>3
  <2>2. FlagInv'
    BY <1>7, <1>8, <1>9, <2>1 DEF FlagInv, Halting
  <2>3. StartedInv'
    BY <1>9, <2>1 DEF StartedInv
  <2>4. QED BY <2>2, <2>3
<1>10. CASE startIO(d)
  <2>1. alsa'[d].pc = "flag" /\ IO' = IO /\ m_bIORunning' = m_bIORunning /\ m_bIsStarted
        /\ AppsIdle
    BY <1>1, <1>10 DEF startIO, AppStep, ioVars, FlagType, Alone
  <2>2. m_bIORunning <=> SomeIO
    BY <1>2, <2>1 DEF FlagInv
  <2>3. SomeIO' <=> SomeIO
    BY <2>1 DEF SomeIO
  <2>4. QED BY <1>1, <1>9, <2>1, <2>2, <2>3
<1>11. CASE StartFlag(d)
  <2>1. alsa[d].pc = "flag" /\ alsa'[d].pc = "run" /\ IO'[d] = TRUE
    BY <1>1, <1>11 DEF StartFlag, AppStep, FlagType
  <2>2. m_bIsStarted
    BY <2>1 DEF StartedInv
  <2>3. QED BY <1>1, <1>9, <2>1, <2>2
<1>12. CASE StartRun(d)
  <2>1. alsa[d].pc = "run" /\ alsa'[d].pc = "idle" /\ IO' = IO /\ m_bIORunning' = TRUE
    BY <1>1, <1>12 DEF StartRun, AppStep, FlagType
  <2>2. m_bIsStarted /\ IO[d]
    BY <2>1 DEF StartedInv, FlagInv
  <2>3. SomeIO'
    BY <2>1, <2>2 DEF SomeIO
  <2>4. QED BY <1>1, <1>9, <2>1, <2>2, <2>3
<1>13. CASE stopIO(d)
  <2>1. IO[d] /\ ~IO'[d] /\ m_bIORunning' = m_bIORunning
    BY <1>1, <1>13 DEF stopIO, FlagType
  <2>2. alsa'[d].pc = "write" /\ alsa'[d].run = IO[Other(d)]
    BY <1>1, <1>4, <1>13 DEF stopIO, FlagType
  <2>3. m_bIsStarted
    BY <1>5, <2>1 DEF StartedInv
  <2>4. QED BY <1>1, <1>4, <1>9, <2>1, <2>2, <2>3
<1>14. CASE StopWrite(d)
  <2>1. alsa[d].pc = "write" /\ alsa'[d].pc = "idle" /\ IO' = IO /\ m_bIORunning' = alsa[d].run
    BY <1>1, <1>14 DEF StopWrite, IdleApp, FlagType
  <2>2. ~IO[d] /\ (alsa[d].run <=> IO[Other(d)])
    BY <2>1 DEF FlagInv
  <2>3. m_bIORunning' <=> SomeIO'
    BY <1>5, <2>1, <2>2
  <2>4. SomeIO' => m_bIsStarted
    BY <2>1 DEF StartedInv, SomeIO
  <2>5. QED BY <1>1, <1>9, <2>1, <2>3, <2>4
<1>15. QED BY <1>10, <1>11, <1>12, <1>13, <1>14 DEF AppNext, AppStepNext

\* By an underrun, which does a whole stopIO at once.
LEMMA XrunFlags ==
  ASSUME TypeInv, Turns, FlagInv, StartedInv, NEW d \in Dirs, XrunStops(d)
  PROVE  FlagInv' /\ StartedInv'
<1>1. FlagType /\ mgr' = mgr /\ m_bIsStarted' = m_bIsStarted /\ alsa' = alsa
      /\ IO' = [IO EXCEPT ![d] = FALSE] /\ m_bIORunning' = IO[Other(d)]
      /\ AppsIdle /\ mgr.pc \in {"idle", "wait"} /\ IO[d]
  BY DEF TypeInv, XrunStops, TimerFrame, Alone
<1>2. ~IO'[d] /\ IO'[Other(d)] = IO[Other(d)]
  BY <1>1, OtherDir DEF FlagType
<1>3. SomeIO' <=> IO'[Other(d)]
  BY <1>2, OtherDir DEF SomeIO
<1>4. m_bIORunning' <=> SomeIO'
  BY <1>1, <1>2, <1>3
<1>5. m_bIsStarted
  BY <1>1 DEF StartedInv, SomeIO
<1>6. \A e \in Dirs : alsa'[e].pc = "idle"
  BY <1>1 DEF AppsIdle
<1>7. FlagInv'
  BY <1>1, <1>4, <1>6 DEF FlagInv, Halting
<1>8. StartedInv'
  BY <1>1, <1>5, <1>6 DEF StartedInv
<1>9. QED BY <1>7, <1>8

\* Steps that leave the flags alone.
LEMMA FlagsKept ==
  ASSUME FlagInv, StartedInv, IO' = IO, m_bIORunning' = m_bIORunning, alsa' = alsa,
         \/ mgr'.pc = mgr.pc /\ mgr'.run = mgr.run
         \/ /\ mgr.pc \notin {"io_capture_write", "io_playback_write"}
            /\ mgr'.pc \notin {"io_capture_write", "io_playback", "io_playback_write"},
         mgr'.pc \in Halting => ~m_bIORunning,
         m_bIsStarted => m_bIsStarted' \/ (AppsIdle /\ ~SomeIO /\ ~m_bIORunning)
  PROVE  FlagInv' /\ StartedInv'
<1>1. (SomeIO' <=> SomeIO) /\ (AppsIdle' <=> AppsIdle)
  BY DEF SomeIO, AppsIdle
<1>2. FlagInv'
  BY <1>1 DEF FlagInv
<1>3. StartedInv'
  BY <1>1 DEF StartedInv, AppsIdle
<1>4. QED BY <1>2, <1>3

LEMMA MgrCallGoes ==
  ASSUME MgrType, FlagType, MgrCall
  PROVE  /\ mgr.pc = "idle" /\ mgr'.pc \in {"idle", "start0", "io_capture", "cancel", "rate"}
         /\ mgr'.pc = "cancel" => ~m_bIORunning
         /\ mgr'.run = mgr.run
<1>1. ASSUME NEW restart, NEW tic, NEW max, MgrStop(restart, tic, max)
      PROVE  /\ mgr'.pc \in {"io_capture", "cancel"} /\ (mgr'.pc = "cancel" => ~m_bIORunning)
             /\ mgr'.run = mgr.run
  BY <1>1 DEF MgrStop, MgrType, MgrRecords, FlagType
<1>2. CASE \/ MgrStart \/ \E named \in NamedNICs : SetInterfaceName(named)
           \/ \E rate \in Rates : SetSamplingRate(rate)
  BY <1>2, MgrCallKeeps DEF MgrStart, MgrGoes, SetInterfaceName, SetSamplingRate, MgrType, MgrRecords
<1>3. ASSUME NEW tic, NEW max, SetFrameSizes(tic, max), ~MgrStop(TRUE, tic, max)
      PROVE  mgr' = mgr /\ mgr.pc = "idle"
  BY <1>3 DEF SetFrameSizes
<1>4. QED
  BY <1>1, <1>2, <1>3, MgrCallKeeps DEF MgrCall, SetTICFrameSizeAt1FS, SetMaxTICFrameSize

LEMMA MgrCallFlags ==
  ASSUME TypeInv, FlagInv, StartedInv, MgrCall
  PROVE  FlagInv' /\ StartedInv'
<1>1. MgrType /\ FlagType
  BY DEF TypeInv
<1>2. QED
  BY <1>1, MgrCallGoes, MgrCallKeeps, FlagsKept DEF Halting

\* By the management thread, in the stopIO of both directions.
LEMMA MgrStopIOFlags ==
  ASSUME TypeInv, Turns, FlagInv, StartedInv, NEW d \in Dirs,
         NEW from, NEW write, NEW next, MgrStopIO(d, from, write, next),
         \/ <<d, from, write, next>> = <<"capture", "io_capture", "io_capture_write", "io_playback">>
         \/ <<d, from, write, next>> = <<"playback", "io_playback", "io_playback_write", "cancel">>
  PROVE  FlagInv' /\ StartedInv'
<1>1. MgrType /\ FlagType /\ write \in MgrPCs /\ next \in MgrPCs
  BY DEF TypeInv, MgrPCs, Silencing, Halting
<1>2. /\ mgr.pc = from
      /\ \/ IO[d] /\ mgr'.pc = write /\ mgr'.run = IO[Other(d)]
         \/ ~IO[d] /\ mgr'.pc = next /\ IO' = IO
  BY <1>1, MgrStopIOMoves
<1>3. m_bIsStarted' = m_bIsStarted /\ m_bIORunning' = m_bIORunning /\ alsa' = alsa
  BY Zenon DEF MgrStopIO, MgrFrame
<1>4. AppsIdle /\ AppsIdle'
  BY <1>2, <1>3 DEF Turns, AppsIdle
<1>5. \A e \in Dirs : alsa'[e].pc = "idle"
  BY <1>4 DEF AppsIdle
<1>6. m_bIORunning <=> SomeIO
  BY <1>2, <1>4 DEF FlagInv
<1>7. SomeIO <=> IO["capture"] \/ IO["playback"]
  BY DEF SomeIO, Dirs
<1>8. SomeIO' <=> IO'["capture"] \/ IO'["playback"]
  BY DEF SomeIO, Dirs
<1>9. CASE IO[d]
  <2>1. IO' = [IO EXCEPT ![d] = FALSE]
    BY <1>9, Zenon DEF MgrStopIO
  <2>2. ~IO'[d] /\ IO'[Other(d)] = IO[Other(d)]
    BY <1>1, <2>1, OtherDir DEF FlagType
  <2>3. m_bIsStarted
    BY <1>9 DEF StartedInv, SomeIO
  <2>4. mgr'.pc = write /\ mgr'.run = IO[Other(d)]
    BY <1>2, <1>9
  <2>5. CASE d = "capture"
    <3>1. mgr'.pc = "io_capture_write" /\ (mgr'.run <=> IO'["playback"]) /\ ~IO'["capture"]
      BY <2>2, <2>4, <2>5, OtherDir
    <3>2. FlagInv'
      BY <1>5, <3>1 DEF FlagInv, Halting
    <3>3. QED BY <1>3, <1>5, <2>3, <3>2 DEF StartedInv
  <2>6. CASE d = "playback"
    <3>1. ~IO["capture"]
      BY <1>2, <2>6 DEF FlagInv
    <3>2. mgr'.pc = "io_playback_write" /\ ~mgr'.run /\ ~SomeIO'
      BY <1>8, <2>2, <2>4, <2>6, <3>1, OtherDir
    <3>3. FlagInv'
      BY <1>5, <3>2 DEF FlagInv, Halting
    <3>4. QED BY <1>3, <1>5, <2>3, <3>3 DEF StartedInv
  <2>7. QED BY <2>5, <2>6
<1>10. CASE ~IO[d]
  <2>1. mgr'.pc = next /\ IO' = IO
    BY <1>2, <1>10
  <2>2. StartedInv'
    BY <1>3, <2>1 DEF StartedInv, SomeIO
  <2>3. m_bIORunning' <=> SomeIO'
    BY <1>3, <1>6, <2>1 DEF SomeIO
  <2>4. CASE d = "capture"
    <3>1. mgr'.pc = "io_playback" /\ ~IO'["capture"]
      BY <1>10, <2>1, <2>4
    <3>2. FlagInv'
      BY <1>5, <2>3, <3>1 DEF FlagInv, Halting
    <3>3. QED BY <2>2, <3>2
  <2>5. CASE d = "playback"
    <3>1. ~IO["capture"]
      BY <1>2, <2>5 DEF FlagInv
    <3>2. mgr'.pc = "cancel" /\ ~SomeIO'
      BY <1>7, <1>8, <1>10, <2>1, <2>5, <3>1
    <3>3. FlagInv'
      BY <1>5, <2>3, <3>2 DEF FlagInv, Halting
    <3>4. QED BY <2>2, <3>3
  <2>6. QED BY <2>4, <2>5
<1>11. QED BY <1>9, <1>10

LEMMA MgrStopWriteFlags ==
  ASSUME TypeInv, Turns, FlagInv, StartedInv, NEW write, NEW next, MgrStopWrite(write, next),
         \/ <<write, next>> = <<"io_capture_write", "io_playback">>
         \/ <<write, next>> = <<"io_playback_write", "cancel">>
  PROVE  FlagInv' /\ StartedInv'
<1>1. MgrType /\ next \in MgrPCs
  BY DEF TypeInv, MgrPCs, Silencing, Halting
<1>2. mgr.pc = write /\ mgr'.pc = next /\ m_bIORunning' = mgr.run
      /\ IO' = IO /\ m_bIsStarted' = m_bIsStarted /\ alsa' = alsa
  BY <1>1, MgrStopWriteMoves DEF MgrStopWrite, MgrFrame
<1>3. \A e \in Dirs : alsa'[e].pc = "idle"
  BY <1>2 DEF Turns, AppsIdle
<1>4. /\ SomeIO <=> IO["capture"] \/ IO["playback"]
      /\ SomeIO' <=> SomeIO
  BY <1>2 DEF SomeIO, Dirs
<1>5. m_bIORunning' <=> SomeIO'
  BY <1>2, <1>4 DEF FlagInv
<1>6. StartedInv'
  BY <1>2, <1>3, <1>4, <1>5 DEF StartedInv
<1>7. CASE write = "io_capture_write"
  <2>1. mgr'.pc = "io_playback" /\ ~IO'["capture"]
    BY <1>2, <1>7 DEF FlagInv
  <2>2. FlagInv'
    BY <1>3, <1>5, <2>1 DEF FlagInv, Halting
  <2>3. QED BY <1>6, <2>2
<1>8. CASE write = "io_playback_write"
  <2>1. mgr'.pc = "cancel" /\ ~m_bIORunning'
    BY <1>2, <1>8 DEF FlagInv
  <2>2. FlagInv'
    BY <1>3, <1>5, <2>1 DEF FlagInv, Halting
  <2>3. QED BY <1>6, <2>2
<1>9. QED BY <1>7, <1>8

\* By the other steps of the management thread, which leave the flags alone.
LEMMA MgrOtherFlags ==
  ASSUME TypeInv, Turns, FlagInv, StartedInv,
         mgr.pc \notin Silencing, mgr'.pc \notin Silencing,
         mgr'.pc \in Halting => mgr.pc \in Halting,
         IO' = IO, m_bIORunning' = m_bIORunning, alsa' = alsa,
         m_bIsStarted' = m_bIsStarted \/ m_bIsStarted' = TRUE \/ mgr.pc = "stopped"
  PROVE  FlagInv' /\ StartedInv'
<1>1. mgr'.pc \in Halting => ~m_bIORunning
  BY DEF FlagInv
<1>2. mgr.pc = "stopped" => AppsIdle /\ ~SomeIO /\ ~m_bIORunning
  BY DEF FlagInv, Turns, Halting
<1>3. m_bIsStarted => m_bIsStarted' \/ (AppsIdle /\ ~SomeIO /\ ~m_bIORunning)
  BY <1>2
<1>4. QED BY <1>1, <1>3, FlagsKept DEF Silencing

LEMMA MgrStepFlags ==
  ASSUME TypeInv, Turns, FlagInv, StartedInv, MgrStep
  PROVE  FlagInv' /\ StartedInv'
<1>1. MgrType /\ FlagType /\ alsa' = alsa
  BY MgrStepKeeps DEF TypeInv
<1>2. CASE MgrStopIO("capture", "io_capture", "io_capture_write", "io_playback")
  BY <1>2, MgrStopIOFlags DEF Dirs
<1>3. CASE MgrStopIO("playback", "io_playback", "io_playback_write", "cancel")
  BY <1>3, MgrStopIOFlags DEF Dirs
<1>4. CASE MgrStopWrite("io_capture_write", "io_playback") \/ MgrStopWrite("io_playback_write", "cancel")
  BY <1>4, MgrStopWriteFlags
<1>5. ASSUME NEW n, NEW from, NEW to,
             \/ StartClock(n, from, to) \/ StopClock(n, from, to) \/ start_clock_timer(from, to)
             \/ stop_clock_timer /\ <<from, to>> = <<"cancel", "kill">>
             \/ tasklet_kill /\ <<from, to>> = <<"kill", "stop0">>,
             <<from, to>> \in
               {<<"start0", "start1">>, <<"start1", "timer">>, <<"timer", "started">>,
                <<"cancel", "kill">>, <<"kill", "stop0">>, <<"stop0", "stop1">>,
                <<"stop1", "stopped">>, <<"rate0", "rate1">>, <<"rate1", "rate_timer">>,
                <<"rate_timer", "wait">>}
      PROVE  FlagInv' /\ StartedInv'
  <2>1. MgrGoes(from, to) /\ IO' = IO /\ m_bIORunning' = m_bIORunning /\ m_bIsStarted' = m_bIsStarted
    BY <1>5 DEF StartClock, StopClock, start_clock_timer, stop_clock_timer, tasklet_kill, ioVars
  <2>2. mgr.pc = from /\ mgr'.pc = to
    BY <1>1, <2>1 DEF MgrGoes, MgrType, MgrRecords
  <2>3. mgr.pc \notin Silencing /\ mgr'.pc \notin Silencing
        /\ (mgr'.pc \in Halting => mgr.pc \in Halting)
    BY <1>5, <2>2 DEF Silencing, Halting
  <2>4. QED BY <1>1, <2>1, <2>3, MgrOtherFlags
<1>6. CASE Started \/ WaitEnds \/ RateSet \/ Stopped
  <2>1. IO' = IO /\ m_bIORunning' = m_bIORunning
    BY <1>6 DEF Started, WaitEnds, RateSet, Stopped, ioVars
  <2>2. m_bIsStarted' = m_bIsStarted \/ m_bIsStarted' = TRUE \/ mgr.pc = "stopped"
    BY <1>6, Zenon DEF Started, WaitEnds, RateSet, Stopped
  <2>3. mgr.pc \notin Silencing
    BY <1>6 DEF Started, WaitEnds, RateSet, Stopped, Silencing
  <2>4. mgr' = Idle \/ mgr' = [Idle EXCEPT !.pc = "rate0"] \/ mgr' = [Idle EXCEPT !.pc = "start0"]
    BY <1>6, Zenon DEF Started, WaitEnds, RateSet, Stopped
  <2>5. mgr'.pc \in {"idle", "rate0", "start0"}
    BY <2>4 DEF Idle
  <2>6. QED BY <1>1, <2>1, <2>2, <2>3, <2>5, MgrOtherFlags DEF Silencing, Halting
<1>7. QED BY <1>2, <1>3, <1>4, <1>5, <1>6 DEF MgrStep

LEMMA NextFlags ==
  ASSUME TypeInv, Turns, FlagInv, StartedInv, IONext \/ UNCHANGED vars
  PROVE  FlagInv' /\ StartedInv'
<1>1. ASSUME UNCHANGED <<m_bIsStarted, ioVars, mgr, alsa>> PROVE FlagInv' /\ StartedInv'
  <2>1. IO' = IO /\ m_bIORunning' = m_bIORunning /\ alsa' = alsa /\ mgr'.pc = mgr.pc
        /\ mgr'.run = mgr.run /\ m_bIsStarted' = m_bIsStarted
    BY <1>1 DEF ioVars
  <2>2. mgr'.pc \in Halting => ~m_bIORunning
    BY <2>1 DEF FlagInv
  <2>3. QED BY <2>1, <2>2, FlagsKept
<1>2. ASSUME NEW n \in NICs, ClockLocks(n) \/ ClockResets(n) PROVE FlagInv' /\ StartedInv'
  BY <1>1, <1>2, Zenon DEF ClockLocks, ClockResets
<1>3. CASE TimerNext \/ UNCHANGED vars
  <2>1. UNCHANGED <<m_bIsStarted, ioVars, mgr, alsa>>
    BY <1>3, TimerKeeps, Zenon DEF TimerFrame, vars, ioVars
  <2>2. QED BY <1>1, <2>1
<1>4. QED BY <1>2, <1>3, AppFlags, XrunFlags, MgrCallFlags, MgrStepFlags DEF IONext, AppNext

-----------------------------------------------------------------------------
(***************************************************************************)
(* The clocks follow the manager                                           *)
(***************************************************************************)
\* Between calls, and as long as no call has touched the clocks.
ClocksSettled ==
  IF m_bIsStarted THEN ~renamed => \A n \in NICs : Follows(n)
                  ELSE \A n \in NICs : ~clock[n].started

SettledPCs == {"idle", "wait", "start0", "cancel", "kill", "stop0", "rate"} \cup Silencing

LEMMA ClockInvSettled == ASSUME ClockInv, mgr.pc \in SettledPCs PROVE ClocksSettled
BY Zenon DEF ClockInv, SettledPCs, ClocksSettled

\* Steps that leave the sizes, the NICs and all of the clocks but their locks alone.
LEMMA FollowsKept ==
  ASSUME UNCHANGED <<sizeVars, m_Is_NIC_Active>>, NEW n,
         clock'[n].started = clock[n].started, clock'[n].frame = clock[n].frame,
         clock'[n].rate = clock[n].rate
  PROVE  Follows(n)' <=> Follows(n)
BY DEF Follows, sizeVars

LEMMA ClocksKept ==
  ASSUME ClockInv, UNCHANGED <<m_bIsStarted, sizeVars, activeVars>>, mgr'.pc = mgr.pc,
         \A n \in NICs : /\ clock'[n].started = clock[n].started
                         /\ clock'[n].frame = clock[n].frame /\ clock'[n].rate = clock[n].rate
  PROVE  ClockInv'
<1>1. \A n \in NICs : Follows(n)' <=> Follows(n)
  BY FollowsKept DEF activeVars
<1>2. m_bIsStarted' = m_bIsStarted /\ renamed' = renamed
  BY DEF activeVars
<1>3. 0 \in NICs /\ 1 \in NICs
  BY DEF NICs
<1>4. QED BY <1>1, <1>2, <1>3 DEF ClockInv

LEMMA LockSteps ==
  ASSUME TypeInv, ClockInv, NEW n \in NICs, ClockLocks(n) \/ ClockResets(n)
  PROVE  ClockInv'
<1>1. UNCHANGED <<m_bIsStarted, sizeVars, activeVars>> /\ mgr'.pc = mgr.pc
  BY Zenon DEF ClockLocks, ClockResets
<1>2. PICK b \in BOOLEAN : clock' = [clock EXCEPT ![n].locked = b]
  BY Zenon DEF ClockLocks, ClockResets
<1>3. clock' = [clock EXCEPT ![n] = [clock[n] EXCEPT !.locked = b]]
  BY <1>2, Zenon
<1>4. clock \in [NICs -> Clocks]
  BY DEF TypeInv, NICType
<1>5. \A m \in NICs : clock'[m] = IF m = n THEN [clock[n] EXCEPT !.locked = b] ELSE clock[m]
  BY <1>3, <1>4, Zenon
<1>6. PICK r : r = [clock[n] EXCEPT !.locked = b]
  OBVIOUS
<1>7. r.started = clock[n].started /\ r.frame = clock[n].frame /\ r.rate = clock[n].rate
  BY <1>4, <1>6 DEF Clocks
<1>8. \A m \in NICs : clock'[m] = IF m = n THEN r ELSE clock[m]
  BY <1>5, <1>6, Zenon
<1>9. QED BY <1>1, <1>7, <1>8, ClocksKept

LEMMA MgrCallClocks == ASSUME TypeInv, ClockInv, MgrCall PROVE ClockInv'
<1>1. mgr.pc = "idle" /\ clock' = clock /\ m_bIsStarted' = m_bIsStarted
      /\ mgr'.pc \in {"idle", "start0", "io_capture", "cancel", "rate"}
  BY MgrCallGoes, MgrCallKeeps DEF TypeInv
<1>2. UNCHANGED <<sizeVars, activeVars>> \/ ~m_bIsStarted \/ renamed' = m_bIsStarted
  BY Zenon DEF MgrCall, MgrStart, MgrStop, SetTICFrameSizeAt1FS, SetMaxTICFrameSize,
     SetFrameSizes, SetInterfaceName, SetSamplingRate
<1>3. ClocksSettled
  BY <1>1, ClockInvSettled DEF SettledPCs
<1>4. ClocksSettled'
  <2>1. CASE UNCHANGED <<sizeVars, activeVars>>
    <3>1. \A n \in NICs : Follows(n)' <=> Follows(n)
      BY <1>1, <2>1, FollowsKept DEF activeVars
    <3>2. QED BY <1>1, <1>3, <2>1, <3>1 DEF ClocksSettled, activeVars
  <2>2. CASE ~m_bIsStarted
    BY <1>1, <1>3, <2>2 DEF ClocksSettled
  <2>3. CASE m_bIsStarted /\ renamed' = m_bIsStarted
    BY <1>1, <2>3 DEF ClocksSettled
  <2>4. QED BY <1>2, <2>1, <2>2, <2>3
<1>5. QED BY <1>1, <1>4 DEF ClockInv, ClocksSettled

\* One clock is started, or stopped.
LEMMA StartClockFollows ==
  ASSUME TypeInv, NEW n \in NICs, NEW from, NEW to, StartClock(n, from, to)
  PROVE  /\ Follows(n)'
         /\ \A m \in NICs \ {n} : Follows(m) => Follows(m)'
         /\ m_bIsStarted' = m_bIsStarted
<1>1. UNCHANGED <<sizeVars, m_Is_NIC_Active>> /\ m_bIsStarted' = m_bIsStarted
  BY Zenon DEF StartClock
<1>2. CASE m_Is_NIC_Active[n]
  <2>1. clock' = [clock EXCEPT ![n] = [started |-> TRUE, locked |-> FALSE,
                                       frame |-> m_ui32FrameSize, rate |-> m_SampleRate]]
    BY <1>2 DEF StartClock, StartAudioFrameTICTimer
  <2>2. clock'[n] = [started |-> TRUE, locked |-> FALSE, frame |-> m_ui32FrameSize,
                     rate |-> m_SampleRate]
        /\ \A m \in NICs \ {n} : clock'[m] = clock[m]
    BY <2>1, Zenon DEF TypeInv, NICType
  <2>3. Follows(n)'
    BY <1>1, <2>2 DEF Follows, sizeVars
  <2>4. \A m \in NICs \ {n} : Follows(m) => Follows(m)'
    BY <1>1, <2>2, FollowsKept
  <2>5. QED BY <1>1, <2>3, <2>4
<1>3. CASE ~m_Is_NIC_Active[n]
  <2>1. clock' = clock
    BY <1>3, Zenon DEF StartClock
  <2>2. Follows(n)'
    BY <1>1, <1>3 DEF Follows
  <2>3. QED BY <1>1, <2>1, <2>2, FollowsKept
<1>4. QED BY <1>2, <1>3

LEMMA StopClockStops ==
  ASSUME TypeInv, NEW n \in NICs, NEW from, NEW to, StopClock(n, from, to)
  PROVE  /\ ~clock'[n].started
         /\ \A m \in NICs \ {n} : clock'[m] = clock[m]
<1>1. clock' = [clock EXCEPT ![n] = Off]
  BY Zenon DEF StopClock, StopAudioFrameTICTimer
<1>2. clock \in [NICs -> Clocks]
  BY DEF TypeInv, NICType
<1>3. clock'[n] = Off /\ \A m \in NICs \ {n} : clock'[m] = clock[m]
  BY <1>1, <1>2, Zenon
<1>4. QED BY <1>3 DEF Off

LEMMA MgrStepClocks == ASSUME TypeInv, ClockInv, MgrStep PROVE ClockInv'
<1> USE DEF Silencing
<1>1. MgrType /\ FlagType /\ 0 \in NICs /\ 1 \in NICs /\ NICs = {0, 1}
  BY DEF TypeInv, NICs
<1>2. ASSUME NEW n \in NICs, NEW from, NEW to, StartClock(n, from, to)
      PROVE  mgr.pc = from /\ mgr'.pc = to
  BY <1>1, <1>2 DEF StartClock, MgrGoes, MgrType, MgrRecords
<1>3. CASE StartClock(0, "start0", "start1") \/ StartClock(0, "rate0", "rate1")
  <2>1. mgr'.pc = "start1" \/ (mgr.pc = "rate0" /\ mgr'.pc = "rate1")
    BY <1>1, <1>2, <1>3
  <2>2. Follows(0)' /\ m_bIsStarted' = m_bIsStarted
    BY <1>1, <1>3, StartClockFollows
  <2>3. mgr.pc = "rate0" => m_bIsStarted
    BY DEF ClockInv
  <2>4. QED BY <2>1, <2>2, <2>3 DEF ClockInv
<1>4. CASE StartClock(1, "start1", "timer") \/ StartClock(1, "rate1", "rate_timer")
  <2>1. (mgr.pc = "start1" /\ mgr'.pc = "timer") \/ (mgr.pc = "rate1" /\ mgr'.pc = "rate_timer")
    BY <1>1, <1>2, <1>4
  <2>2. Follows(0) /\ (mgr.pc = "rate1" => m_bIsStarted)
    BY <2>1 DEF ClockInv
  <2>3. 0 \in NICs \ {1}
    BY <1>1
  <2>4. Follows(0)' /\ Follows(1)' /\ m_bIsStarted' = m_bIsStarted
    BY <1>1, <1>4, <2>2, <2>3, StartClockFollows
  <2>5. QED BY <2>1, <2>2, <2>4 DEF ClockInv
<1>5. CASE StopClock(0, "stop0", "stop1")
  <2>1. mgr'.pc = "stop1"
    BY <1>1, <1>5 DEF StopClock, MgrGoes, MgrType, MgrRecords
  <2>2. ~clock'[0].started
    BY <1>1, <1>5, StopClockStops
  <2>3. QED BY <2>1, <2>2 DEF ClockInv
<1>6. CASE StopClock(1, "stop1", "stopped")
  <2>1. mgr.pc = "stop1" /\ mgr'.pc = "stopped"
    BY <1>1, <1>6 DEF StopClock, MgrGoes, MgrType, MgrRecords
  <2>2. 0 \in NICs \ {1}
    BY <1>1
  <2>3. ~clock'[1].started /\ clock'[0] = clock[0]
    BY <1>1, <1>6, <2>2, StopClockStops
  <2>4. QED BY <2>1, <2>3 DEF ClockInv
<1>7. CASE Stopped
  <2>1. m_bIsStarted' = FALSE /\ clock' = clock /\ mgr.pc = "stopped"
    BY <1>7 DEF Stopped
  <2>2. mgr' = Idle \/ mgr' = [Idle EXCEPT !.pc = "start0"]
    BY <1>7, Zenon DEF Stopped
  <2>3. mgr'.pc \in {"idle", "start0"}
    BY <2>2 DEF Idle
  <2>4. \A n \in NICs : ~clock'[n].started
    BY <1>1, <2>1 DEF ClockInv
  <2>5. QED BY <2>1, <2>3, <2>4 DEF ClockInv
<1>8. CASE RateSet
  <2>1. m_bIsStarted' = m_bIsStarted /\ clock' = clock /\ mgr.pc = "rate"
    BY <1>8 DEF RateSet
  <2>2. CASE m_bIsStarted
    <3>1. mgr' = [Idle EXCEPT !.pc = "rate0"]
      BY <1>8, <2>2, Zenon DEF RateSet
    <3>2. mgr'.pc = "rate0"
      BY <3>1 DEF Idle
    <3>3. QED BY <2>1, <2>2, <3>2 DEF ClockInv
  <2>3. CASE ~m_bIsStarted
    <3>1. mgr' = Idle
      BY <1>8, <2>3, Zenon DEF RateSet
    <3>2. mgr'.pc = "idle" /\ \A n \in NICs : ~clock'[n].started
      BY <2>1, <2>3, <3>1, IdleFacts DEF ClockInv
    <3>3. QED BY <2>1, <2>3, <3>2 DEF ClockInv
  <2>4. QED BY <2>2, <2>3
<1>9. CASE Started
  <2>1. m_bIsStarted' = TRUE /\ UNCHANGED <<sizeVars, activeVars>> /\ clock' = clock
        /\ mgr.pc = "started" /\ mgr'.pc = "idle"
    BY <1>9, IdleFacts DEF Started
  <2>2. Follows(0) /\ Follows(1)
    BY <2>1 DEF ClockInv
  <2>3. \A n \in NICs : Follows(n)'
    BY <1>1, <2>1, <2>2, FollowsKept DEF activeVars
  <2>4. QED BY <2>1, <2>3 DEF ClockInv
<1>10. ASSUME UNCHANGED <<m_bIsStarted, sizeVars, activeVars>>, clock' = clock,
              \/ mgr.pc \in SettledPCs /\ mgr'.pc \in SettledPCs \ {"wait"}
              \/ mgr.pc = "timer" /\ mgr'.pc = "started"
              \/ mgr.pc = "rate_timer" /\ mgr'.pc = "wait"
       PROVE  ClockInv'
  <2>1. \A n \in NICs : Follows(n)' <=> Follows(n)
    BY <1>10, FollowsKept DEF activeVars
  <2>2. m_bIsStarted' = m_bIsStarted /\ renamed' = renamed
    BY <1>10 DEF activeVars
  <2>3. CASE mgr.pc \in SettledPCs /\ mgr'.pc \in SettledPCs \ {"wait"}
    <3>1. ClocksSettled
      BY <2>3, ClockInvSettled
    <3>2. ClocksSettled'
      BY <1>10, <2>1, <2>2, <3>1 DEF ClocksSettled
    <3>3. QED BY <2>3, <3>2 DEF ClockInv, ClocksSettled, SettledPCs
  <2>4. CASE mgr.pc = "timer" /\ mgr'.pc = "started"
    BY <1>1, <2>1, <2>4 DEF ClockInv
  <2>5. CASE mgr.pc = "rate_timer" /\ mgr'.pc = "wait"
    BY <1>1, <2>1, <2>2, <2>5 DEF ClockInv
  <2>6. QED BY <1>10, <2>3, <2>4, <2>5
<1>11. ASSUME \/ start_clock_timer("timer", "started") \/ start_clock_timer("rate_timer", "wait")
              \/ stop_clock_timer \/ tasklet_kill \/ WaitEnds
       PROVE  ClockInv'
  <2>1. UNCHANGED <<m_bIsStarted, sizeVars, activeVars>> /\ clock' = clock
    BY <1>11, Zenon DEF start_clock_timer, stop_clock_timer, tasklet_kill, WaitEnds
  <2>2. \/ mgr.pc \in SettledPCs /\ mgr'.pc \in SettledPCs \ {"wait"}
        \/ mgr.pc = "timer" /\ mgr'.pc = "started"
        \/ mgr.pc = "rate_timer" /\ mgr'.pc = "wait"
    BY <1>1, <1>11, IdleFacts DEF start_clock_timer, stop_clock_timer, tasklet_kill, WaitEnds, MgrGoes,
       MgrType, MgrRecords, SettledPCs
  <2>3. QED BY <1>10, <2>1, <2>2
<1>12. ASSUME NEW d \in Dirs, NEW from \in SettledPCs \ {"wait"}, NEW write \in SettledPCs \ {"wait"},
              NEW next \in SettledPCs \ {"wait"},
              MgrStopIO(d, from, write, next) \/ MgrStopWrite(write, next)
       PROVE  ClockInv'
  <2>1. UNCHANGED <<m_bIsStarted, sizeVars, activeVars>> /\ clock' = clock
    BY <1>12, Zenon DEF MgrStopIO, MgrStopWrite
  <2>2. from \in MgrPCs /\ write \in MgrPCs /\ next \in MgrPCs
    BY DEF MgrPCs, SettledPCs, Starting, Halting, Rating
  <2>3. mgr.pc \in {from, write} /\ mgr'.pc \in {write, next}
    BY <1>1, <1>12, <2>2, MgrStopIOMoves, MgrStopWriteMoves
  <2>4. QED BY <1>10, <2>1, <2>3
<1>13. "capture" \in Dirs /\ "playback" \in Dirs
  BY DEF Dirs
<1>14. "io_capture" \in SettledPCs /\ "io_capture_write" \in SettledPCs /\ "io_playback" \in SettledPCs
       /\ "io_playback_write" \in SettledPCs /\ "cancel" \in SettledPCs
  BY DEF SettledPCs
<1>15. QED
  BY <1>3, <1>4, <1>5, <1>6, <1>7, <1>8, <1>9, <1>11, <1>12, <1>13, <1>14 DEF MgrStep

LEMMA NextClocks == ASSUME TypeInv, ClockInv, IONext \/ UNCHANGED vars PROVE ClockInv'
<1>1. ASSUME UNCHANGED <<m_bIsStarted, sizeVars, nicVars, mgr>> PROVE ClockInv'
  <2>1. UNCHANGED <<m_bIsStarted, sizeVars, activeVars>> /\ mgr'.pc = mgr.pc /\ clock' = clock
    BY <1>1 DEF nicVars
  <2>2. QED BY <2>1, ClocksKept
<1>2. ASSUME NEW d \in Dirs, AppNext(d) \/ XrunStops(d) PROVE ClockInv'
  <2>1. FlagType
    BY DEF TypeInv
  <2>2. UNCHANGED <<m_bIsStarted, sizeVars, nicVars, mgr>>
    BY <1>2, <2>1, AppMoves, Zenon DEF AppFrame, XrunStops, TimerFrame
  <2>3. QED BY <1>1, <2>2
<1>3. CASE TimerNext \/ UNCHANGED vars
  <2>1. UNCHANGED <<m_bIsStarted, sizeVars, nicVars, mgr>>
    BY <1>3, TimerKeeps, Zenon DEF TimerFrame, vars
  <2>2. QED BY <1>1, <2>1
<1>4. QED BY <1>2, <1>3, LockSteps, MgrCallClocks, MgrStepClocks DEF IONext, AppNext

-----------------------------------------------------------------------------
(***************************************************************************)
(* The theorems about the manager                                          *)
(***************************************************************************)
IOInv == TypeInv /\ Turns /\ FlagInv /\ StartedInv /\ ClockInv

LEMMA InitIO == Init => IOInv
<1> SUFFICES ASSUME Init PROVE IOInv
  OBVIOUS
<1>1. /\ mgr.pc = "idle" /\ m_bIORunning = FALSE /\ m_bIsStarted = FALSE
      /\ \A d \in Dirs : ~IO[d] /\ alsa[d].pc = "idle"
      /\ \A n \in NICs : ~clock[n].started
  BY DEF Init, Idle, IdleApp, Off
<1>2. Turns
  BY <1>1 DEF Turns
<1>3. FlagInv /\ StartedInv
  BY <1>1 DEF FlagInv, StartedInv, SomeIO, Halting
<1>4. ClockInv
  BY <1>1 DEF ClockInv
<1>5. QED BY <1>2, <1>3, <1>4, InitType DEF IOInv

LEMMA NextIO == IOInv /\ [PcmNext]_pcmVars => IOInv'
<1> SUFFICES ASSUME IOInv, [PcmNext]_pcmVars PROVE IOInv'
  OBVIOUS
<1>1. IONext \/ UNCHANGED vars
  BY StepIO, Zenon DEF pcmVars
<1>2. QED BY <1>1, NextType, NextTurns, NextFlags, NextClocks DEF IOInv

LEMMA AlwaysIO == PcmSpec => []IOInv
<1>1. PcmInit => IOInv
  BY InitIO DEF PcmInit
<1>2. QED BY <1>1, NextIO, PTL DEF PcmSpec

\* Between calls of startIO, stopIO, start, stop, the setters and SetSamplingRate,
\* m_bIORunning says whether a direction runs, and none runs on a stopped driver.
THEOREM FlagsAlwaysAgree == PcmSpec => []FlagsAgree
<1>1. IOInv => FlagsAgree
  BY DEF IOInv, FlagInv, StartedInv, SomeIO, FlagsAgree
<1>2. QED BY <1>1, AlwaysIO, PTL

\* Between calls of the management thread the clocks of the active NICs run with the
\* manager's frame size and sampling rate if the driver is started, and else not at all.
THEOREM ClocksAlwaysFollow == PcmSpec => []ClocksFollowRate
<1>1. IOInv => ClocksFollowRate
  BY DEF IOInv, ClockInv, Follows, ClocksFollowRate
<1>2. QED BY <1>1, AlwaysIO, PTL

-----------------------------------------------------------------------------
(***************************************************************************)
(* Only triggered streams run                                              *)
(***************************************************************************)
\* The manager runs direction d, or an application is about to have it run.
Engaged(d) == IO[d] \/ alsa[d].pc \in {"flag", "run"}

\* A step of another actor engages no direction.
LEMMA EngagesNone ==
  ASSUME TypeInv, NEW e \in Dirs,
         \/ \E d \in Dirs : AppStepNext(d) \/ Interrupted(d)
         \/ \E d \in Dirs \ {e} : startIO(d) \/ stopIO(d)
         \/ \E n \in NICs : ClockLocks(n) \/ ClockResets(n)
         \/ MgrCall \/ MgrStep \/ TimerFires \/ TimerStep \/ UNCHANGED vars,
         Engaged(e)'
  PROVE  Engaged(e)
<1>1. FlagType /\ MgrType
  BY DEF TypeInv
<1>2. CASE IO'[e] = IO[e] /\ alsa'[e] = alsa[e]
  BY <1>2 DEF Engaged
<1>3. ASSUME NEW d \in Dirs, AppStepNext(d) PROVE Engaged(e)
  <2>1. CASE d # e
    BY <1>1, <1>2, <1>3, <2>1, AppMoves DEF AppNext
  <2>2. CASE d = e /\ (StartFlag(e) \/ StartRun(e))
    BY <2>2 DEF StartFlag, StartRun, Engaged
  <2>3. CASE d = e /\ StopWrite(e)
    BY <1>1, <2>3 DEF StopWrite, IdleApp, FlagType, Engaged
  <2>4. QED BY <1>3, <2>1, <2>2, <2>3 DEF AppStepNext
<1>4. ASSUME NEW d \in Dirs \ {e}, startIO(d) \/ stopIO(d) PROVE Engaged(e)
  BY <1>1, <1>2, <1>4, AppMoves DEF AppNext
<1>5. CASE MgrStep
  <2>1. alsa' = alsa
    BY <1>1, <1>5, MgrStepKeeps
  <2>2. \/ IO' = IO \/ IO' = [IO EXCEPT !["capture"] = FALSE]
        \/ IO' = [IO EXCEPT !["playback"] = FALSE]
    BY <1>5, Zenon DEF MgrStep, MgrStopIO, MgrStopWrite, Started, Stopped, WaitEnds, RateSet, stop_clock_timer,
       tasklet_kill, StartClock, StopClock, start_clock_timer, ioVars
  <2>3. QED BY <1>1, <2>1, <2>2 DEF Engaged, FlagType
<1>6. ASSUME NEW n \in NICs, ClockLocks(n) \/ ClockResets(n) PROVE IO' = IO /\ alsa' = alsa
  BY <1>6, Zenon DEF ClockLocks, ClockResets, ioVars
<1>7. ASSUME TimerNext PROVE IO' = IO /\ alsa' = alsa
  BY <1>7, TimerKeeps, Zenon DEF TimerFrame
<1>8. CASE UNCHANGED vars
  BY <1>2, <1>8 DEF vars, ioVars
<1>9. QED BY <1>2, <1>3, <1>4, <1>5, <1>6, <1>7, <1>8, MgrCallKeeps DEF TimerNext

\* The operations on the stream of direction d.
StreamOp(d) ==
  \/ pcm_open(d) \/ pcm_close(d)
  \/ pcm_prepare(d) \/ \E size \in BufferSizes : PrepareSize(d, size)
  \/ TriggerStart(d) \/ \E state \in {"setup", "paused"} : TriggerStop(d, state)
  \/ InterruptStep(d) \/ StoreOffset_xrun(d)

\* What they do to its record, by the kind of operation.
Reopened(p, q) ==
  /\ p.state # "running" /\ q.state \in {"setup", "closed"}
  /\ q.copy = p.copy /\ q.next = p.next

Prepared(p, q) ==
  /\ p.state # "running" /\ q.state = "preparing" /\ q.offset = 0
  /\ q.copy = p.copy /\ q.next = p.next
  /\ q.straddled <=> p.copy \in {"read", "reduced"}

Sized(p, q) ==
  /\ p.state = "preparing" /\ q.state = "prepared" /\ q.size \in BufferSizes
  /\ q.offset = p.offset /\ q.copy = p.copy /\ q.next = p.next /\ q.straddled = p.straddled

Triggered(p, q) ==
  /\ p.state \in {"prepared", "running", "paused"} /\ q.state \in {"running", "setup", "paused"}
  /\ q.size = p.size /\ q.offset = p.offset
  /\ q.copy = p.copy /\ q.next = p.next /\ q.straddled = p.straddled

Copied(p, q) ==
  /\ q.state = p.state /\ q.size = p.size
  /\ \/ /\ q.copy = "frame" /\ q.next = m_ui32FrameSize
        /\ q.offset = p.offset /\ q.straddled = p.straddled
     \/ /\ p.copy = "frame" /\ q.copy = "read" /\ q.next = p.next + p.offset
        /\ q.offset = p.offset /\ (q.straddled <=> p.straddled \/ p.state = "preparing")
     \/ /\ q.copy = "none" /\ q.offset = p.offset /\ q.straddled = p.straddled
     \/ /\ p.copy = "read" /\ q.copy = "reduced" /\ q.next = Reduced(p)
        /\ q.offset = p.offset /\ q.straddled = p.straddled
     \/ /\ p.copy = "reduced" /\ q.copy = "none" /\ q.offset = p.next
        /\ q.straddled = p.straddled

LEMMA ReducedType ==
  ASSUME NEW p \in Streams
  PROVE  /\ Reduced(p) \in Nat
         /\ p.next < p.size + p.size => Reduced(p) < p.size
<1>1. PICK n \in Nat, z \in Nat : n = p.next /\ z = p.size
  BY DEF Streams
<1>2. Reduced(p) = IF n >= z THEN n - z ELSE n
  BY <1>1 DEF Reduced
<1>3. (IF n >= z THEN n - z ELSE n) \in Nat
      /\ (n < z + z => (IF n >= z THEN n - z ELSE n) < z)
  OBVIOUS
<1>4. QED BY <1>1, <1>2, <1>3

LEMMA CopySteps ==
  ASSUME PcmType, TypeInv, NEW d \in PcmDirs, InterruptStep(d)
  PROVE  \E q \in Streams : Becomes(d, q) /\ Copied(pcm[d], q)
<1>1. PICK p \in Streams, f \in Nat, r \in Nat :
        p = pcm[d] /\ f = m_ui32FrameSize /\ r = Reduced(p)
  BY ReducedType, SizesAssumption DEF PcmType, TypeInv, SizeType
<1>2. CASE pcm_interrupt(d)
  <2>1. PICK q : q = [p EXCEPT !.copy = "frame", !.next = f]
    OBVIOUS
  <2>2. Becomes(d, q)
    BY <1>1, <1>2, <2>1, Zenon DEF pcm_interrupt
  <2>3. q \in Streams /\ Copied(p, q)
    BY <1>1, <2>1 DEF Streams, Copied
  <2>4. QED BY <1>1, <2>2, <2>3
<1>3. CASE CopyFrame(d)
  <2>1. p.next + p.offset \in Nat /\ (p.straddled \/ p.state = "preparing") \in BOOLEAN
    BY DEF Streams
  <2>2. PICK q : q = [p EXCEPT !.copy = "read", !.next = p.next + p.offset,
                               !.straddled = p.straddled \/ p.state = "preparing"]
    OBVIOUS
  <2>3. Becomes(d, q) /\ p.copy = "frame"
    BY <1>1, <1>3, <2>2, Zenon DEF CopyFrame
  <2>4. q \in Streams /\ Copied(p, q)
    BY <1>1, <2>1, <2>2, <2>3 DEF Streams, Copied
  <2>5. QED BY <1>1, <2>3, <2>4
<1>4. CASE NoSubstream(d)
  <2>1. PICK q : q = [p EXCEPT !.copy = "none", !.next = 0]
    OBVIOUS
  <2>2. Becomes(d, q)
    BY <1>1, <1>4, <2>1, Zenon DEF NoSubstream
  <2>3. q \in Streams /\ Copied(p, q)
    BY <1>1, <2>1 DEF Streams, Copied
  <2>4. QED BY <1>1, <2>2, <2>3
<1>5. CASE ReduceOffset(d)
  <2>1. PICK q : q = [p EXCEPT !.copy = "reduced", !.next = r]
    OBVIOUS
  <2>2. Becomes(d, q) /\ p.copy = "read"
    BY <1>1, <1>5, <2>1, Zenon DEF ReduceOffset
  <2>3. q \in Streams /\ Copied(p, q)
    BY <1>1, <2>1, <2>2 DEF Streams, Copied
  <2>4. QED BY <1>1, <2>2, <2>3
<1>6. CASE StoreOffset(d)
  <2>1. PICK q : q = Stored(p)
    OBVIOUS
  <2>2. Becomes(d, q) /\ p.copy = "reduced"
    BY <1>1, <1>6, <2>1, Zenon DEF StoreOffset
  <2>3. q \in Streams /\ Copied(p, q)
    BY <1>1, <2>1, <2>2 DEF Streams, Stored, Copied
  <2>4. QED BY <1>1, <2>2, <2>3
<1>7. QED BY <1>2, <1>3, <1>4, <1>5, <1>6 DEF InterruptStep

\* The record of direction d after each operation on it.
LEMMA StreamSteps ==
  ASSUME PcmType, TypeInv, NEW d \in PcmDirs, StreamOp(d)
  PROVE  \E q \in Streams :
           /\ Becomes(d, q)
           /\ \/ (pcm_open(d) \/ pcm_close(d)) /\ Reopened(pcm[d], q)
              \/ pcm_prepare(d) /\ Prepared(pcm[d], q)
              \/ (\E size \in BufferSizes : PrepareSize(d, size)) /\ Sized(pcm[d], q)
              \/ TriggerStart(d) /\ Triggered(pcm[d], q) /\ q.state = "running"
              \/ /\ \E state \in {"setup", "paused"} : TriggerStop(d, state)
                 /\ Triggered(pcm[d], q)
              \/ InterruptStep(d) /\ Copied(pcm[d], q)
              \/ StoreOffset_xrun(d) /\ q.state = "setup" /\ q.copy = "none"
<1>1. PICK p \in Streams : p = pcm[d]
  BY DEF PcmType
<1>2. CASE pcm_open(d) \/ pcm_close(d)
  <2>1. PICK state \in {"setup", "closed"}, sub \in BOOLEAN :
          Becomes(d, [p EXCEPT !.state = state, !.sub = sub]) /\ p.state # "running"
    BY <1>1, <1>2, Zenon DEF pcm_open, pcm_close, Called
  <2>2. PICK q : q = [p EXCEPT !.state = state, !.sub = sub]
    OBVIOUS
  <2>3. q \in Streams /\ Reopened(p, q)
    BY <2>1, <2>2 DEF Streams, Reopened
  <2>4. QED BY <1>1, <1>2, <2>1, <2>2, <2>3
<1>3. CASE pcm_prepare(d)
  <2>1. PICK b \in BOOLEAN : b <=> p.copy \in {"read", "reduced"}
    OBVIOUS
  <2>2. PICK q : q = [p EXCEPT !.state = "preparing", !.offset = 0,
                               !.straddled = p.copy \in {"read", "reduced"}]
    OBVIOUS
  <2>3. Becomes(d, q) /\ p.state # "running"
    BY <1>1, <1>3, <2>2, Zenon DEF pcm_prepare, Called, Copying
  <2>4. q \in Streams /\ Prepared(p, q)
    BY <2>1, <2>2, <2>3 DEF Streams, Prepared
  <2>5. QED BY <1>1, <1>3, <2>3, <2>4
<1>4. ASSUME NEW size \in BufferSizes, PrepareSize(d, size)
      PROVE  \E q \in Streams : Becomes(d, q) /\ Sized(p, q)
  <2>1. PICK q : q = [p EXCEPT !.state = "prepared", !.size = size]
    OBVIOUS
  <2>2. Becomes(d, q) /\ p.state = "preparing" /\ size \in Nat
    BY <1>1, <1>4, <2>1, PcmAssumption, Zenon DEF PrepareSize
  <2>3. q \in Streams /\ Sized(p, q)
    BY <2>1, <2>2 DEF Streams, Sized
  <2>4. QED BY <2>2, <2>3
<1>5. ASSUME NEW state \in {"running", "setup", "paused"},
             (TriggerStart(d) /\ state = "running") \/ TriggerStop(d, state)
      PROVE  \E q \in Streams : Becomes(d, q) /\ Triggered(p, q) /\ q.state = state
  <2>1. PICK q : q = [p EXCEPT !.state = state]
    OBVIOUS
  <2>2. Becomes(d, q) /\ p.state \in {"prepared", "running", "paused"}
    BY <1>1, <1>5, <2>1, Zenon DEF TriggerStart, TriggerStop, Called
  <2>3. q \in Streams /\ Triggered(p, q) /\ q.state = state
    BY <2>1, <2>2 DEF Streams, Triggered
  <2>4. QED BY <2>2, <2>3
<1>6. CASE StoreOffset_xrun(d)
  <2>1. PICK q : q = [Stored(p) EXCEPT !.state = "setup"]
    OBVIOUS
  <2>2. Becomes(d, q)
    BY <1>1, <1>6, <2>1, Zenon DEF StoreOffset_xrun
  <2>3. Stored(p) \in Streams /\ Stored(p).copy = "none"
    BY DEF Streams, Stored
  <2>4. q \in Streams /\ q.state = "setup" /\ q.copy = "none"
    BY <2>1, <2>3 DEF Streams
  <2>5. QED BY <1>6, <2>2, <2>4
<1>7. QED BY <1>1, <1>2, <1>3, <1>4, <1>5, <1>6, CopySteps DEF StreamOp

LEMMA StreamKept ==
  ASSUME PcmType, NEW d \in PcmDirs, NEW q \in Streams, Becomes(d, q)
  PROVE  PcmType' /\ pcm'[d] = q /\ \A e \in PcmDirs \ {d} : pcm'[e] = pcm[e]
BY DEF PcmType, Becomes

\* The state of the stream and of the manager's flag after an operation on direction d.
LEMMA OpTrigger ==
  ASSUME PcmType, TypeInv, TriggerInv, NEW d \in PcmDirs, StreamOp(d)
  PROVE  TriggerInv'
<1>1. PcmDirs \subseteq Dirs /\ FlagType
  BY PcmAssumption DEF TypeInv
<1>2. PICK q \in Streams :
        /\ pcm'[d] = q /\ \A e \in PcmDirs \ {d} : pcm'[e] = pcm[e]
        /\ \/ (pcm_open(d) \/ pcm_close(d)) /\ Reopened(pcm[d], q)
           \/ pcm_prepare(d) /\ Prepared(pcm[d], q)
           \/ (\E size \in BufferSizes : PrepareSize(d, size)) /\ Sized(pcm[d], q)
           \/ TriggerStart(d) /\ Triggered(pcm[d], q) /\ q.state = "running"
           \/ /\ \E state \in {"setup", "paused"} : TriggerStop(d, state)
              /\ Triggered(pcm[d], q)
           \/ InterruptStep(d) /\ Copied(pcm[d], q)
           \/ StoreOffset_xrun(d) /\ q.state = "setup" /\ q.copy = "none"
  BY StreamSteps, StreamKept
<1>3. ASSUME NEW e \in PcmDirs \ {d}, Engaged(e)' PROVE Engaged(e)
  <2>1. CASE StoreOffset_xrun(d)
    <3>1. IO' = [IO EXCEPT ![d] = FALSE] /\ alsa' = alsa
      BY <2>1 DEF StoreOffset_xrun, TimerFrame
    <3>2. QED BY <1>1, <1>3, <3>1 DEF FlagType, Engaged
  <2>2. CASE ~StoreOffset_xrun(d)
    <3>1. startIO(d) \/ stopIO(d) \/ Interrupted(d) \/ UNCHANGED vars
      BY <2>2, Zenon DEF StreamOp, InterruptStep, pcm_open, pcm_close, pcm_prepare, PrepareSize,
         TriggerStart, TriggerStop, pcm_interrupt, CopyFrame, NoSubstream, ReduceOffset,
         StoreOffset
    <3>2. d \in Dirs /\ d \in Dirs \ {e} /\ e \in Dirs
      BY <1>1
    <3>3. QED BY <1>3, <3>1, <3>2, EngagesNone
  <2>3. QED BY <2>1, <2>2
<1>4. ASSUME Engaged(d)' PROVE q.state = "running"
  <2>1. ASSUME IO' = IO, alsa' = alsa PROVE pcm[d].state = "running"
    BY <1>4, <2>1 DEF Engaged, TriggerInv
  <2>2. CASE Reopened(pcm[d], q) /\ (pcm_open(d) \/ pcm_close(d))
    <3>1. IO' = IO /\ alsa' = alsa
      BY <2>2 DEF pcm_open, pcm_close, vars, ioVars
    <3>2. QED BY <2>1, <2>2, <3>1 DEF Reopened
  <2>3. CASE Prepared(pcm[d], q) /\ pcm_prepare(d)
    <3>1. IO' = IO /\ alsa' = alsa
      BY <2>3 DEF pcm_prepare, vars, ioVars
    <3>2. QED BY <2>1, <2>3, <3>1 DEF Prepared
  <2>4. CASE Sized(pcm[d], q) /\ \E size \in BufferSizes : PrepareSize(d, size)
    <3>1. IO' = IO /\ alsa' = alsa
      BY <2>4 DEF PrepareSize, vars, ioVars
    <3>2. QED BY <2>1, <2>4, <3>1 DEF Sized
  <2>5. CASE \E state \in {"setup", "paused"} : TriggerStop(d, state)
    <3>1. alsa[d].pc = "idle" /\ (stopIO(d) \/ (~IO[d] /\ UNCHANGED vars))
      BY <2>5, Zenon DEF TriggerStop, Called
    <3>2. CASE stopIO(d)
      <4>1. PICK run : run = IO[Other(d)]
        OBVIOUS
      <4>2. IO' = [IO EXCEPT ![d] = FALSE] /\ alsa' = [alsa EXCEPT ![d] = [pc |-> "write", run |-> run]]
        BY <3>2, <4>1 DEF stopIO
      <4>3. QED BY <1>1, <1>4, <4>2 DEF FlagType, Engaged
    <3>3. CASE ~IO[d] /\ UNCHANGED vars
      BY <1>4, <3>1, <3>3 DEF Engaged, vars, ioVars
    <3>4. QED BY <3>1, <3>2, <3>3
  <2>6. CASE InterruptStep(d) /\ Copied(pcm[d], q)
    <3>1. IO' = IO /\ alsa' = alsa
      BY <2>6, Zenon DEF InterruptStep, pcm_interrupt, CopyFrame, NoSubstream, ReduceOffset,
         StoreOffset, Interrupted, TimerFrame, vars, ioVars
    <3>2. QED BY <2>1, <2>6, <3>1 DEF Copied
  <2>7. CASE StoreOffset_xrun(d)
    <3>1. IO' = [IO EXCEPT ![d] = FALSE] /\ alsa' = alsa /\ alsa[d].pc = "idle"
      BY <2>7 DEF StoreOffset_xrun, TimerFrame, Called
    <3>2. QED BY <1>1, <1>4, <3>1 DEF FlagType, Engaged
  <2>8. QED BY <1>2, <2>2, <2>3, <2>4, <2>5, <2>6, <2>7
<1>5. QED BY <1>2, <1>3, <1>4 DEF TriggerInv, Engaged

PcmInv == IOInv /\ PcmType /\ TriggerInv

LEMMA NextPcm == PcmInv /\ [PcmNext]_pcmVars => PcmInv'
<1> SUFFICES ASSUME PcmInv, [PcmNext]_pcmVars PROVE PcmInv'
  OBVIOUS
<1>1. TypeInv /\ PcmType /\ TriggerInv /\ IOInv'
  BY NextIO DEF PcmInv, IOInv
<1>2. CASE \E d \in PcmDirs : StreamOp(d)
  <2>1. PcmType' /\ TriggerInv'
    BY <1>1, <1>2, StreamSteps, StreamKept, OpTrigger
  <2>2. QED BY <1>1, <2>1 DEF PcmInv
<1>3. CASE /\ \/ \E d \in Dirs \ PcmDirs : startIO(d) \/ stopIO(d) \/ Interrupted(d)
              \/ \E d \in Dirs : AppStepNext(d)
              \/ \E n \in NICs : ClockLocks(n) \/ ClockResets(n)
              \/ MgrCall \/ MgrStep \/ TimerFires \/ TimerStep \/ UNCHANGED vars
           /\ UNCHANGED pcm
  <2>1. ASSUME NEW e \in PcmDirs, Engaged(e)' PROVE Engaged(e)
    <3>1. e \in Dirs /\ \A d \in Dirs \ PcmDirs : d \in Dirs \ {e} /\ d \in Dirs
      BY PcmAssumption
    <3>2. QED BY <1>1, <1>3, <2>1, <3>1, EngagesNone
  <2>2. PcmType' /\ TriggerInv'
    BY <1>1, <1>3, <2>1 DEF PcmType, TriggerInv, Engaged
  <2>3. QED BY <1>1, <2>2 DEF PcmInv
<1>4. QED BY <1>2, <1>3, Zenon DEF PcmNext, StreamOp, pcmVars

LEMMA InitPcm == PcmInit => PcmInv
<1> SUFFICES ASSUME PcmInit PROVE PcmInv
  OBVIOUS
<1>1. IOInv
  BY InitIO DEF PcmInit
<1>2. PcmType
  BY DEF PcmInit, ClosedPcm, PcmType, Streams
<1>3. \A d \in Dirs : ~IO[d] /\ alsa[d].pc = "idle"
  BY DEF PcmInit, Init, IdleApp
<1>4. TriggerInv
  BY <1>3, PcmAssumption DEF TriggerInv
<1>5. QED BY <1>1, <1>2, <1>4 DEF PcmInv

\* The manager runs a direction only while the ALSA core takes its stream for running,
\* for any directions followed, rates, frame sizes and buffers.
THEOREM OnlyTriggeredRun == PcmSpec => []OnlyTriggered
<1>1. PcmInv => OnlyTriggered
  BY DEF PcmInv, TriggerInv, OnlyTriggered
<1>2. QED BY <1>1, InitPcm, NextPcm, PTL DEF PcmSpec

-----------------------------------------------------------------------------
(***************************************************************************)
(* The position stays within the buffer                                    *)
(***************************************************************************)
LEMMA NextBuffer ==
  ASSUME \A b \in BufferSizes, m \in MaxFrameSizes : m <= b
  PROVE  PcmInv /\ BufferInv /\ [PcmNext]_pcmVars => BufferInv'
<1> SUFFICES ASSUME PcmInv, BufferInv, [PcmNext]_pcmVars PROVE BufferInv'
  OBVIOUS
<1>1. PcmType /\ TypeInv
  BY DEF PcmInv, IOInv
<1>2. \A b \in BufferSizes : m_ui32FrameSize <= b
  <2>1. m_MaxFrameSize \in MaxFrameSizes /\ m_ui32FrameSize \in 1 .. m_MaxFrameSize
        /\ m_MaxFrameSize \in Nat /\ BufferSizes \subseteq Nat
    BY <1>1, SizesAssumption, PcmAssumption DEF TypeInv, SizeType
  <2>2. QED BY <2>1
<1>3. CASE UNCHANGED pcm
  BY <1>3 DEF BufferInv, InBuffer
<1>4. ASSUME NEW d \in PcmDirs, StreamOp(d)
      PROVE  BufferInv'
  <2>1. PICK q \in Streams :
          /\ pcm'[d] = q /\ \A e \in PcmDirs \ {d} : pcm'[e] = pcm[e]
          /\ \/ Reopened(pcm[d], q) \/ Prepared(pcm[d], q) \/ Sized(pcm[d], q)
             \/ Triggered(pcm[d], q) \/ Copied(pcm[d], q)
             \/ q.state = "setup" /\ q.copy = "none"
    BY <1>1, <1>4, StreamSteps, StreamKept
  <2>2. PICK p \in Streams : p = pcm[d] /\ InBuffer(p)
    BY <1>1 DEF PcmType, BufferInv
  <2>3. p.offset \in Nat /\ p.size \in Nat /\ p.next \in Nat /\ BufferSizes \subseteq Nat \ {0}
    BY PcmAssumption DEF Streams
  <2>4. InBuffer(q)
    <3>1. CASE Reopened(p, q)
      BY <2>2, <3>1 DEF Reopened, InBuffer
    <3>2. CASE Prepared(p, q)
      BY <2>2, <3>2 DEF Prepared, InBuffer
    <3>3. CASE Sized(p, q)
      <4>1. q.size \in BufferSizes /\ q.state = "prepared"
        BY <3>3 DEF Sized
      <4>2. \A b \in BufferSizes : 0 < b
        BY PcmAssumption
      <4>3. q.copy = "frame" => \A b \in BufferSizes : q.next <= b
        BY <2>2, <3>3 DEF Sized, InBuffer
      <4>4. ~q.straddled => q.offset = 0 /\ q.copy \notin {"read", "reduced"}
        BY <2>2, <3>3 DEF Sized, InBuffer
      <4>5. QED BY <4>1, <4>2, <4>3, <4>4 DEF InBuffer
    <3>4. CASE Triggered(p, q)
      BY <2>2, <3>4 DEF Triggered, InBuffer
    <3>5. CASE Copied(p, q)
      <4>1. ASSUME p.copy = "frame", p.state # "preparing", ~p.straddled,
                   p.state \in {"prepared", "running", "paused"}
            PROVE  p.next + p.offset < p.size + p.size
        <5>1. p.offset < p.size /\ p.next <= p.size
          BY <2>2, <4>1 DEF InBuffer
        <5>2. QED BY <2>3, <5>1
      <4>2. p.next < p.size + p.size => Reduced(p) < p.size
        BY ReducedType
      <4>3. QED BY <1>2, <2>2, <3>5, <4>1, <4>2 DEF Copied, InBuffer
    <3>6. CASE q.state = "setup" /\ q.copy = "none"
      BY <3>6 DEF InBuffer
    <3>7. QED BY <2>1, <2>2, <3>1, <3>2, <3>3, <3>4, <3>5, <3>6
  <2>5. \A e \in PcmDirs : InBuffer(pcm'[e])
    BY <2>1, <2>4 DEF BufferInv
  <2>6. QED BY <2>5 DEF BufferInv, InBuffer
<1>5. QED BY <1>3, <1>4, Zenon DEF PcmNext, StreamOp, pcmVars

\* A prepared, running or paused stream that was prepared while no interrupt was copying
\* reports a position within its buffer, if no buffer is shorter than the longest frame:
\* in spite of interrupts that come late, and with frames and buffers of any sizes that
\* change meanwhile.  Without either condition it does not.
THEOREM PositionsInBuffer ==
  ASSUME \A b \in BufferSizes, m \in MaxFrameSizes : m <= b
  PROVE  PcmSpec => []PositionKept
<1>1. \A b \in BufferSizes, m \in MaxFrameSizes : m <= b
  OBVIOUS
<1>2. PcmInit => BufferInv
  BY DEF PcmInit, ClosedPcm, BufferInv, InBuffer
<1>3. PcmInv /\ BufferInv /\ [PcmNext]_pcmVars => BufferInv'
  BY <1>1, NextBuffer
<1>4. BufferInv => PositionKept
  BY DEF BufferInv, InBuffer, PositionKept
<1>5. QED BY <1>2, <1>3, <1>4, InitPcm, NextPcm, PTL DEF PcmSpec

-----------------------------------------------------------------------------
(***************************************************************************)
(* A stopped driver is silent                                              *)
(***************************************************************************)
\* From the end of tasklet_kill to the next start of the timer.
Silent ==
  \/ ~m_bIsStarted /\ mgr.pc # "started"
  \/ mgr.pc \in {"stop0", "stop1", "stopped"}

\* The timer rests, or one last callback runs that will find stop_ set.
LastCallback ==
  \/ timer = "idle" /\ (armed => stop_)
  \/ timer \in {"select", "tic", "end"} /\ ~armed /\ stop_

SilentInv == (Silent => LastCallback) /\ (mgr.pc = "kill" => stop_)

\* A step that leaves the timer alone keeps SilentInv unless it makes the driver silent.
LEMMA SilentKept ==
  ASSUME SilentInv, UNCHANGED <<armed, stop_, timer>>, Silent' => Silent,
         mgr'.pc = "kill" => mgr.pc = "kill"
  PROVE  SilentInv'
BY Zenon DEF SilentInv, LastCallback

\* A call of the management thread begins with the timer as it is.
LEMMA MgrCallSilent == ASSUME TypeInv, SilentInv, MgrCall PROVE SilentInv'
<1>1. UNCHANGED <<armed, stop_, timer>>
  BY Zenon DEF MgrCall, MgrStart, MgrStop, SetTICFrameSizeAt1FS,
     SetMaxTICFrameSize, SetFrameSizes, SetInterfaceName, SetSamplingRate,
     hrVars, MgrFrame
<1>2. mgr.pc = "idle" /\ mgr'.pc \in {"idle", "start0", "io_capture", "cancel", "rate"}
      /\ m_bIsStarted' = m_bIsStarted
  BY MgrCallGoes, MgrCallKeeps DEF TypeInv
<1>3. QED BY <1>1, <1>2, SilentKept DEF Silent

\* stop_clock_timer and tasklet_kill make the driver silent, start_clock_timer ends it.
LEMMA MgrStepSilent == ASSUME TypeInv, ClockInv, SilentInv, MgrStep PROVE SilentInv'
<1>1. MgrType /\ FlagType
  BY DEF TypeInv
<1>2. ASSUME NEW from, NEW to \in MgrPCs \ {"kill"}, MgrGoes(from, to), from # "started",
             to \in {"stop0", "stop1", "stopped"} => from \in {"stop0", "stop1", "stopped"},
             UNCHANGED <<m_bIsStarted, hrVars, timer>>
      PROVE  SilentInv'
  <2>1. mgr.pc = from /\ mgr'.pc = to
    BY <1>1, <1>2, MgrMoves
  <2>2. UNCHANGED <<m_bIsStarted, armed, stop_, timer>>
    BY <1>2 DEF hrVars
  <2>3. QED BY <1>2, <2>1, <2>2, SilentKept DEF Silent
<1>3. CASE \/ StartClock(0, "start0", "start1") \/ StartClock(1, "start1", "timer")
           \/ StartClock(0, "rate0", "rate1") \/ StartClock(1, "rate1", "rate_timer")
           \/ StopClock(0, "stop0", "stop1") \/ StopClock(1, "stop1", "stopped")
  <2>1. UNCHANGED <<m_bIsStarted, hrVars, timer>>
    BY <1>3, Zenon DEF StartClock, StopClock, MgrFrame
  <2>2. {"start1", "timer", "rate1", "rate_timer", "stop1", "stopped"} \subseteq MgrPCs \ {"kill"}
    BY DEF MgrPCs, Starting, Rating, Halting
  <2>3. \/ MgrGoes("start0", "start1") \/ MgrGoes("start1", "timer")
        \/ MgrGoes("rate0", "rate1") \/ MgrGoes("rate1", "rate_timer")
        \/ MgrGoes("stop0", "stop1") \/ MgrGoes("stop1", "stopped")
    BY <1>3, Zenon DEF StartClock, StopClock
  <2>4. QED BY <1>2, <2>1, <2>2, <2>3
<1>4. CASE start_clock_timer("timer", "started") \/ start_clock_timer("rate_timer", "wait")
  <2>1. m_bIsStarted' = m_bIsStarted
    BY <1>4 DEF start_clock_timer
  <2>2. \/ mgr'.pc = "started"
        \/ mgr'.pc = "wait" /\ mgr.pc = "rate_timer"
    BY <1>1, <1>4 DEF start_clock_timer, MgrGoes, MgrType, MgrRecords
  <2>3. mgr.pc = "rate_timer" => m_bIsStarted
    BY DEF ClockInv
  <2>4. QED BY <2>1, <2>2, <2>3 DEF SilentInv, Silent
<1>5. CASE Started
  <2>1. m_bIsStarted' /\ mgr'.pc = "idle"
    BY <1>5, IdleFacts DEF Started
  <2>2. QED BY <2>1 DEF SilentInv, Silent
<1>6. ASSUME NEW d \in Dirs, NEW from, NEW write, NEW next,
             MgrStopIO(d, from, write, next) \/ MgrStopWrite(write, next),
             from \in Silencing, write \in Silencing, next \in Silencing \cup {"cancel"}
      PROVE  SilentInv'
  <2>1. UNCHANGED <<m_bIsStarted, armed, stop_, timer>>
    BY <1>6, Zenon DEF MgrStopIO, MgrStopWrite, hrVars, MgrFrame
  <2>2. write \in MgrPCs /\ next \in MgrPCs
    BY <1>6 DEF MgrPCs, Halting
  <2>3. mgr.pc \in {from, write} /\ mgr'.pc \in {write, next}
    BY <1>1, <1>6, <2>2, MgrStopIOMoves, MgrStopWriteMoves
  <2>4. QED BY <1>6, <2>1, <2>3, SilentKept DEF Silent, Silencing
<1>7. CASE stop_clock_timer
  <2>1. mgr.pc = "cancel" /\ mgr'.pc = "kill"
    BY <1>1, <1>7 DEF stop_clock_timer, MgrGoes, MgrType, MgrRecords
  <2>2. m_bIsStarted' = m_bIsStarted /\ timer' = timer /\ stop_' = TRUE /\ armed' = FALSE
    BY <1>7 DEF stop_clock_timer, MgrFrame
  <2>3. Silent' => Silent
    BY <2>1, <2>2 DEF Silent
  <2>4. QED BY <2>2, <2>3, Zenon DEF SilentInv, LastCallback
<1>8. CASE tasklet_kill
  <2>1. mgr.pc = "kill" /\ mgr'.pc = "stop0"
    BY <1>1, <1>8 DEF tasklet_kill, MgrGoes, MgrType, MgrRecords
  <2>2. timer' = "idle" /\ stop_'
    BY <1>8, <2>1 DEF tasklet_kill, MgrFrame, hrVars, SilentInv
  <2>3. QED BY <2>1, <2>2 DEF SilentInv, LastCallback
<1>9. CASE Stopped
  <2>1. mgr.pc = "stopped" /\ UNCHANGED <<armed, stop_, timer>>
    BY <1>9, Zenon DEF Stopped, hrVars, MgrFrame
  <2>2. mgr'.pc \in {"idle", "start0"}
    BY <1>9, IdleFacts DEF Stopped, Idle
  <2>3. QED BY <2>1, <2>2, SilentKept DEF Silent
<1>10. CASE RateSet \/ WaitEnds
  <2>1. mgr.pc \in {"rate", "wait"} /\ UNCHANGED <<m_bIsStarted, armed, stop_, timer>>
    BY <1>10 DEF RateSet, WaitEnds, hrVars, MgrFrame
  <2>2. mgr'.pc \in {"idle", "rate0"}
    BY <1>10, IdleFacts DEF RateSet, WaitEnds, Idle
  <2>3. QED BY <2>1, <2>2, SilentKept DEF Silent
<1>11. "capture" \in Dirs /\ "playback" \in Dirs
  BY DEF Dirs
<1>12. QED
  BY <1>3, <1>4, <1>5, <1>6, <1>7, <1>8, <1>9, <1>10, <1>11 DEF MgrStep, Silencing

\* The timer of a silent driver finds no direction running, and stop_ set.
LEMMA TimerSilent ==
  ASSUME TypeInv, FlagInv, StartedInv, SilentInv, TimerNext
  PROVE  SilentInv'
<1>1. mgr' = mgr /\ m_bIsStarted' = m_bIsStarted
  BY TimerKeeps DEF TimerFrame
<1>2. Silent' <=> Silent
  BY <1>1 DEF Silent
<1>3. stop_' = stop_
  BY Zenon DEF TimerNext, TimerFires, TimerStep, Interrupted, Select_PTP_NIC, AudioFrameTIC,
     TimerEnds, TimerRestarts, TestIO, hrVars
<1>4. ASSUME Silent PROVE LastCallback'
  <2>1. LastCallback
    BY <1>4 DEF SilentInv
  <2>2. ~m_bIORunning
    BY <1>4 DEF Silent, FlagInv, StartedInv, Halting
  <2>3. CASE TimerFires
    BY <1>3, <2>1, <2>3 DEF TimerFires, LastCallback
  <2>4. CASE Select_PTP_NIC \/ AudioFrameTIC \/ TimerEnds
    BY <1>3, <2>1, <2>2, <2>4 DEF Select_PTP_NIC, AudioFrameTIC, TimerEnds, LastCallback, hrVars
  <2>5. timer \notin {"restart"} \cup Dirs \cup {"interrupt_capture", "interrupt_playback"}
    BY <2>1 DEF LastCallback, Dirs
  <2>6. ~TimerRestarts /\ \A d \in Dirs : ~TestIO(d) /\ ~Interrupted(d)
    BY <2>5 DEF TimerRestarts, TestIO, Interrupted, Interrupt
  <2>7. QED BY <2>3, <2>4, <2>6 DEF TimerNext, TimerStep
<1>5. QED BY <1>1, <1>2, <1>3, <1>4, Zenon DEF SilentInv

LEMMA NextSilent ==
  ASSUME IOInv, SilentInv, IONext \/ UNCHANGED vars
  PROVE  SilentInv'
<1>1. TypeInv /\ FlagInv /\ StartedInv /\ ClockInv /\ FlagType
  BY DEF IOInv, TypeInv
<1>2. ASSUME UNCHANGED <<m_bIsStarted, hrVars, timer, mgr>> PROVE SilentInv'
  BY <1>2, SilentKept DEF hrVars, Silent
<1>3. ASSUME NEW d \in Dirs, AppNext(d) PROVE SilentInv'
  BY <1>1, <1>2, <1>3, AppMoves, Zenon DEF AppFrame
<1>4. ASSUME NEW d \in Dirs, XrunStops(d) PROVE SilentInv'
  <2>1. ~LastCallback
    BY <1>4 DEF XrunStops, LastCallback, Interrupt
  <2>2. ~Silent
    BY <2>1 DEF SilentInv
  <2>3. mgr' = mgr /\ m_bIsStarted' = m_bIsStarted /\ stop_' = stop_
    BY <1>4 DEF XrunStops, TimerFrame, hrVars
  <2>4. ~Silent'
    BY <2>2, <2>3 DEF Silent
  <2>5. QED BY <2>3, <2>4, Zenon DEF SilentInv
<1>5. ASSUME NEW n \in NICs, ClockLocks(n) \/ ClockResets(n) PROVE SilentInv'
  BY <1>2, <1>5, Zenon DEF ClockLocks, ClockResets
<1>6. CASE UNCHANGED vars
  BY <1>2, <1>6, Zenon DEF vars
<1>7. QED
  BY <1>1, <1>3, <1>4, <1>5, <1>6, MgrCallSilent, MgrStepSilent, TimerSilent DEF IONext, AppNext

\* After stop at most one more callback of the clock timer runs; it reaches no
\* pcm_interrupt and does not start the timer again, whatever the tasklet was doing when
\* stop_clock_timer was called.
THEOREM StoppedAlwaysSilent == PcmSpec => []StoppedIsSilent
<1>1. SilentInv => StoppedIsSilent
  BY Zenon DEF SilentInv, Silent, LastCallback, StoppedIsSilent
<1>2. PcmInit => SilentInv
  BY DEF PcmInit, Init, Idle, SilentInv, LastCallback
<1>3. IOInv /\ SilentInv /\ [PcmNext]_pcmVars => SilentInv'
  <2> SUFFICES ASSUME IOInv, SilentInv, [PcmNext]_pcmVars PROVE SilentInv'
    OBVIOUS
  <2>1. IONext \/ UNCHANGED vars
    BY StepIO, Zenon DEF pcmVars
  <2>2. QED BY <2>1, NextSilent
<1>4. QED BY <1>1, <1>2, <1>3, AlwaysIO, PTL DEF PcmSpec
=============================================================================
