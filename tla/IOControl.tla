----------------------------- MODULE IOControl -----------------------------
(***************************************************************************)
(* Audio I/O as TManager controls it (driver/manager.c, module_timer.c,    *)
(* module_main.c): start and stop, startIO and stopIO, the setters that    *)
(* restart the driver, SetSamplingRate, the choice of the PTP clock, and   *)
(* the clock timer that calls AudioFrameTIC.                               *)
(*                                                                         *)
(* Actors.  mgr is the management thread: messages of the daemon.  alsa[d] *)
(* is the thread of an application that triggers direction d.  timer is    *)
(* the tasklet of the clock timer, as on kernels before 6.15, where        *)
(* tasklet_hrtimer_cancel cancels the timer and then waits for the tasklet *)
(* that may just be starting it again; on later kernels hrtimer_cancel     *)
(* does both at once.  No lock protects the fields of the manager.         *)
(*                                                                         *)
(* A clock behaves as LockedClock says; only LOCKED is told from the rest. *)
(* A rate is its multiple of 44.1 or 48 kHz.  The muting of the buffers    *)
(* and the RTP streams that AudioFrameTIC serves are left out.             *)
(***************************************************************************)
EXTENDS Integers, FiniteSetsExt

CONSTANTS
  Rates,          \* subset of {1, 2, 4, 8}
  TICSizes,       \* values of m_TICFrameSizeAt1FS
  MaxFrameSizes,  \* values of m_MaxFrameSize
  NamedNICs       \* sets of NICs that the daemon's list of interfaces can set up

ASSUME SizesAssumption ==
  /\ 1 \in Rates /\ Rates \subseteq Nat \ {0}
  /\ TICSizes # {} /\ TICSizes \subseteq Nat \ {0}
  /\ MaxFrameSizes # {} /\ MaxFrameSizes \subseteq Nat \ {0}

NICs == {0, 1}
Dirs == {"capture", "playback"}
Other(d) == CHOOSE e \in Dirs : e # d

VARIABLES
  m_bIsStarted, m_bIORunning,
  IO,                   \* m_bIsRecordingIO, m_bIsPlaybackIO
  m_SampleRate, m_TICFrameSizeAt1FS, m_MaxFrameSize, m_ui32FrameSize,
  m_Is_NIC_Active,
  renamed,              \* history: interfaces were named since the clocks were started
  clock,                \* m_PTP[n]: [started, locked, frame, rate]
  firstIsBetter,        \* GetPTPPriority of NIC 0 <= that of NIC 1
  activeLocked,         \* m_lastLockStatus[m_Active_PTP_NIC_Idx] = PTPLS_LOCKED
  armed,                \* my_hrtimer_ is queued
  stop_,
  timer,                \* where the tasklet is
  mgr,                  \* [pc, restart, tic, max, rate, run]: where the management thread is
  alsa                  \* [pc, run]: where each application is

ioVars == <<m_bIORunning, IO>>
sizeVars == <<m_SampleRate, m_TICFrameSizeAt1FS, m_MaxFrameSize, m_ui32FrameSize>>
activeVars == <<m_Is_NIC_Active, renamed>>
nicVars == <<activeVars, clock, firstIsBetter>>
hrVars == <<armed, stop_>>
vars == <<m_bIsStarted, ioVars, sizeVars, nicVars, activeLocked, hrVars, timer, mgr, alsa>>

\* UpdateFrameSize
FrameSize(tic, rate, max) == Min({tic * rate, max})

Idle == [pc |-> "idle", restart |-> FALSE, tic |-> 0, max |-> 0, rate |-> 1, run |-> FALSE]
Off == [started |-> FALSE, locked |-> FALSE, frame |-> 0, rate |-> 0]
IdleApp == [pc |-> "idle", run |-> FALSE]

Init ==
  /\ m_bIsStarted = FALSE /\ m_bIORunning = FALSE /\ IO = [d \in Dirs |-> FALSE]
  /\ m_SampleRate = 1 /\ m_TICFrameSizeAt1FS \in TICSizes
  /\ m_MaxFrameSize \in MaxFrameSizes
  /\ m_ui32FrameSize = FrameSize(m_TICFrameSizeAt1FS, 1, m_MaxFrameSize)
  /\ m_Is_NIC_Active = [n \in NICs |-> n = 0] /\ renamed = FALSE
  /\ clock = [n \in NICs |-> Off]
  /\ firstIsBetter = TRUE
  /\ activeLocked = FALSE
  /\ armed = FALSE /\ stop_ = FALSE /\ timer = "idle"
  /\ mgr = Idle /\ alsa = [d \in Dirs |-> IdleApp]

AppsIdle == \A d \in Dirs : alsa[d].pc = "idle"

\* Whether a call may begin. Nothing in the code keeps the calls of different threads
\* apart; here they take turns, except that the management thread may be waiting for a
\* lock. The timer runs at any time.
Alone == mgr.pc \in {"idle", "wait"} /\ AppsIdle

-----------------------------------------------------------------------------
(***************************************************************************)
(* The clocks, external to this module                                     *)
(***************************************************************************)
\* LockedClock!Advance, to LOCKED
ClockLocks(n) ==
  /\ clock[n].started /\ ~clock[n].locked
  /\ clock' = [clock EXCEPT ![n].locked = TRUE]
  /\ UNCHANGED <<m_bIsStarted, ioVars, sizeVars, activeVars, firstIsBetter, activeLocked,
                 hrVars, timer, mgr, alsa>>

\* LockedClock!Reset; a new master may change the priorities.
ClockResets(n) ==
  /\ clock[n].started
  /\ clock' = [clock EXCEPT ![n].locked = FALSE]
  /\ firstIsBetter' \in BOOLEAN
  /\ UNCHANGED <<m_bIsStarted, ioVars, sizeVars, activeVars, activeLocked, hrVars, timer,
                 mgr, alsa>>

StartAudioFrameTICTimer(n) ==
  clock' = [clock EXCEPT ![n] = [started |-> TRUE, locked |-> FALSE,
                                 frame |-> m_ui32FrameSize, rate |-> m_SampleRate]]

\* The sizes that a stopped clock keeps are read by nobody: the next start replaces them.
StopAudioFrameTICTimer(n) == clock' = [clock EXCEPT ![n] = Off]

-----------------------------------------------------------------------------
(***************************************************************************)
(* startIO and stopIO, by an application's trigger                         *)
(***************************************************************************)
AppStep(d, pc) == alsa' = [alsa EXCEPT ![d].pc = pc]
AppFrame == UNCHANGED <<m_bIsStarted, sizeVars, nicVars, activeLocked, hrVars, timer, mgr>>

\* The test of m_bIsStarted; without it the trigger still succeeds.
startIO(d) ==
  /\ alsa[d].pc = "idle" /\ Alone
  /\ m_bIsStarted /\ AppStep(d, "flag")
  /\ UNCHANGED ioVars /\ AppFrame

\* Mutant: m_bIORunning is left to the other direction.
StartFlag_Only(d) ==
  /\ alsa[d].pc = "flag"
  /\ IO' = [IO EXCEPT ![d] = TRUE]
  /\ AppStep(d, "idle")
  /\ UNCHANGED m_bIORunning /\ AppFrame

\* The buffer is muted first.
StartFlag(d) ==
  /\ alsa[d].pc = "flag"
  /\ IO' = [IO EXCEPT ![d] = TRUE]
  /\ AppStep(d, "run")
  /\ UNCHANGED m_bIORunning /\ AppFrame

StartRun(d) ==
  /\ alsa[d].pc = "run"
  /\ m_bIORunning' = TRUE
  /\ AppStep(d, "idle")
  /\ UNCHANGED IO /\ AppFrame

\* Clears the flag and reads both; the result is written by StopWrite.
stopIO(d) ==
  /\ alsa[d].pc = "idle" /\ Alone
  /\ IO[d]
  /\ IO' = [IO EXCEPT ![d] = FALSE]
  /\ alsa' = [alsa EXCEPT ![d] = [pc |-> "write", run |-> IO[Other(d)]]]
  /\ UNCHANGED m_bIORunning /\ AppFrame

StopWrite(d) ==
  /\ alsa[d].pc = "write"
  /\ m_bIORunning' = alsa[d].run
  /\ alsa' = [alsa EXCEPT ![d] = IdleApp]
  /\ UNCHANGED IO /\ AppFrame

-----------------------------------------------------------------------------
(***************************************************************************)
(* The management thread                                                   *)
(***************************************************************************)
MgrGoes(from, to) == mgr.pc = from /\ mgr' = [mgr EXCEPT !.pc = to]
MgrFrame == UNCHANGED <<firstIsBetter, activeLocked, timer, alsa>>

\* start
MgrStart ==
  /\ Alone /\ MgrGoes("idle", "start0")
  /\ UNCHANGED <<m_bIsStarted, ioVars, sizeVars, activeVars, clock, hrVars>> /\ MgrFrame

StartClock(n, from, to) ==
  /\ MgrGoes(from, to)
  /\ IF m_Is_NIC_Active[n] THEN StartAudioFrameTICTimer(n) ELSE UNCHANGED clock
  /\ renamed' = FALSE
  /\ UNCHANGED <<m_bIsStarted, ioVars, sizeVars, m_Is_NIC_Active, hrVars>> /\ MgrFrame

start_clock_timer(from, to) ==
  /\ MgrGoes(from, to)
  /\ stop_' = FALSE /\ armed' = TRUE
  /\ UNCHANGED <<m_bIsStarted, ioVars, sizeVars, activeVars, clock>> /\ MgrFrame

\* EnableEtherTube, m_bIsStarted
Started ==
  /\ mgr.pc = "started" /\ mgr' = Idle
  /\ m_bIsStarted' = TRUE
  /\ UNCHANGED <<ioVars, sizeVars, activeVars, clock, hrVars>> /\ MgrFrame

\* stop, called by a message or by a setter that starts again afterwards, with its sizes.
MgrStop(restart, tic, max) ==
  /\ Alone /\ mgr.pc = "idle"
  /\ restart => m_bIsStarted
  /\ mgr' = [mgr EXCEPT !.pc = IF m_bIORunning THEN "io_capture" ELSE "cancel",
                        !.restart = restart, !.tic = tic, !.max = max]
  /\ UNCHANGED <<m_bIsStarted, ioVars, sizeVars, activeVars, clock, hrVars>> /\ MgrFrame

\* stopIO of direction d
MgrStopIO(d, from, write, next) ==
  /\ mgr.pc = from
  /\ IF IO[d] THEN /\ IO' = [IO EXCEPT ![d] = FALSE]
                   /\ mgr' = [mgr EXCEPT !.pc = write, !.run = IO[Other(d)]]
              ELSE mgr' = [mgr EXCEPT !.pc = next] /\ UNCHANGED IO
  /\ UNCHANGED <<m_bIsStarted, m_bIORunning, sizeVars, activeVars, clock, hrVars>> /\ MgrFrame

MgrStopWrite(write, next) ==
  /\ mgr.pc = write /\ m_bIORunning' = mgr.run
  /\ mgr' = [mgr EXCEPT !.pc = next, !.run = FALSE]
  /\ UNCHANGED <<m_bIsStarted, IO, sizeVars, activeVars, clock, hrVars>> /\ MgrFrame

\* Mutant: the flag is not set, so that the tasklet starts the timer again.
stop_clock_timer_NoFlag ==
  /\ MgrGoes("cancel", "kill")
  /\ armed' = FALSE /\ UNCHANGED stop_
  /\ UNCHANGED <<m_bIsStarted, ioVars, sizeVars, activeVars, clock>> /\ MgrFrame

\* stop_clock_timer: the flag, and hrtimer_cancel.
stop_clock_timer ==
  /\ MgrGoes("cancel", "kill")
  /\ stop_' = TRUE /\ armed' = FALSE
  /\ UNCHANGED <<m_bIsStarted, ioVars, sizeVars, activeVars, clock>> /\ MgrFrame

\* Mutant: a tasklet that runs is left running.
tasklet_kill_NoWait ==
  /\ MgrGoes("kill", "stop0")
  /\ UNCHANGED <<m_bIsStarted, ioVars, sizeVars, activeVars, clock, hrVars>> /\ MgrFrame

\* tasklet_kill waits for the tasklet.
tasklet_kill ==
  /\ timer = "idle" /\ MgrGoes("kill", "stop0")
  /\ UNCHANGED <<m_bIsStarted, ioVars, sizeVars, activeVars, clock, hrVars>> /\ MgrFrame

StopClock(n, from, to) ==
  /\ MgrGoes(from, to)
  /\ StopAudioFrameTICTimer(n)
  /\ UNCHANGED <<m_bIsStarted, ioVars, sizeVars, activeVars, hrVars>> /\ MgrFrame

SetSizes(tic, max) ==
  /\ m_TICFrameSizeAt1FS' = tic /\ m_MaxFrameSize' = max
  /\ m_ui32FrameSize' = FrameSize(tic, m_SampleRate, max)
  /\ UNCHANGED m_SampleRate

\* The end of stop, and what the setter does after it.
Stopped ==
  /\ mgr.pc = "stopped" /\ m_bIsStarted' = FALSE
  /\ IF mgr.restart THEN SetSizes(mgr.tic, mgr.max) /\ mgr' = [Idle EXCEPT !.pc = "start0"]
                    ELSE UNCHANGED sizeVars /\ mgr' = Idle
  /\ UNCHANGED <<ioVars, activeVars, clock, hrVars>> /\ MgrFrame

\* A driver that is started is stopped, and started again afterwards.
SetFrameSizes(tic, max) ==
  \/ MgrStop(TRUE, tic, max)
  \/ /\ Alone /\ mgr.pc = "idle" /\ ~m_bIsStarted
     /\ SetSizes(tic, max)
     /\ UNCHANGED <<m_bIsStarted, ioVars, activeVars, clock, hrVars, mgr>> /\ MgrFrame

\* The setters of the numbers of channels restart the driver in the same way.
SetTICFrameSizeAt1FS(tic) == SetFrameSizes(tic, m_MaxFrameSize)
SetMaxTICFrameSize(max) == SetFrameSizes(m_TICFrameSizeAt1FS, max)

\* The message with the list of interfaces: every NIC is made inactive, and those whose
\* SetInterfaceName succeeds active again. Clocks are neither started nor stopped, and
\* the driver may run, although "the caller must call stop before calling".
SetInterfaceName(named) ==
  /\ Alone /\ mgr.pc = "idle"
  /\ m_Is_NIC_Active' = [n \in NICs |-> n \in named]
  /\ renamed' = m_bIsStarted
  /\ UNCHANGED <<m_bIsStarted, ioVars, sizeVars, clock, hrVars, mgr>> /\ MgrFrame

\* SetSamplingRate up to the test of m_bIORunning.
SetSamplingRate(rate) ==
  /\ Alone /\ mgr.pc = "idle" /\ m_SampleRate # rate
  /\ ~m_bIORunning
  /\ mgr' = [mgr EXCEPT !.pc = "rate", !.rate = rate]
  /\ UNCHANGED <<m_bIsStarted, ioVars, sizeVars, activeVars, clock, hrVars>> /\ MgrFrame

\* Mutant: the clocks keep the former rate.
RateSet_NoRestart ==
  /\ mgr.pc = "rate" /\ mgr' = Idle
  /\ m_SampleRate' = mgr.rate
  /\ m_ui32FrameSize' = FrameSize(m_TICFrameSizeAt1FS, mgr.rate, m_MaxFrameSize)
  /\ UNCHANGED <<m_TICFrameSizeAt1FS, m_MaxFrameSize>>
  /\ UNCHANGED <<m_bIsStarted, ioVars, activeVars, clock, hrVars>> /\ MgrFrame

\* The new rate, UpdateFrameSize, and whether the clocks are to be started again.
RateSet ==
  /\ mgr.pc = "rate"
  /\ mgr' = IF m_bIsStarted THEN [Idle EXCEPT !.pc = "rate0"] ELSE Idle
  /\ m_SampleRate' = mgr.rate
  /\ m_ui32FrameSize' = FrameSize(m_TICFrameSizeAt1FS, mgr.rate, m_MaxFrameSize)
  /\ UNCHANGED <<m_TICFrameSizeAt1FS, m_MaxFrameSize>>
  /\ UNCHANGED <<m_bIsStarted, ioVars, activeVars, clock, hrVars>> /\ MgrFrame

\* Both clocks are locked, or 4000 ms have passed; OnNewMessage makes no difference.
WaitEnds ==
  /\ mgr.pc = "wait" /\ mgr' = Idle
  /\ UNCHANGED <<m_bIsStarted, ioVars, sizeVars, activeVars, clock, hrVars>> /\ MgrFrame

MgrStep ==
  \/ StartClock(0, "start0", "start1") \/ StartClock(1, "start1", "timer")
  \/ start_clock_timer("timer", "started") \/ Started
  \/ MgrStopIO("capture", "io_capture", "io_capture_write", "io_playback")
  \/ MgrStopWrite("io_capture_write", "io_playback")
  \/ MgrStopIO("playback", "io_playback", "io_playback_write", "cancel")
  \/ MgrStopWrite("io_playback_write", "cancel")
  \/ stop_clock_timer \/ tasklet_kill
  \/ StopClock(0, "stop0", "stop1") \/ StopClock(1, "stop1", "stopped") \/ Stopped
  \/ RateSet \/ StartClock(0, "rate0", "rate1") \/ StartClock(1, "rate1", "rate_timer")
  \/ start_clock_timer("rate_timer", "wait") \/ WaitEnds

-----------------------------------------------------------------------------
(***************************************************************************)
(* The clock timer                                                         *)
(***************************************************************************)
TimerFrame == UNCHANGED <<m_bIsStarted, sizeVars, nicVars, mgr, alsa>>

\* The timer expires and its tasklet runs.
TimerFires ==
  /\ armed /\ timer = "idle"
  /\ armed' = FALSE /\ timer' = "select"
  /\ UNCHANGED <<ioVars, activeLocked, stop_>> /\ TimerFrame

\* Mutant: the first clock is taken unless it has the worse priority.
Selected_ByPriority == IF firstIsBetter THEN 0 ELSE 1

\* The NIC whose clock is used.
Selected ==
  IF clock[1].locked /\ ~(clock[0].locked /\ firstIsBetter) THEN 1 ELSE 0

\* Select_PTP_NIC and timerProcess of both clocks.
Select_PTP_NIC ==
  /\ timer = "select" /\ timer' = "tic"
  /\ activeLocked' = clock[Selected].locked
  /\ UNCHANGED <<ioVars, hrVars>> /\ TimerFrame

Interrupt(d) == IF d = "capture" THEN "interrupt_capture" ELSE "interrupt_playback"
AfterInterrupt(d) == IF d = "capture" THEN "playback" ELSE "end"

\* AudioFrameTIC, up to its interrupts; nobody reads the lock status after it.
AudioFrameTIC ==
  /\ timer = "tic"
  /\ timer' = IF m_bIORunning /\ activeLocked
              THEN "capture" ELSE "end"
  /\ activeLocked' = FALSE
  /\ UNCHANGED <<ioVars, hrVars>> /\ TimerFrame

\* The test of the flag of direction d; pcm_interrupt is the step after it.
TestIO(d) ==
  /\ timer = d
  /\ timer' = IF IO[d] THEN Interrupt(d) ELSE AfterInterrupt(d)
  /\ UNCHANGED <<ioVars, activeLocked, hrVars>> /\ TimerFrame

\* pcm_interrupt, as far as the manager goes.
Interrupted(d) ==
  /\ timer = Interrupt(d) /\ timer' = AfterInterrupt(d)
  /\ UNCHANGED <<ioVars, activeLocked, hrVars>> /\ TimerFrame

\* timer_callback tests stop_; a wake-up time that has passed, or one left unwritten by
\* a clock that is not started, makes it call t_clock_timer again at once.
TimerEnds ==
  /\ timer = "end"
  /\ timer' \in IF stop_ THEN {"idle"} ELSE {"restart", "select"}
  /\ UNCHANGED <<ioVars, activeLocked, hrVars>> /\ TimerFrame

\* hrtimer_restart
TimerRestarts ==
  /\ timer = "restart" /\ timer' = "idle"
  /\ armed' = TRUE
  /\ UNCHANGED <<ioVars, activeLocked, stop_>> /\ TimerFrame

TimerStep ==
  \/ Select_PTP_NIC \/ AudioFrameTIC \/ TimerEnds \/ TimerRestarts
  \/ \E d \in Dirs : TestIO(d)

-----------------------------------------------------------------------------
MgrCall ==
  \/ MgrStart \/ MgrStop(FALSE, 0, 0)
  \/ \E tic \in TICSizes : SetTICFrameSizeAt1FS(tic)
  \/ \E max \in MaxFrameSizes : SetMaxTICFrameSize(max)
  \/ \E named \in NamedNICs : SetInterfaceName(named)
  \/ \E rate \in Rates : SetSamplingRate(rate)

\* A call of startIO or stopIO goes on.
AppStepNext(d) == StartFlag(d) \/ StartRun(d) \/ StopWrite(d)

-----------------------------------------------------------------------------
(***************************************************************************)
(* Properties, for calls that do not overlap                               *)
(***************************************************************************)
\* Between calls m_bIORunning says whether a direction runs, and none runs on a driver
\* that was stopped, whatever calls came before.
FlagsAgree ==
  mgr.pc = "idle" /\ AppsIdle =>
    /\ m_bIORunning <=> \E d \in Dirs : IO[d]
    /\ m_bIORunning => m_bIsStarted

\* Between calls the clocks of the active NICs of a started driver run with the
\* manager's frame size and sampling rate, unless it was given other interfaces while it
\* was started, and those of a stopped driver not at all.
ClocksFollowRate ==
  mgr.pc = "idle" =>
    IF m_bIsStarted
    THEN ~renamed => \A n \in NICs : m_Is_NIC_Active[n] =>
           /\ clock[n].started
           /\ clock[n].frame = m_ui32FrameSize /\ clock[n].rate = m_SampleRate
    ELSE \A n \in NICs : ~clock[n].started

\* After stop at most one more callback of the clock timer runs, the one that
\* tasklet_hrtimer_cancel found about to start the timer again; it interrupts no
\* direction and does not start the timer once more.
StoppedIsSilent ==
  ~m_bIsStarted /\ mgr.pc = "idle" =>
    timer = "idle" \/ (timer \in {"select", "tic", "end"} /\ ~armed /\ stop_)

\* Once the driver is stopped the clock timer comes to rest, although the tasklet may
\* start it again after it was cancelled, unless another call begins.
StopIsQuiet ==
  (~m_bIsStarted /\ mgr.pc = "idle")
    ~> (mgr.pc # "idle" \/ (timer = "idle" /\ ~armed))

\* A direction that runs while some clock stays locked gets its interrupts, whatever
\* the other clock, the priorities and the other direction do.
IOServed ==
  \A d \in Dirs, n \in NICs :
    <>[](IO[d] /\ m_bIORunning /\ clock[n].locked) => []<>(timer = Interrupt(d))
=============================================================================
