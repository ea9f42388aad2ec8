------------------------------ MODULE PTPClock ------------------------------
(***************************************************************************)
(* The PTP slave clock of one NIC (driver/PTP.c, TClock_PTP): election of  *)
(* a PTP master from Announce packets, the lock state machine driven by    *)
(* Sync and Follow_Up packets, the watch dog of the timer callback, and    *)
(* the operations of the management thread (Start/StopAudioFrameTICTimer,  *)
(* SetPTPConfig).                                                          *)
(*                                                                         *)
(* Concurrency.  process_PTP_packet runs in the netfilter hook, in softirq *)
(* context, with no lock around it: a NIC with several receive queues runs *)
(* it on several CPUs at once (PTP event and general packets use different *)
(* UDP ports and so may hash to different queues).  Cpus is the set of     *)
(* CPUs that receive; a handler is split wherever it leaves or enters the  *)
(* spin lock m_csPTPTime or acts on shared state it has read before.  The  *)
(* timer callback and the management thread run beside the handlers.       *)
(*                                                                         *)
(* Environment.  Any master may send any packet at any time, so loss,      *)
(* duplication, reordering and a master that restarts are all included.    *)
(*                                                                         *)
(* Data.  A time stamp T1 is a value, which any Follow_Up or one-step Sync *)
(* may carry; the arrival time T2 of a Sync is identified by its master    *)
(* and sequence id: what matters is of which Sync it is.  Time is kept as  *)
(* ages, saturated where the code's comparisons no longer tell them apart. *)
(***************************************************************************)
EXTENDS Integers, FiniteSets

CONSTANTS
  Cpus,                       \* CPUs the receive hook runs on
  Masters,                    \* clock identities seen on the network
  NoMaster,                   \* clock identity 0: nobody elected
  Domains, DSCPs,             \* values of TPTPConfig.ui8Domain and ui8DSCP
  Announced,                  \* <<master, domain>> pairs that are announced
  SeqMod,                     \* sequence ids are taken modulo SeqMod (2^16)
  SeqIds,                     \* the ids the masters' Syncs carry (0 .. SeqMod - 1)
  T1Values,                   \* the time stamps T1 that packets carry
  PTP_LOCK_HYSTERESIS,        \* 4
  TIC_LOCK_HYSTERESIS,        \* 5
  PTP_WATCHDOG_ELAPSE,        \* 2 s, in clock units of the model
  PTPMASTER_ANNOUNCE_TIMEOUT  \* 5 s, in clock units of the model

ASSUME MastersAssumption == NoMaster \notin Masters
ASSUME ConfigAssumption ==
  0 \in Domains /\ 0 \in DSCPs /\ Announced \subseteq Masters \X Domains
ASSUME HysteresisAssumption ==
  PTP_LOCK_HYSTERESIS \in Nat \ {0, 1, 2} /\ TIC_LOCK_HYSTERESIS \in Nat \ {0}
ASSUME SeqAssumption ==
  SeqMod \in Nat \ {0} /\ SeqIds \subseteq 0 .. SeqMod - 1 /\ 0 \in SeqIds
ASSUME T1Assumption == T1Values \subseteq Nat
ASSUME TimeAssumption ==
  PTP_WATCHDOG_ELAPSE \in Nat /\ PTPMASTER_ANNOUNCE_TIMEOUT \in Nat

VARIABLES
  TimerStarted,         \* m_bAudioFrameTICTimerStarted
  PTPConfig,            \* m_PTPConfig
  ConfigChanged,        \* m_ui32PTPConfigChangedCounter # m_ui32LastPTPConfigChangedCounter
  ClockIdentity,        \* m_ui64PTPMaster_ClockIdentity
  AnnounceAge,          \* now - m_ui64PTPMaster_AnnounceTime, or NoAge for 0
  LastSyncSequenceId,   \* m_wLastSyncSequenceId
  T1,                   \* m_ui64T1
  T2,                   \* m_ui64T2, as the Sync it is the arrival time of
  PTPLockCounter,       \* m_usPTPLockCounter
  TICLockCounter,       \* m_usTICLockCounter
  WatchDogSeq,          \* m_wLastWatchDogSyncSequenceId
  WatchDogAge,          \* now - m_ui64LastWatchDogTime
  rx,                   \* what each receiving CPU is doing
  timerPc,              \* where the timer callback is
  opPc,                 \* where the management thread is
  \* History variables, read by no action
  t1Count,              \* time stamps counted since the last ResetPTPLock
  t1Sources,            \* the masters they came from
  oldRateT1,            \* one of them was computed with a former base period
  told,                 \* a Follow_Up was counted since then and since the last Sync
  electedDomain         \* the domain ClockIdentity was elected in

lockVars  == <<PTPLockCounter, TICLockCounter, t1Count, t1Sources, oldRateT1, told>>
masterVars == <<ClockIdentity, AnnounceAge, electedDomain>>
stampVars == <<LastSyncSequenceId, T1, T2>>
configVars == <<PTPConfig, ConfigChanged>>
watchVars == <<WatchDogSeq, WatchDogAge, timerPc>>
vars == <<TimerStarted, configVars, masterVars, stampVars, lockVars, watchVars,
          rx, opPc>>

Stamps   == (Masters \cup {NoMaster}) \X SeqIds
NoStamp  == <<NoMaster, 0>>
NoT1     == 0
NoAge    == -1
\* Time stamps a lock takes: the last one that unlocks the PTP counter is
\* also the first one that the TIC counter sees.
Evidence == PTP_LOCK_HYSTERESIS + TIC_LOCK_HYSTERESIS - 1

RxLabels == {"idle", "ann_reset_config", "ann_domain", "ann_reset_domain",
             "ann_elect", "ann_reset_elect", "ann_assign", "ann_save",
             "sync_lock", "sync_gap", "sync_end", "t1_of_sync", "t1_of_followup",
             "t1_save_sync", "t1_save_followup"}
IdleRx == [pc |-> "idle", src |-> NoMaster, dom |-> 0, seq |-> 0, t1 |-> NoT1]

TypeOK ==
  /\ TimerStarted \in BOOLEAN
  /\ PTPConfig \in [ui8Domain : Domains, ui8DSCP : DSCPs]
  /\ ConfigChanged \in BOOLEAN
  /\ ClockIdentity \in Masters \cup {NoMaster}
  /\ AnnounceAge \in NoAge .. PTPMASTER_ANNOUNCE_TIMEOUT + 1
  /\ LastSyncSequenceId \in SeqIds
  /\ T1 \in T1Values \cup {NoT1} /\ T2 \in Stamps
  /\ PTPLockCounter \in 0 .. PTP_LOCK_HYSTERESIS
  /\ TICLockCounter \in 0 .. TIC_LOCK_HYSTERESIS
  /\ WatchDogSeq \in SeqIds
  /\ WatchDogAge \in 0 .. PTP_WATCHDOG_ELAPSE
  /\ rx \in [Cpus -> [pc : RxLabels, src : Masters \cup {NoMaster},
                      dom : Domains, seq : SeqIds, t1 : T1Values \cup {NoT1}]]
  /\ timerPc \in {"idle", "save"}
  /\ opPc \in {"idle", "stop_reset", "start_stop_reset", "start_set",
               "start_reset", "config_count"}
  /\ t1Count \in 0 .. Evidence
  /\ t1Sources \subseteq Masters \cup {NoMaster}
  /\ oldRateT1 \in BOOLEAN /\ told \in BOOLEAN
  /\ electedDomain \in Domains

\* init_ptp: the TIC counter is not initialised there, it is 0 because the
\* manager is a zeroed global.
Init ==
  /\ TimerStarted = FALSE
  /\ PTPConfig = [ui8Domain |-> 0, ui8DSCP |-> 0] /\ ConfigChanged = FALSE
  /\ ClockIdentity = NoMaster /\ AnnounceAge = NoAge /\ electedDomain = 0
  /\ LastSyncSequenceId = 0 /\ T1 = NoT1 /\ T2 = NoStamp
  /\ PTPLockCounter = PTP_LOCK_HYSTERESIS /\ TICLockCounter = 0
  /\ WatchDogSeq = 0 /\ WatchDogAge = PTP_WATCHDOG_ELAPSE /\ timerPc = "idle"
  /\ rx = [c \in Cpus |-> IdleRx]
  /\ opPc = "idle"
  /\ t1Count = 0 /\ t1Sources = {} /\ oldRateT1 = FALSE /\ told = FALSE

GetLockStatus ==
  CASE PTPLockCounter # 0                        -> "UNLOCKED"
    [] PTPLockCounter = 0 /\ TICLockCounter # 0  -> "LOCKING"
    [] OTHER                                     -> "LOCKED"

\* Mutant: the TIC counter is not restored.
ResetPTPLock_KeepsTIC ==
  /\ PTPLockCounter' = PTP_LOCK_HYSTERESIS
  /\ UNCHANGED TICLockCounter
  /\ t1Count' = 0 /\ t1Sources' = {} /\ oldRateT1' = FALSE /\ told' = FALSE

ResetPTPLock ==
  /\ PTPLockCounter' = PTP_LOCK_HYSTERESIS
  /\ TICLockCounter' = TIC_LOCK_HYSTERESIS
  /\ t1Count' = 0 /\ t1Sources' = {} /\ oldRateT1' = FALSE /\ told' = FALSE

Goto(c, l) == rx' = [rx EXCEPT ![c].pc = l]
GotoWith(c, l, v) == rx' = [rx EXCEPT ![c].pc = l, ![c].t1 = v]
Return(c)  == rx' = [rx EXCEPT ![c] = IdleRx]

\* A packet of master m reaches process_PTP_packet on CPU c and passes the
\* common checks; packets that fail them change nothing.
Receive(c, l, m, d, s, v) ==
  /\ TimerStarted
  /\ rx[c].pc = "idle"
  /\ rx' = [rx EXCEPT ![c] = [pc |-> l, src |-> m, dom |-> d, seq |-> s, t1 |-> v]]

-----------------------------------------------------------------------------
(* PTP_ANNOUNCE_MESSAGE                                                    *)

\* Mutant: a changed configuration is noted but the election not restarted.
RecvAnnounce_NoRestart(c, m, d) ==
  /\ <<m, d>> \in Announced
  /\ Receive(c, "ann_domain", m, d, 0, NoT1) /\ ConfigChanged' = FALSE
  /\ UNCHANGED <<TimerStarted, PTPConfig, masterVars, stampVars, lockVars,
                 watchVars, opPc>>

\* First test: has the configuration changed since the last Announce?
RecvAnnounce(c, m, d) ==
  /\ <<m, d>> \in Announced
  /\ \/ /\ ConfigChanged /\ ConfigChanged' = FALSE
        /\ ResetPTPLock
        /\ Receive(c, "ann_reset_config", m, d, 0, NoT1)
     \/ /\ ~ConfigChanged
        /\ Receive(c, "ann_domain", m, d, 0, NoT1)
        /\ UNCHANGED <<ConfigChanged, lockVars>>
  /\ UNCHANGED <<TimerStarted, PTPConfig, masterVars, stampVars, watchVars, opPc>>

\* ResetPTPMaster, from each of its three calls in the Announce handler.
AfterReset == [ann_reset_config |-> "ann_domain", ann_reset_domain |-> "ann_elect",
               ann_reset_elect  |-> "ann_assign"]

ResetPTPMaster(c) ==
  /\ rx[c].pc \in DOMAIN AfterReset
  /\ ClockIdentity' = NoMaster /\ AnnounceAge' = NoAge
  /\ Goto(c, AfterReset[rx[c].pc])
  /\ UNCHANGED <<TimerStarted, configVars, electedDomain, stampVars, lockVars,
                 watchVars, opPc>>

\* Second test: the elected master no longer announces the wanted domain.
AnnounceDomain(c) ==
  /\ rx[c].pc = "ann_domain"
  /\ \/ /\ rx[c].src = ClockIdentity /\ rx[c].dom # PTPConfig.ui8Domain
        /\ ResetPTPLock
        /\ Goto(c, "ann_reset_domain")
     \/ /\ ~(rx[c].src = ClockIdentity /\ rx[c].dom # PTPConfig.ui8Domain)
        /\ Goto(c, "ann_elect")
        /\ UNCHANGED lockVars
  /\ UNCHANGED <<TimerStarted, configVars, masterVars, stampVars, watchVars, opPc>>

\* Mutant: an elected master is never given up for being silent.
ElectThisPTPMaster_NoTimeout == ClockIdentity = NoMaster

\* "very simple PTPMaster election"
ElectThisPTPMaster ==
  \/ ClockIdentity = NoMaster
  \/ AnnounceAge # NoAge /\ AnnounceAge > PTPMASTER_ANNOUNCE_TIMEOUT

\* Mutant: the announced domain is not compared with the wanted one.
AnnounceElect_AnyDomain(c) ==
  /\ rx[c].pc = "ann_elect"
  /\ \/ ElectThisPTPMaster /\ ResetPTPLock /\ Goto(c, "ann_reset_elect")
     \/ ~ElectThisPTPMaster /\ Goto(c, "ann_save") /\ UNCHANGED lockVars
  /\ UNCHANGED <<TimerStarted, configVars, masterVars, stampVars, watchVars, opPc>>

AnnounceElect(c) ==
  /\ rx[c].pc = "ann_elect"
  /\ \/ /\ rx[c].dom # PTPConfig.ui8Domain
        /\ Return(c) /\ UNCHANGED lockVars
     \/ /\ rx[c].dom = PTPConfig.ui8Domain /\ ElectThisPTPMaster
        /\ ResetPTPLock
        /\ Goto(c, "ann_reset_elect")
     \/ /\ rx[c].dom = PTPConfig.ui8Domain /\ ~ElectThisPTPMaster
        /\ Goto(c, "ann_save") /\ UNCHANGED lockVars
  /\ UNCHANGED <<TimerStarted, configVars, masterVars, stampVars, watchVars, opPc>>

\* "use this PTP Master"
AnnounceAssign(c) ==
  /\ rx[c].pc = "ann_assign"
  /\ ClockIdentity' = rx[c].src /\ electedDomain' = rx[c].dom
  /\ Goto(c, "ann_save")
  /\ UNCHANGED <<TimerStarted, configVars, AnnounceAge, stampVars, lockVars,
                 watchVars, opPc>>

\* Only the elected master's Announce is saved and dated.
AnnounceSave(c) ==
  /\ rx[c].pc = "ann_save"
  /\ AnnounceAge' = IF rx[c].src = ClockIdentity THEN 0 ELSE AnnounceAge
  /\ Return(c)
  /\ UNCHANGED <<TimerStarted, configVars, ClockIdentity, electedDomain, stampVars,
                 lockVars, watchVars, opPc>>

-----------------------------------------------------------------------------
(* PTP_SYNC_MESSAGE and PTP_FOLLOWUP_MESSAGE                               *)

\* wDeltaSeq, a uint16_t
DeltaSeq(s) == (s - LastSyncSequenceId) % SeqMod

FromElected(m) == m = ClockIdentity

SyncGap(s) == DeltaSeq(s) > PTP_LOCK_HYSTERESIS

RecvSync(c, m, s) ==
  /\ FromElected(m)
  /\ Receive(c, IF SyncGap(s) THEN "sync_gap" ELSE "sync_lock", m, 0, s, NoT1)
  /\ UNCHANGED <<TimerStarted, configVars, masterVars, stampVars, lockVars,
                 watchVars, opPc>>

\* A gap: the lock is reset and T2 is left as it is.
SyncReset(c) ==
  /\ rx[c].pc = "sync_gap"
  /\ ResetPTPLock
  /\ Goto(c, "sync_end")
  /\ UNCHANGED <<TimerStarted, configVars, masterVars, stampVars, watchVars, opPc>>

Stamp(c) == <<rx[c].src, rx[c].seq>>

\* ProcessT1 drops a time stamp that is equal to the last one.
DeltaT1(v) == v - T1

\* No gap: T2 is recorded; a one-step Sync carries its own T1.
SyncT2(c) ==
  /\ rx[c].pc = "sync_lock"
  /\ T2' = Stamp(c)
  /\ \/ Goto(c, "sync_end")
     \/ \E v \in T1Values : DeltaT1(v) # 0 /\ GotoWith(c, "t1_of_sync", v)
  /\ UNCHANGED <<TimerStarted, configVars, masterVars, LastSyncSequenceId, T1,
                 lockVars, watchVars, opPc>>

SyncEnd(c) ==
  /\ rx[c].pc = "sync_end"
  /\ LastSyncSequenceId' = rx[c].seq /\ told' = FALSE
  /\ Return(c)
  /\ UNCHANGED <<TimerStarted, configVars, masterVars, T1, T2, PTPLockCounter,
                 TICLockCounter, t1Count, t1Sources, oldRateT1, watchVars, opPc>>

\* Mutant: a Follow_Up is not compared with the last Sync received.
FollowUpMatches_Any(s) == TRUE

FollowUpMatches(s) == s = LastSyncSequenceId

\* A Follow_Up that does not match, or that brings the last T1 again, changes
\* nothing.
RecvFollowUp(c, m, s, v) ==
  /\ FromElected(m) /\ FollowUpMatches(s)
  /\ DeltaT1(v) # 0
  /\ Receive(c, "t1_of_followup", m, 0, s, v)
  /\ UNCHANGED <<TimerStarted, configVars, masterVars, stampVars, lockVars,
                 watchVars, opPc>>

\* Mutant: the counter, an unsigned short, is not compared with 0.
Decrement_Wraps(n) == (n - 1) % 65536

Decrement(n) == IF n > 0 THEN n - 1 ELSE 0

\* The lock counters in ProcessT1.  inRange: the TIC frame is less than one and
\* a half periods off.  The phase correction then is at most 400000 (the leaky
\* integrator is bound to 4000000 and divided by 10), so that the TIC counter
\* always runs down and the branch that would restore it is never taken.
CountT1(inRange) ==
  /\ PTPLockCounter' = Decrement(PTPLockCounter)
  /\ TICLockCounter' = IF PTPLockCounter' = 0 /\ inRange
                         THEN Decrement(TICLockCounter) ELSE TICLockCounter

\* The critical section of ProcessT1.
ProcessT1(c) ==
  /\ rx[c].pc \in {"t1_of_sync", "t1_of_followup"}
  /\ \E inRange \in BOOLEAN : CountT1(inRange)
  /\ t1Count' = IF t1Count < Evidence THEN t1Count + 1 ELSE t1Count
  /\ t1Sources' = t1Sources \cup {rx[c].src}
  /\ told' = (told \/ rx[c].pc = "t1_of_followup")
  /\ Goto(c, IF rx[c].pc = "t1_of_sync" THEN "t1_save_sync" ELSE "t1_save_followup")
  /\ UNCHANGED <<TimerStarted, configVars, masterVars, stampVars, watchVars, opPc,
                 oldRateT1>>

\* The assignment that ends ProcessT1, outside of the critical section.
SaveT1(c) ==
  /\ T1' = rx[c].t1
  /\ \/ rx[c].pc = "t1_save_sync" /\ GotoWith(c, "sync_end", NoT1)
     \/ rx[c].pc = "t1_save_followup" /\ Return(c)
  /\ UNCHANGED <<TimerStarted, configVars, masterVars, LastSyncSequenceId, T2,
                 lockVars, watchVars, opPc>>

-----------------------------------------------------------------------------
(* The timer callback and the passing of time                              *)

\* Mutant: the watch dog compares with the sequence id it has just saved.
WatchDogBites_Never == FALSE

WatchDogBites == WatchDogSeq = LastSyncSequenceId /\ GetLockStatus # "UNLOCKED"

\* The watch dog of timerProcess, up to the end of its critical section.  (The
\* reset for a link that is down, just before, is never taken: IsLinkUp is 1.)
TimerWatchDog ==
  /\ TimerStarted /\ timerPc = "idle"
  /\ WatchDogAge >= PTP_WATCHDOG_ELAPSE
  /\ \/ WatchDogBites /\ ResetPTPLock
     \/ ~WatchDogBites /\ UNCHANGED lockVars
  /\ timerPc' = "save"
  /\ UNCHANGED <<TimerStarted, configVars, masterVars, stampVars, WatchDogSeq,
                 WatchDogAge, rx, opPc>>

\* The sequence id is read again, after the critical section.
TimerWatchDogSave ==
  /\ timerPc = "save" /\ timerPc' = "idle"
  /\ WatchDogSeq' = LastSyncSequenceId
  /\ WatchDogAge' = 0
  /\ UNCHANGED <<TimerStarted, configVars, masterVars, stampVars, lockVars, rx, opPc>>

Saturated(age, top) == IF age < top THEN age + 1 ELSE age

\* Time passes; beyond the two limits it makes no difference.
Tick ==
  /\ AnnounceAge' = IF AnnounceAge = NoAge THEN NoAge
                    ELSE Saturated(AnnounceAge, PTPMASTER_ANNOUNCE_TIMEOUT + 1)
  /\ WatchDogAge' = Saturated(WatchDogAge, PTP_WATCHDOG_ELAPSE)
  /\ <<AnnounceAge', WatchDogAge'>> # <<AnnounceAge, WatchDogAge>>
  /\ UNCHANGED <<TimerStarted, configVars, ClockIdentity, electedDomain, stampVars,
                 lockVars, WatchDogSeq, timerPc, rx, opPc>>

-----------------------------------------------------------------------------
(* The management thread                                                   *)

\* StopAudioFrameTICTimer, on its own or as the first call of
\* StartAudioFrameTICTimer, which then goes on.
StopAudioFrameTICTimer(next) ==
  /\ opPc = "idle" /\ opPc' = next
  /\ TimerStarted' = FALSE
  /\ UNCHANGED <<configVars, masterVars, stampVars, lockVars, watchVars, rx>>

\* Mutant: stopping does not reset the lock.
StopReset_Missing ==
  /\ \/ opPc = "stop_reset" /\ opPc' = "idle"
     \/ opPc = "start_stop_reset" /\ opPc' = "start_set"
  /\ UNCHANGED <<TimerStarted, configVars, masterVars, stampVars, lockVars,
                 watchVars, rx>>

StopReset ==
  /\ \/ opPc = "stop_reset" /\ opPc' = "idle"
     \/ opPc = "start_stop_reset" /\ opPc' = "start_set"
  /\ ResetPTPLock
  /\ UNCHANGED <<TimerStarted, configVars, masterVars, stampVars, watchVars, rx>>

\* The new frame size, sampling rate and base period.
StartSet ==
  /\ opPc = "start_set" /\ opPc' = "start_reset"
  /\ TimerStarted' = TRUE
  /\ oldRateT1' = (t1Count # 0)
  /\ UNCHANGED <<configVars, masterVars, stampVars, PTPLockCounter, TICLockCounter,
                 t1Count, t1Sources, told, watchVars, rx>>

\* Mutant: the last call of StartAudioFrameTICTimer is left out.
StartReset_Missing ==
  /\ opPc = "start_reset" /\ opPc' = "idle"
  /\ UNCHANGED <<TimerStarted, configVars, masterVars, stampVars, lockVars,
                 watchVars, rx>>

\* "samplingrate and/or framesize changed so computation made during PTP locking
\* is no longer valid"
StartReset ==
  /\ opPc = "start_reset" /\ opPc' = "idle"
  /\ ResetPTPLock
  /\ UNCHANGED <<TimerStarted, configVars, masterVars, stampVars, watchVars, rx>>

\* SetPTPConfig copies the configuration, then counts the change.
SetPTPConfig(config) ==
  /\ opPc = "idle" /\ opPc' = "config_count"
  /\ config # PTPConfig
  /\ PTPConfig' = config
  /\ UNCHANGED <<TimerStarted, ConfigChanged, masterVars, stampVars, lockVars,
                 watchVars, rx>>

CountConfigChange ==
  /\ opPc = "config_count" /\ opPc' = "idle"
  /\ ConfigChanged' = TRUE
  /\ UNCHANGED <<TimerStarted, PTPConfig, masterVars, stampVars, lockVars,
                 watchVars, rx>>

-----------------------------------------------------------------------------
\* The steps a handler takes after the one that received its packet
RxStep(c) ==
  \/ ResetPTPMaster(c) \/ AnnounceDomain(c) \/ AnnounceElect(c)
  \/ AnnounceAssign(c) \/ AnnounceSave(c)
  \/ SyncReset(c) \/ SyncT2(c) \/ SyncEnd(c)
  \/ ProcessT1(c) \/ SaveT1(c)

OpStep == StopReset \/ StartSet \/ StartReset \/ CountConfigChange

Next ==
  \/ \E c \in Cpus :
       \/ \E m \in Masters :
            \/ \E d \in Domains : RecvAnnounce(c, m, d)
            \/ \E s \in SeqIds : RecvSync(c, m, s)
            \/ \E s \in SeqIds, v \in T1Values : RecvFollowUp(c, m, s, v)
       \/ RxStep(c)
  \/ TimerWatchDog \/ TimerWatchDogSave \/ Tick
  \/ StopAudioFrameTICTimer("stop_reset")
  \/ StopAudioFrameTICTimer("start_stop_reset")
  \/ OpStep
  \/ \E config \in [ui8Domain : Domains, ui8DSCP : DSCPs] : SetPTPConfig(config)

Spec == Init /\ [][Next]_vars

-----------------------------------------------------------------------------
(* Safety, for any number of receiving CPUs                                *)

\* GetLockStatus says LOCKED only on the evidence of PTP_LOCK_HYSTERESIS +
\* TIC_LOCK_HYSTERESIS - 1 time stamps counted by ProcessT1 since the last
\* ResetPTPLock, whatever resets and time stamps are interleaved, and although
\* init_ptp leaves the TIC counter at 0.
LockNeedsEvidence == GetLockStatus = "LOCKED" => t1Count = Evidence

\* When StartAudioFrameTICTimer has returned, no time stamp that counts towards
\* the lock was computed with the base period of the former sampling rate or
\* frame size, even one that a handler was working on during the call.
NoT1OfFormerRate == opPc = "idle" => ~oldRateT1

\* The clock is the LockedClock that IOControl builds on: a stop takes effect with
\* its reset of the lock, and from then on no handler still at work moves the
\* status.  For fewer receiving CPUs than PTP_LOCK_HYSTERESIS.
Clock == INSTANCE LockedClock WITH
  started <- TimerStarted \/ opPc \in {"stop_reset", "start_stop_reset"},
  status  <- GetLockStatus

ImplementsClock == Clock!Spec

-----------------------------------------------------------------------------
(* Safety, when handlers on different CPUs do not overlap                  *)

\* "Check PTP Clock identity": the time stamps that count towards the lock are of
\* the elected master only; electing another one, or none, starts from nothing.
\* Does not hold with two CPUs: the identity of a packet is tested before its time
\* stamp is counted, and an election in between changes the master.
T1OfElectedOnly == t1Sources \subseteq {ClockIdentity}

InT1(c) == rx[c].pc \in {"t1_of_sync", "t1_of_followup"}

\* When ProcessT1 uses T1 together with T2 (to compute the period as its counter
\* reaches 1, the clock offset and the phase when it is 0) both are of the same
\* Sync: in a one-step Sync always, in a Follow_Up when it is the first one that
\* is counted for its Sync.  A Follow_Up is accepted by its sequence id alone and
\* T2 is stale after a gap in the Sync sequence and after an election, but then
\* the first time stamp is only counted.  (A second Follow_Up of that Sync with
\* another T1 is not dropped, and is used with the stale T2.)
T1MatchesT2 ==
  \A c \in Cpus :
    /\ InT1(c) /\ PTPLockCounter <= 2
    /\ rx[c].pc = "t1_of_followup" => ~told
    => T2 = Stamp(c)

\* Once a change of the configuration has been seen by an Announce, the elected
\* master is one that was elected in the configured domain.
ElectedInDomain ==
  /\ ClockIdentity # NoMaster
  /\ ~ConfigChanged /\ opPc # "config_count"
  /\ \A c \in Cpus : rx[c].pc # "ann_reset_config"
  => electedDomain = PTPConfig.ui8Domain

-----------------------------------------------------------------------------
(* Inductive strengthenings, for the proofs                                *)

\* Before the first ResetPTPLock the TIC counter is 0, but nothing is received.
NeverStarted ==
  /\ ~TimerStarted /\ opPc \in {"idle", "stop_reset", "start_stop_reset", "config_count"}
  /\ \A c \in Cpus : rx[c].pc = "idle"
  /\ PTPLockCounter = PTP_LOCK_HYSTERESIS

EvidenceInv ==
  \/ NeverStarted
  \/ /\ PTPLockCounter + t1Count >= PTP_LOCK_HYSTERESIS
     /\ \/ TICLockCounter = TIC_LOCK_HYSTERESIS
        \/ TICLockCounter + t1Count >= Evidence

SingleCpu == \A c, d \in Cpus : c = d

ElectionLabels == {"ann_reset_config", "ann_reset_domain", "ann_reset_elect", "ann_assign"}
PacketLabels == {"sync_lock", "sync_gap", "sync_end", "t1_of_sync", "t1_of_followup",
                 "t1_save_sync", "t1_save_followup"}
Electing(c) == rx[c].pc \in ElectionLabels
InPacket(c) == rx[c].pc \in PacketLabels

\* No CPU elects a master while another handles a Sync or Follow_Up.
ElectionApart == \A c, d \in Cpus : Electing(c) => ~InPacket(d)

\* Moreover, one CPU at a time handles a Sync or Follow_Up.
PacketsApart == ElectionApart /\ \A c, d \in Cpus : InPacket(c) /\ InPacket(d) => c = d

\* A Sync or Follow_Up being handled is of the elected master; from ResetPTPLock
\* to the end of the election nothing is counted.
ElectionInv ==
  /\ T1OfElectedOnly
  /\ \A c \in Cpus :
       /\ InPacket(c) => rx[c].src = ClockIdentity
       /\ Electing(c) => t1Sources = {} /\ PTPLockCounter = PTP_LOCK_HYSTERESIS

\* Between packets T2 is of the last Sync of the elected master, or nothing has
\* been counted, or a Follow_Up of that Sync has.
Paired ==
  \/ T2 = <<ClockIdentity, LastSyncSequenceId>>
  \/ PTPLockCounter = PTP_LOCK_HYSTERESIS
  \/ told

PairInv ==
  /\ (\A c \in Cpus : ~InPacket(c)) => Paired
  /\ \A c \in Cpus :
       /\ rx[c].pc \in {"t1_of_sync", "t1_save_sync"} => T2 = Stamp(c)
       /\ rx[c].pc = "sync_end" => T2 = Stamp(c) \/ PTPLockCounter = PTP_LOCK_HYSTERESIS
       /\ rx[c].pc \in {"t1_of_followup", "t1_save_followup"} =>
            rx[c].seq = LastSyncSequenceId /\ Paired

-----------------------------------------------------------------------------
(* Liveness                                                                *)

\* A handler that has started, an operation that has started, the timer and time
\* go on.  Packets need not arrive.
Fairness ==
  /\ \A c \in Cpus : WF_vars(RxStep(c))
  /\ WF_vars(OpStep) /\ WF_vars(Tick)
  /\ WF_vars(TimerWatchDog) /\ WF_vars(TimerWatchDogSave)

FairSpec == Spec /\ Fairness

NoSync ==
  \A c \in Cpus : rx[c].pc = "idle" => rx'[c].pc \notin {"sync_lock", "sync_gap"}
NoFollowUp ==
  \A c \in Cpus : rx[c].pc = "idle" => rx'[c].pc # "t1_of_followup"

\* A master that stops sending Sync packets is noticed: the clock is UNLOCKED again
\* and again, even if Follow_Up packets with the last id keep bringing time stamps
\* and lock it anew between two bites of the watch dog; and it stays UNLOCKED once
\* they bring none, whatever Announce packets still arrive.
SilentMasterUnlocks ==
  <>[][NoSync]_vars =>
    /\ []<>(GetLockStatus = "UNLOCKED")
    /\ <>[][NoFollowUp]_vars => <>[](GetLockStatus = "UNLOCKED")

NoAnnounceOf(m) ==
  \A c \in Cpus : rx[c].pc = "idle" =>
    ~(rx'[c].src = m /\ rx'[c].pc \in {"ann_domain", "ann_reset_config"})

\* The Announce packets of p[1] in domain p[2] keep being received.
KeepsAnnouncing(p) == []<><<\E c \in Cpus : RecvAnnounce(c, p[1], p[2])>>_vars

\* A master that stops announcing itself is given up, when another master of the
\* configured domain keeps announcing itself.
SilentMasterReplaced ==
  \A m \in Masters, p \in Announced :
    /\ p[1] # m
    /\ <>[][NoAnnounceOf(m)]_vars
    /\ KeepsAnnouncing(p)
    /\ <>[](PTPConfig.ui8Domain = p[2])
    => <>[](ClockIdentity # m)

\* A change of configuration takes effect: once it is no longer changed, and as
\* long as Announce packets of some master in some domain are received, the
\* elected master, if any, comes to be one elected in the configured domain.
ConfigTakesEffect ==
  \A d \in Domains :
    /\ <>[](PTPConfig.ui8Domain = d)
    /\ \E p \in Announced : KeepsAnnouncing(p)
    => <>[](ClockIdentity # NoMaster => electedDomain = d)
=============================================================================
