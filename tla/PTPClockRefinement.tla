------------------------- MODULE PTPClockRefinement -------------------------
(* PTPClock implements LockedClock, which is what IOControl assumes of a     *)
(* clock, when fewer CPUs receive packets than the PTP lock takes time       *)
(* stamps: a stopped clock cannot be locked by the handlers still at work.   *)
EXTENDS PTPClockProofs, FiniteSetTheorems

USE DEF lockVars, masterVars, stampVars, configVars, watchVars, vars

\* The clock as LockedClock sees it is started.
ClockStarted == TimerStarted \/ opPc \in {"stop_reset", "start_stop_reset"}

\* The TIC counter waits for the PTP counter, from the first reset on.
TICWaits ==
  NeverStarted \/ PTPLockCounter = 0 \/ TICLockCounter = TIC_LOCK_HYSTERESIS

\* Handlers that are yet to count a time stamp
Counting == {"sync_lock", "t1_of_sync", "t1_of_followup"}

\* Handlers that have counted their time stamp, or have none to count
DoneCounting == {c \in Cpus : rx[c].pc \notin Counting}

\* While the clock is stopped, a handler that was at work counts once: what is left of
\* the PTP counter, and the handlers that can take nothing from it, make the hysteresis.
CountsOnce ==
  ~ClockStarted => PTPLockCounter + Cardinality(DoneCounting) >= PTP_LOCK_HYSTERESIS

\* Fewer CPUs receive than time stamps are counted before the clock is LOCKING.
FewCpus == IsFiniteSet(Cpus) /\ Cardinality(Cpus) < PTP_LOCK_HYSTERESIS

\* The counted handlers are finitely many, and no more than the CPUs.
LEMMA CountedFacts ==
  ASSUME FewCpus
  PROVE  /\ IsFiniteSet(DoneCounting) /\ Cardinality(DoneCounting) \in Nat
         /\ Cardinality(DoneCounting) < PTP_LOCK_HYSTERESIS
         /\ IsFiniteSet(DoneCounting') /\ Cardinality(DoneCounting') \in Nat
         /\ Cardinality(DoneCounting') < PTP_LOCK_HYSTERESIS
<1>1. DoneCounting \in SUBSET Cpus /\ DoneCounting' \in SUBSET Cpus
  BY DEF DoneCounting
<1>2. Cardinality(Cpus) \in Nat /\ Cardinality(Cpus) < PTP_LOCK_HYSTERESIS
  BY FS_CardinalityType DEF FewCpus
<1>3. /\ IsFiniteSet(DoneCounting) /\ Cardinality(DoneCounting) <= Cardinality(Cpus)
      /\ IsFiniteSet(DoneCounting') /\ Cardinality(DoneCounting') <= Cardinality(Cpus)
  BY <1>1, FS_Subset DEF FewCpus
<1>4. Cardinality(DoneCounting) \in Nat /\ Cardinality(DoneCounting') \in Nat
  BY <1>3, FS_CardinalityType
<1>5. QED
  BY <1>2, <1>3, <1>4, HysteresisAssumption

\* As long as handlers only leave Counting, their number does not shrink.
LEMMA CountedGrows ==
  ASSUME FewCpus, DoneCounting \subseteq DoneCounting'
  PROVE  Cardinality(DoneCounting) <= Cardinality(DoneCounting')
BY CountedFacts, FS_Subset

\* A reset makes the invariant true whatever the handlers do.
LEMMA ResetCounts ==
  ASSUME FewCpus, ResetPTPLock
  PROVE  CountsOnce'
BY CountedFacts, HysteresisAssumption DEF ResetPTPLock, CountsOnce

\* A clock that is reset reports UNLOCKED, one whose counters stay reports the same.
LEMMA StatusFacts ==
  /\ ResetPTPLock => GetLockStatus' = "UNLOCKED"
  /\ UNCHANGED <<PTPLockCounter, TICLockCounter>> => GetLockStatus' = GetLockStatus
BY HysteresisAssumption DEF ResetPTPLock, GetLockStatus

\* A step that resets or leaves the counters, and neither starts nor stops the clock,
\* is a reset or a stuttering step of LockedClock.
LEMMA QuietStep ==
  ASSUME ClockStarted' = ClockStarted,
         ResetPTPLock \/ UNCHANGED <<PTPLockCounter, TICLockCounter>>
  PROVE  [Clock!Next]_(Clock!clockVars)
BY StatusFacts DEF Clock!Next, Clock!Reset, Clock!clockVars, ClockStarted

\* ProcessT1 moves the status one step at most, and not at all once it is stopped.
LEMMA T1Step ==
  ASSUME TypeOK, TICWaits, CountsOnce, FewCpus, TIC_LOCK_HYSTERESIS # 1,
         NEW c \in Cpus, ProcessT1(c)
  PROVE  TICWaits' /\ CountsOnce' /\ [Clock!Next]_(Clock!clockVars)
<1>1. PICK inRange \in BOOLEAN : CountT1(inRange)
  BY DEF ProcessT1
<1>2. /\ PTPLockCounter \in 0 .. PTP_LOCK_HYSTERESIS
      /\ TICLockCounter \in 0 .. TIC_LOCK_HYSTERESIS
  BY DEF TypeOK
<1>3. PTPLockCounter' = (IF PTPLockCounter > 0 THEN PTPLockCounter - 1 ELSE 0)
  BY <1>1 DEF CountT1, Decrement
<1>4. \/ TICLockCounter' = TICLockCounter
      \/ /\ PTPLockCounter' = 0
         /\ TICLockCounter' = (IF TICLockCounter > 0 THEN TICLockCounter - 1 ELSE 0)
  BY <1>1 DEF CountT1, Decrement
<1>5. /\ rx[c].pc \in Counting /\ rx[c].pc # "idle"
      /\ UNCHANGED <<TimerStarted, opPc>>
  BY DEF ProcessT1, Counting
<1>6. PTPLockCounter = 0 \/ TICLockCounter = TIC_LOCK_HYSTERESIS
  BY <1>5 DEF TICWaits, NeverStarted
<1>7. TICWaits'
  BY <1>2, <1>3, <1>4, <1>6, HysteresisAssumption DEF TICWaits
<1>8. c \notin DoneCounting /\ DoneCounting' = DoneCounting \cup {c}
  <2>1. rx'[c].pc \notin Counting /\ \A d \in Cpus \ {c} : rx'[d] = rx[d]
    BY DEF ProcessT1, Goto, Counting, TypeOK
  <2>2. QED
    BY <1>5, <2>1 DEF DoneCounting
<1>9. /\ Cardinality(DoneCounting') = Cardinality(DoneCounting) + 1
      /\ Cardinality(DoneCounting) \in Nat /\ Cardinality(DoneCounting') < PTP_LOCK_HYSTERESIS
  BY <1>8, CountedFacts, FS_AddElement
<1>10. CountsOnce'
  BY <1>2, <1>3, <1>5, <1>9, HysteresisAssumption DEF CountsOnce, ClockStarted
<1>11. CASE ~ClockStarted
  <2>1. PTPLockCounter' # 0 /\ PTPLockCounter # 0
    BY <1>2, <1>3, <1>9, <1>11, HysteresisAssumption DEF CountsOnce
  <2>2. GetLockStatus = "UNLOCKED" /\ GetLockStatus' = "UNLOCKED"
    BY <2>1 DEF GetLockStatus
  <2>3. QED
    BY <1>7, <1>10, <1>5, <2>2 DEF Clock!clockVars
<1>12. CASE ClockStarted
  <2>1. \/ GetLockStatus' = GetLockStatus
        \/ GetLockStatus = "UNLOCKED" /\ GetLockStatus' = "LOCKING"
        \/ GetLockStatus = "LOCKING" /\ GetLockStatus' = "LOCKED"
    BY <1>2, <1>3, <1>4, <1>6, HysteresisAssumption DEF GetLockStatus
  <2>2. QED
    BY <1>7, <1>10, <1>5, <1>12, <2>1
       DEF Clock!Next, Clock!Advance, Clock!clockVars, ClockStarted
<1>13. QED
  BY <1>11, <1>12

\* The steps of a handler, other than ProcessT1.
LEMMA RxStepQuiet ==
  ASSUME TypeOK, TICWaits, CountsOnce, FewCpus, NEW c \in Cpus, RxStep(c), ~ProcessT1(c)
  PROVE  TICWaits' /\ CountsOnce' /\ [Clock!Next]_(Clock!clockVars)
<1>1. /\ UNCHANGED <<TimerStarted, opPc>> /\ rx[c].pc # "idle"
      /\ ResetPTPLock \/ UNCHANGED <<PTPLockCounter, TICLockCounter>>
  BY DEF RxStep, ResetPTPMaster, AfterReset, AnnounceDomain, AnnounceElect, AnnounceAssign,
         AnnounceSave, SyncReset, SyncT2, SyncEnd, SaveT1, ProcessT1
<1>2. \A d \in Cpus : rx'[d].pc \in Counting => rx[d].pc \in Counting
  <2>1. ASSUME NEW l, Goto(c, l), l \in Counting => rx[c].pc \in Counting
        PROVE  \A d \in Cpus : rx'[d].pc \in Counting => rx[d].pc \in Counting
    BY <2>1 DEF Goto, TypeOK
  <2>2. ASSUME Return(c)
        PROVE  \A d \in Cpus : rx'[d].pc \in Counting => rx[d].pc \in Counting
    BY <2>2 DEF Return, IdleRx, Counting, TypeOK
  <2>g. ASSUME NEW l, NEW v, GotoWith(c, l, v), l \in Counting => rx[c].pc \in Counting
        PROVE  \A d \in Cpus : rx'[d].pc \in Counting => rx[d].pc \in Counting
    BY <2>g DEF GotoWith, TypeOK
  <2>3. CASE ResetPTPMaster(c)
    BY <2>1, <2>3 DEF ResetPTPMaster, AfterReset, Counting
  <2>4. CASE AnnounceDomain(c) \/ AnnounceElect(c) \/ AnnounceAssign(c) \/ AnnounceSave(c)
    BY <2>1, <2>2, <2>4 DEF AnnounceDomain, AnnounceElect, AnnounceAssign, AnnounceSave, Counting
  <2>5. CASE SyncReset(c) \/ SyncT2(c) \/ SyncEnd(c) \/ SaveT1(c)
    BY <2>1, <2>2, <2>g, <2>5 DEF SyncReset, SyncT2, SyncEnd, SaveT1, Counting
  <2>6. QED
    BY <2>3, <2>4, <2>5 DEF RxStep
<1>3. TICWaits'
  BY <1>1 DEF TICWaits, NeverStarted, ResetPTPLock
<1>4. CountsOnce'
  <2>1. Cardinality(DoneCounting) <= Cardinality(DoneCounting')
    BY <1>2, CountedGrows DEF DoneCounting
  <2>2. CASE UNCHANGED <<PTPLockCounter, TICLockCounter>>
    BY <1>1, <2>1, <2>2, CountedFacts, HysteresisAssumption DEF CountsOnce, ClockStarted, TypeOK
  <2>3. QED
    BY <1>1, <2>2, ResetCounts
<1>5. QED
  BY <1>1, <1>3, <1>4, QuietStep DEF ClockStarted

\* A step that keeps the counters and the handlers, and the clock started or stopped.
LEMMA KeepStep ==
  ASSUME TICWaits, CountsOnce, UNCHANGED <<lockVars, rx>>, ClockStarted' = ClockStarted,
         NeverStarted => NeverStarted'
  PROVE  TICWaits' /\ CountsOnce' /\ [Clock!Next]_(Clock!clockVars)
<1>1. TICWaits' /\ CountsOnce'
  BY DEF TICWaits, CountsOnce, DoneCounting
<1>2. QED
  BY <1>1, QuietStep

\* A step taken while the timer is started, which starts or resets nothing else.
LEMMA StartedStep ==
  ASSUME TICWaits, TimerStarted, UNCHANGED <<TimerStarted, opPc>>,
         ResetPTPLock \/ UNCHANGED lockVars
  PROVE  TICWaits' /\ CountsOnce' /\ [Clock!Next]_(Clock!clockVars)
<1>1. TICWaits'
  BY DEF TICWaits, NeverStarted, ResetPTPLock
<1>2. CountsOnce'
  BY DEF CountsOnce, ClockStarted
<1>3. QED
  BY <1>1, <1>2, QuietStep DEF ClockStarted

\* Every step keeps the two invariants and is a step of LockedClock.
LEMMA NextClock ==
  ASSUME TypeOK, TICWaits, CountsOnce, FewCpus, TIC_LOCK_HYSTERESIS # 1, [Next]_vars
  PROVE  TICWaits' /\ CountsOnce' /\ [Clock!Next]_(Clock!clockVars)
<1> DEFINE Goal == TICWaits' /\ CountsOnce' /\ [Clock!Next]_(Clock!clockVars)
<1> HIDE DEF Goal
<1>1. ASSUME NEW c \in Cpus, NEW m \in Masters, NEW d \in Domains, RecvAnnounce(c, m, d)
      PROVE  Goal
  <2>1. TimerStarted /\ UNCHANGED <<TimerStarted, opPc>> /\ (ResetPTPLock \/ UNCHANGED lockVars)
    BY <1>1, Zenon DEF RecvAnnounce, Receive
  <2>2. QED
    BY <2>1, StartedStep DEF Goal
<1>2. ASSUME NEW c \in Cpus, NEW m \in Masters, NEW s \in SeqIds,
             RecvSync(c, m, s) \/ \E v \in T1Values : RecvFollowUp(c, m, s, v)
      PROVE  Goal
  <2>1. TimerStarted /\ UNCHANGED <<TimerStarted, opPc>> /\ UNCHANGED lockVars
    BY <1>2, Zenon DEF RecvSync, RecvFollowUp, Receive
  <2>2. QED
    BY <2>1, StartedStep DEF Goal
<1>3. ASSUME NEW c \in Cpus, RxStep(c) PROVE Goal
  BY <1>3, T1Step, RxStepQuiet DEF Goal
<1>4. CASE TimerWatchDog
  <2>1. TimerStarted /\ UNCHANGED <<TimerStarted, opPc>> /\ (ResetPTPLock \/ UNCHANGED lockVars)
    BY <1>4, Zenon DEF TimerWatchDog
  <2>2. QED
    BY <2>1, StartedStep DEF Goal
<1>5. CASE TimerWatchDogSave \/ Tick \/ UNCHANGED vars
  <2>1. UNCHANGED <<lockVars, rx, TimerStarted, opPc>>
    BY <1>5 DEF TimerWatchDogSave, Tick
  <2>2. QED
    BY <2>1, KeepStep DEF Goal, ClockStarted, NeverStarted
<1>6. CASE StopAudioFrameTICTimer("stop_reset") \/ StopAudioFrameTICTimer("start_stop_reset")
  <2>1. /\ UNCHANGED <<lockVars, rx>> /\ opPc = "idle" /\ ~TimerStarted'
        /\ opPc' \in {"stop_reset", "start_stop_reset"}
    BY <1>6 DEF StopAudioFrameTICTimer
  <2>2. TICWaits' /\ CountsOnce'
    BY <2>1 DEF TICWaits, NeverStarted, CountsOnce, ClockStarted
  <2>3. GetLockStatus' = GetLockStatus
    BY <2>1, StatusFacts
  <2>4. [Clock!Next]_(Clock!clockVars)
    BY <2>1, <2>3 DEF Clock!Next, Clock!Start, Clock!clockVars
  <2>5. QED
    BY <2>2, <2>4 DEF Goal
<1>7. CASE StopReset
  <2>1. /\ ResetPTPLock /\ UNCHANGED <<TimerStarted, rx>>
        /\ opPc \in {"stop_reset", "start_stop_reset"} /\ opPc' \in {"idle", "start_set"}
    BY <1>7 DEF StopReset
  <2>2. TICWaits' /\ CountsOnce'
    BY <2>1, ResetCounts DEF TICWaits, ResetPTPLock
  <2>3. GetLockStatus' = "UNLOCKED"
    BY <2>1, StatusFacts
  <2>4. CASE TimerStarted
    BY <2>1, <2>2, <2>4, QuietStep DEF Goal, ClockStarted
  <2>5. CASE ~TimerStarted
    BY <2>1, <2>2, <2>3, <2>5 DEF Goal, Clock!Next, Clock!Stop, Clock!clockVars
  <2>6. QED
    BY <2>4, <2>5
<1>8. CASE StartSet
  <2>1. /\ UNCHANGED <<PTPLockCounter, TICLockCounter, rx>> /\ opPc = "start_set" /\ TimerStarted'
    BY <1>8 DEF StartSet
  <2>2. TICWaits' /\ CountsOnce'
    BY <2>1 DEF TICWaits, NeverStarted, CountsOnce, ClockStarted
  <2>3. GetLockStatus' = GetLockStatus
    BY <2>1, StatusFacts
  <2>4. [Clock!Next]_(Clock!clockVars)
    BY <2>1, <2>3 DEF Clock!Next, Clock!Start, Clock!clockVars
  <2>5. QED
    BY <2>2, <2>4 DEF Goal
<1>9. CASE StartReset
  <2>1. ResetPTPLock /\ UNCHANGED TimerStarted /\ opPc = "start_reset" /\ opPc' = "idle"
    BY <1>9 DEF StartReset
  <2>2. TICWaits' /\ CountsOnce'
    BY <2>1, ResetCounts DEF TICWaits, ResetPTPLock
  <2>3. QED
    BY <2>1, <2>2, QuietStep DEF Goal, ClockStarted
<1>10. CASE CountConfigChange
  <2>1. UNCHANGED <<lockVars, rx, TimerStarted>> /\ opPc = "config_count" /\ opPc' = "idle"
    BY <1>10 DEF CountConfigChange
  <2>2. QED
    BY <2>1, KeepStep DEF Goal, ClockStarted, NeverStarted
<1>11. ASSUME NEW config \in [ui8Domain : Domains, ui8DSCP : DSCPs], SetPTPConfig(config)
       PROVE  Goal
  <2>1. UNCHANGED <<lockVars, rx, TimerStarted>> /\ opPc = "idle" /\ opPc' = "config_count"
    BY <1>11 DEF SetPTPConfig
  <2>2. QED
    BY <2>1, KeepStep DEF Goal, ClockStarted, NeverStarted
<1>12. QED
  BY <1>1, <1>2, <1>3, <1>4, <1>5, <1>6, <1>7, <1>8, <1>9, <1>10, <1>11, NextCases
     DEF OpStep, Goal

\* With fewer receiving CPUs than the PTP hysteresis (4 in PTP.c), and a TIC hysteresis
\* of two at least, the PTP clock is the clock that IOControl builds on: it locks step by
\* step while it is started, a stop unlocks it, and the handlers still at work on the
\* other CPUs do not move the status of a stopped clock.
THEOREM ClockImplemented ==
  ASSUME FewCpus, TIC_LOCK_HYSTERESIS # 1
  PROVE  Spec => ImplementsClock
<1>1. Init => TICWaits /\ CountsOnce /\ Clock!Init
  BY CountedFacts, HysteresisAssumption
     DEF Init, TICWaits, NeverStarted, CountsOnce, ClockStarted, IdleRx, Clock!Init, GetLockStatus
<1>2. FewCpus /\ TIC_LOCK_HYSTERESIS # 1
  OBVIOUS
<1>3. TypeOK /\ (TICWaits /\ CountsOnce) /\ [Next]_vars
        => (TICWaits /\ CountsOnce)' /\ [Clock!Next]_(Clock!clockVars)
  BY <1>2, NextClock
<1>4. QED
  BY <1>1, <1>3, TypeCorrect, PTL DEF Spec, ImplementsClock, Clock!Spec
=============================================================================
