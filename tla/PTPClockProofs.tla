--------------------------- MODULE PTPClockProofs ---------------------------
(* Proofs about PTPClock: for any sets of CPUs, masters and domains, and any *)
(* hysteresis, sequence number and time-out values that the assumptions of   *)
(* PTPClock allow.                                                           *)
EXTENDS PTPClock, TLAPS

USE DEF lockVars, masterVars, stampVars, configVars, watchVars, vars

\* The constants of the type invariant, expanded once.
LEMMA ConstantFacts ==
  /\ 0 \in SeqIds /\ NoStamp \in Stamps
  /\ Evidence \in Nat /\ Evidence >= PTP_LOCK_HYSTERESIS
  /\ IdleRx \in [pc : RxLabels, src : Masters \cup {NoMaster}, dom : Domains, seq : SeqIds, t1 : T1Values \cup {NoT1}]
BY HysteresisAssumption, SeqAssumption, ConfigAssumption
   DEF NoStamp, Stamps, Evidence, IdleRx, RxLabels

\* Every step of a handler leaves rx well typed.
LEMMA RxType ==
  ASSUME TypeOK, NEW c \in Cpus, NEW l \in RxLabels, NEW m \in Masters,
         NEW d \in Domains, NEW s \in SeqIds, NEW v \in T1Values \cup {NoT1}
  PROVE  /\ Goto(c, l) => rx' \in [Cpus -> [pc : RxLabels, src : Masters \cup {NoMaster},
                                            dom : Domains, seq : SeqIds, t1 : T1Values \cup {NoT1}]]
         /\ Return(c) => rx' \in [Cpus -> [pc : RxLabels, src : Masters \cup {NoMaster},
                                           dom : Domains, seq : SeqIds, t1 : T1Values \cup {NoT1}]]
         /\ Receive(c, l, m, d, s, v) =>
              rx' \in [Cpus -> [pc : RxLabels, src : Masters \cup {NoMaster},
                                dom : Domains, seq : SeqIds, t1 : T1Values \cup {NoT1}]]
<1> DEFINE R == [pc : RxLabels, src : Masters \cup {NoMaster}, dom : Domains, seq : SeqIds, t1 : T1Values \cup {NoT1}]
<1>1. rx \in [Cpus -> R]
  BY DEF TypeOK
<1>2. [rx[c] EXCEPT !.pc = l] \in R
  BY <1>1
<1>3. IdleRx \in R
  BY ConstantFacts
<1>4. [pc |-> l, src |-> m, dom |-> d, seq |-> s, t1 |-> v] \in R
  OBVIOUS
<1>5. Goto(c, l) => rx' = [rx EXCEPT ![c] = [rx[c] EXCEPT !.pc = l]]
  BY DEF Goto
<1> HIDE DEF R
<1>6. QED
  BY <1>1, <1>2, <1>3, <1>4, <1>5 DEF Goto, Return, Receive, R

\* ResetPTPLock leaves the lock state well typed.
LEMMA ResetType ==
  ASSUME ResetPTPLock
  PROVE  /\ PTPLockCounter' \in 0 .. PTP_LOCK_HYSTERESIS
         /\ TICLockCounter' \in 0 .. TIC_LOCK_HYSTERESIS
         /\ t1Count' \in 0 .. Evidence /\ t1Sources' \subseteq Masters \cup {NoMaster}
         /\ oldRateT1' \in BOOLEAN /\ told' \in BOOLEAN
<1>1. PTPLockCounter' \in 0 .. PTP_LOCK_HYSTERESIS /\ TICLockCounter' \in 0 .. TIC_LOCK_HYSTERESIS
  BY HysteresisAssumption DEF ResetPTPLock
<1>2. t1Count' \in 0 .. Evidence
  BY ConstantFacts DEF ResetPTPLock
<1>3. t1Sources' \subseteq Masters \cup {NoMaster} /\ oldRateT1' \in BOOLEAN /\ told' \in BOOLEAN
  BY Zenon DEF ResetPTPLock
<1>4. QED
  BY <1>1, <1>2, <1>3


-----------------------------------------------------------------------------
(* Type correctness                                                        *)

\* A disjunction of the next-state relation, one action per case.
LEMMA NextCases ==
  ASSUME Next
  PROVE  \/ \E c \in Cpus, m \in Masters, d \in Domains : RecvAnnounce(c, m, d)
         \/ \E c \in Cpus, m \in Masters, s \in SeqIds : RecvSync(c, m, s)
         \/ \E c \in Cpus, m \in Masters, s \in SeqIds, v \in T1Values : RecvFollowUp(c, m, s, v)
         \/ \E c \in Cpus : RxStep(c)
         \/ TimerWatchDog \/ TimerWatchDogSave \/ Tick
         \/ StopAudioFrameTICTimer("stop_reset")
         \/ StopAudioFrameTICTimer("start_stop_reset")
         \/ OpStep
         \/ \E config \in [ui8Domain : Domains, ui8DSCP : DSCPs] : SetPTPConfig(config)
BY Zenon DEF Next

\* The handlers' actions are typed.
LEMMA RxStepType ==
  ASSUME TypeOK, NEW c \in Cpus, RxStep(c)
  PROVE  TypeOK'
<1> USE ConstantFacts, HysteresisAssumption, SeqAssumption, TimeAssumption
<1> DEFINE R == [pc : RxLabels, src : Masters \cup {NoMaster}, dom : Domains, seq : SeqIds, t1 : T1Values \cup {NoT1}]
<1>0. rx[c] \in R
  BY DEF TypeOK
<1>g. \A l \in RxLabels : Goto(c, l) => rx' \in [Cpus -> R]
  BY <1>0 DEF Goto, TypeOK
<1>r. Return(c) => rx' \in [Cpus -> R]
  BY <1>0 DEF Return, TypeOK
<1>t. \A l \in RxLabels, v \in T1Values \cup {NoT1} :
        GotoWith(c, l, v) => rx' \in [Cpus -> R]
  <2>1. TAKE l \in RxLabels, v \in T1Values \cup {NoT1}
  <2>2. [rx[c] EXCEPT !.pc = l, !.t1 = v] \in R
    BY <1>0
  <2>3. GotoWith(c, l, v) => rx' = [rx EXCEPT ![c] = [rx[c] EXCEPT !.pc = l, !.t1 = v]]
    BY DEF GotoWith, TypeOK
  <2>4. rx \in [Cpus -> R]
    BY DEF TypeOK
  <2> HIDE DEF R
  <2>5. QED
    BY <2>2, <2>3, <2>4
<1> HIDE DEF R
<1>1. CASE ResetPTPMaster(c)
  <2>1. AfterReset[rx[c].pc] \in RxLabels
    BY <1>1 DEF ResetPTPMaster, AfterReset, RxLabels
  <2>2. AnnounceAge' \in NoAge .. PTPMASTER_ANNOUNCE_TIMEOUT + 1
    BY <1>1 DEF ResetPTPMaster, NoAge
  <2>3. rx' \in [Cpus -> R]
    BY <1>1, <1>g, <2>1 DEF ResetPTPMaster
  <2>4. QED
    BY <1>1, <2>2, <2>3, Zenon DEF ResetPTPMaster, TypeOK, R
<1>2. CASE AnnounceDomain(c)
  <2>1. rx' \in [Cpus -> R]
    BY <1>2, <1>g DEF AnnounceDomain, RxLabels
  <2>2. UNCHANGED <<TimerStarted, configVars, masterVars, stampVars, watchVars, opPc>>
    BY <1>2, Zenon DEF AnnounceDomain
  <2>3. CASE ResetPTPLock
    BY <2>1, <2>2, <2>3, ResetType, Zenon DEF TypeOK, R, configVars, masterVars, stampVars, watchVars
  <2>4. CASE UNCHANGED lockVars
    BY <2>1, <2>2, <2>4, Zenon DEF TypeOK, R, configVars, masterVars, stampVars, watchVars, lockVars
  <2>5. QED
    BY <1>2, <2>3, <2>4, Zenon DEF AnnounceDomain
<1>3. CASE AnnounceElect(c)
  <2>1. rx' \in [Cpus -> R]
    BY <1>3, <1>g, <1>r DEF AnnounceElect, RxLabels
  <2>2. UNCHANGED <<TimerStarted, configVars, masterVars, stampVars, watchVars, opPc>>
    BY <1>3, Zenon DEF AnnounceElect
  <2>3. CASE ResetPTPLock
    BY <2>1, <2>2, <2>3, ResetType, Zenon DEF TypeOK, R, configVars, masterVars, stampVars, watchVars
  <2>4. CASE UNCHANGED lockVars
    BY <2>1, <2>2, <2>4, Zenon DEF TypeOK, R, configVars, masterVars, stampVars, watchVars, lockVars
  <2>5. QED
    BY <1>3, <2>3, <2>4, Zenon DEF AnnounceElect
<1>4. CASE AnnounceAssign(c)
  <2>1. rx' \in [Cpus -> R]
    BY <1>4, <1>g DEF AnnounceAssign, RxLabels
  <2>2. ClockIdentity' \in Masters \cup {NoMaster} /\ electedDomain' \in Domains
    BY <1>4, <1>0 DEF AnnounceAssign, R
  <2>3. QED
    BY <1>4, <2>1, <2>2, Zenon DEF AnnounceAssign, TypeOK, R
<1>5. CASE AnnounceSave(c)
  <2>1. AnnounceAge' \in NoAge .. PTPMASTER_ANNOUNCE_TIMEOUT + 1
    BY <1>5 DEF AnnounceSave, NoAge, TypeOK
  <2>2. QED
    BY <1>5, <1>r, <2>1, Zenon DEF AnnounceSave, TypeOK, R
<1>6. CASE SyncReset(c)
  <2>1. rx' \in [Cpus -> R]
    BY <1>6, <1>g DEF SyncReset, RxLabels
  <2>2. QED
    BY <1>6, <2>1, ResetType, Zenon DEF SyncReset, TypeOK, R
<1>7. CASE SyncT2(c)
  <2>1. rx' \in [Cpus -> R]
    <3>1. CASE Goto(c, "sync_end")
      BY <3>1, <1>g DEF RxLabels
    <3>2. ASSUME NEW v \in T1Values, GotoWith(c, "t1_of_sync", v)
          PROVE  rx' \in [Cpus -> R]
      BY <3>2, <1>0, <1>t DEF RxLabels
    <3>3. QED
      BY <1>7, <3>1, <3>2 DEF SyncT2
  <2>2. T2' \in Stamps
    BY <1>7, <1>0 DEF SyncT2, Stamp, Stamps, R
  <2>3. QED
    BY <1>7, <2>1, <2>2, Zenon DEF SyncT2, TypeOK, R
<1>8. CASE SyncEnd(c)
  <2>1. LastSyncSequenceId' \in SeqIds /\ told' \in BOOLEAN
    BY <1>8, <1>0 DEF SyncEnd, R
  <2>2. QED
    BY <1>8, <1>r, <2>1, Zenon DEF SyncEnd, TypeOK, R
<1>9. CASE ProcessT1(c)
  <2>1. rx' \in [Cpus -> R]
    BY <1>9, <1>g DEF ProcessT1, RxLabels
  <2>2. PTPLockCounter' \in 0 .. PTP_LOCK_HYSTERESIS /\ TICLockCounter' \in 0 .. TIC_LOCK_HYSTERESIS
    BY <1>9 DEF ProcessT1, CountT1, Decrement, TypeOK
  <2>3. t1Count' \in 0 .. Evidence
    BY <1>9 DEF ProcessT1, TypeOK
  <2>4. t1Sources' \subseteq Masters \cup {NoMaster}
    BY <1>9, <1>0 DEF ProcessT1, TypeOK, R
  <2>5. told' \in BOOLEAN
    BY <1>9, Zenon DEF ProcessT1, TypeOK
  <2>6. QED
    BY <1>9, <2>1, <2>2, <2>3, <2>4, <2>5, Zenon DEF ProcessT1, TypeOK, R
<1>10. CASE SaveT1(c)
  <2>1. rx' \in [Cpus -> R]
    <3>1. "sync_end" \in RxLabels /\ NoT1 \in T1Values \cup {NoT1}
      BY DEF RxLabels
    <3>2. QED
      BY <1>10, <3>1, <1>t, <1>r DEF SaveT1
  <2>2. T1' \in T1Values \cup {NoT1}
    BY <1>10, <1>0 DEF SaveT1, R
  <2>3. QED
    BY <1>10, <2>1, <2>2, Zenon DEF SaveT1, TypeOK, R
<1>11. QED
  BY <1>1, <1>2, <1>3, <1>4, <1>5, <1>6, <1>7, <1>8, <1>9, <1>10 DEF RxStep

\* The management thread's actions are typed.
LEMMA OpStepType ==
  ASSUME TypeOK, OpStep
  PROVE  TypeOK'
<1>1. CASE StopReset
  <2>1. opPc' \in {"idle", "start_set"}
    BY <1>1 DEF StopReset
  <2>2. QED
    BY <1>1, <2>1, ResetType, Zenon DEF StopReset, TypeOK
<1>2. CASE StartSet
  <2>1. oldRateT1' \in BOOLEAN
    BY <1>2, Zenon DEF StartSet
  <2>2. QED
    BY <1>2, <2>1, Zenon DEF StartSet, TypeOK
<1>3. CASE StartReset
  BY <1>3, ResetType, Zenon DEF StartReset, TypeOK
<1>4. CASE CountConfigChange
  <2>1. ConfigChanged' \in BOOLEAN
    BY <1>4, Zenon DEF CountConfigChange
  <2>2. QED
    BY <1>4, <2>1, Zenon DEF CountConfigChange, TypeOK
<1>5. QED
  BY <1>1, <1>2, <1>3, <1>4 DEF OpStep

\* Every reachable state is well typed.
THEOREM TypeCorrect == Spec => []TypeOK
<1>1. Init => TypeOK
  <2> SUFFICES ASSUME Init PROVE TypeOK
    OBVIOUS
  <2>1. /\ AnnounceAge \in NoAge .. PTPMASTER_ANNOUNCE_TIMEOUT + 1
        /\ PTPLockCounter \in 0 .. PTP_LOCK_HYSTERESIS
        /\ TICLockCounter \in 0 .. TIC_LOCK_HYSTERESIS
        /\ WatchDogAge \in 0 .. PTP_WATCHDOG_ELAPSE
        /\ t1Count \in 0 .. Evidence
    BY ConstantFacts, HysteresisAssumption, TimeAssumption DEF Init, NoAge
  <2>2. /\ PTPConfig \in [ui8Domain : Domains, ui8DSCP : DSCPs]
        /\ electedDomain \in Domains
        /\ LastSyncSequenceId \in SeqIds /\ WatchDogSeq \in SeqIds
        /\ T1 \in T1Values \cup {NoT1} /\ T2 \in Stamps
    BY ConstantFacts, ConfigAssumption DEF Init
  <2>3. rx \in [Cpus -> [pc : RxLabels, src : Masters \cup {NoMaster},
                         dom : Domains, seq : SeqIds, t1 : T1Values \cup {NoT1}]]
    BY ConstantFacts, Zenon DEF Init
  <2>4. QED
    BY <2>1, <2>2, <2>3, Zenon DEF Init, TypeOK
<1>2. TypeOK /\ [Next]_vars => TypeOK'
  <2> SUFFICES ASSUME TypeOK, [Next]_vars PROVE TypeOK'
    OBVIOUS
  <2> USE ConstantFacts, ConfigAssumption
  <2>1. ASSUME NEW c \in Cpus, NEW m \in Masters, NEW d \in Domains, RecvAnnounce(c, m, d)
        PROVE  TypeOK'
    <3>1. /\ ConfigChanged' \in BOOLEAN
          /\ ResetPTPLock \/ UNCHANGED lockVars
      BY <2>1, Zenon DEF RecvAnnounce, TypeOK
    <3>2. Receive(c, "ann_reset_config", m, d, 0, NoT1) \/ Receive(c, "ann_domain", m, d, 0, NoT1)
      BY <2>1 DEF RecvAnnounce
    <3>3. rx' \in [Cpus -> [pc : RxLabels, src : Masters \cup {NoMaster},
                            dom : Domains, seq : SeqIds, t1 : T1Values \cup {NoT1}]]
      <4>1. "ann_reset_config" \in RxLabels /\ "ann_domain" \in RxLabels
        BY DEF RxLabels
      <4>2. QED
        BY <3>2, <4>1, RxType
    <3>4. QED
      BY <2>1, <3>1, <3>3, ResetType, Zenon DEF RecvAnnounce, TypeOK
  <2>2. ASSUME NEW c \in Cpus, NEW m \in Masters, NEW s \in SeqIds,
               RecvSync(c, m, s) \/ \E v \in T1Values : RecvFollowUp(c, m, s, v)
        PROVE  TypeOK'
    <3>1. \E l \in RxLabels, v \in T1Values \cup {NoT1} : Receive(c, l, m, 0, s, v)
      BY <2>2 DEF RecvSync, RecvFollowUp, RxLabels
    <3>2. rx' \in [Cpus -> [pc : RxLabels, src : Masters \cup {NoMaster},
                            dom : Domains, seq : SeqIds, t1 : T1Values \cup {NoT1}]]
      BY <3>1, RxType
    <3>3. QED
      BY <2>2, <3>2, Zenon DEF RecvSync, RecvFollowUp, TypeOK
  <2>3. ASSUME NEW c \in Cpus, RxStep(c) PROVE TypeOK'
    BY <2>3, RxStepType
  <2>4. CASE TimerWatchDog
    <3>1. ResetPTPLock \/ UNCHANGED lockVars
      BY <2>4, Zenon DEF TimerWatchDog
    <3>2. QED
      BY <2>4, <3>1, ResetType, Zenon DEF TimerWatchDog, TypeOK
  <2>5. CASE TimerWatchDogSave
    <3>1. WatchDogAge' \in 0 .. PTP_WATCHDOG_ELAPSE
      BY <2>5, TimeAssumption DEF TimerWatchDogSave
    <3>2. QED
      BY <2>5, <3>1, Zenon DEF TimerWatchDogSave, TypeOK
  <2>6. CASE Tick
    <3>1. /\ AnnounceAge' \in NoAge .. PTPMASTER_ANNOUNCE_TIMEOUT + 1
          /\ WatchDogAge' \in 0 .. PTP_WATCHDOG_ELAPSE
      BY <2>6, TimeAssumption DEF Tick, Saturated, NoAge, TypeOK
    <3>2. QED
      BY <2>6, <3>1, Zenon DEF Tick, TypeOK
  <2>7. CASE \/ StopAudioFrameTICTimer("stop_reset")
             \/ StopAudioFrameTICTimer("start_stop_reset")
    BY <2>7, Zenon DEF StopAudioFrameTICTimer, TypeOK
  <2>8. CASE OpStep
    BY <2>8, OpStepType
  <2>9. ASSUME NEW config \in [ui8Domain : Domains, ui8DSCP : DSCPs], SetPTPConfig(config)
        PROVE  TypeOK'
    BY <2>9, Zenon DEF SetPTPConfig, TypeOK
  <2>10. CASE UNCHANGED vars
    BY <2>10, Zenon DEF TypeOK
  <2>11. QED
    BY <2>1, <2>2, <2>3, <2>4, <2>5, <2>6, <2>7, <2>8, <2>9, <2>10, NextCases
<1>3. QED
  BY <1>1, <1>2, PTL DEF Spec

-----------------------------------------------------------------------------
(* The lock needs evidence                                                 *)

\* The second disjunct of EvidenceInv, by itself.
Counted ==
  /\ PTPLockCounter + t1Count >= PTP_LOCK_HYSTERESIS
  /\ \/ TICLockCounter = TIC_LOCK_HYSTERESIS
     \/ TICLockCounter + t1Count >= Evidence

\* ResetPTPLock starts the counting anew.
LEMMA ResetCounted == ASSUME ResetPTPLock PROVE Counted'
BY HysteresisAssumption DEF ResetPTPLock, Counted

\* A step of a handler that has started.
LEMMA RxStepEvidence ==
  ASSUME TypeOK, EvidenceInv, NEW c \in Cpus, RxStep(c)
  PROVE  EvidenceInv'
<1>1. rx[c].pc # "idle"
  BY DEF RxStep, ResetPTPMaster, AfterReset, AnnounceDomain, AnnounceElect, AnnounceAssign,
         AnnounceSave, SyncReset, SyncT2, SyncEnd, ProcessT1, SaveT1
<1>2. Counted
  BY <1>1 DEF EvidenceInv, NeverStarted, Counted
<1>3. CASE ProcessT1(c)
  <2>1. PICK inRange \in BOOLEAN : CountT1(inRange)
    BY <1>3 DEF ProcessT1
  <2>2. /\ PTPLockCounter \in 0 .. PTP_LOCK_HYSTERESIS /\ TICLockCounter \in 0 .. TIC_LOCK_HYSTERESIS
        /\ t1Count \in 0 .. Evidence
    BY DEF TypeOK
  <2>3. t1Count' = IF t1Count < Evidence THEN t1Count + 1 ELSE t1Count
    BY <1>3 DEF ProcessT1
  <2>4. PTPLockCounter' = (IF PTPLockCounter > 0 THEN PTPLockCounter - 1 ELSE 0)
    BY <2>1 DEF CountT1, Decrement
  <2>5. \/ TICLockCounter' = TICLockCounter
        \/ /\ PTPLockCounter' = 0
           /\ TICLockCounter' = (IF TICLockCounter > 0 THEN TICLockCounter - 1 ELSE 0)
    BY <2>1 DEF CountT1, Decrement
  <2>6. Counted'
    BY <1>2, <2>2, <2>3, <2>4, <2>5, HysteresisAssumption DEF Counted, Evidence
  <2>7. QED
    BY <2>6 DEF EvidenceInv, Counted
<1>4. CASE ~ProcessT1(c)
  <2>1. ResetPTPLock \/ UNCHANGED <<PTPLockCounter, TICLockCounter, t1Count>>
    BY <1>4 DEF RxStep, ResetPTPMaster, AnnounceDomain, AnnounceElect, AnnounceAssign,
                AnnounceSave, SyncReset, SyncT2, SyncEnd, SaveT1
  <2>2. Counted'
    <3>1. CASE ResetPTPLock
      BY <3>1, ResetCounted
    <3>2. CASE UNCHANGED <<PTPLockCounter, TICLockCounter, t1Count>>
      BY <3>2, <1>2 DEF Counted
    <3>3. QED
      BY <2>1, <3>1, <3>2
  <2>3. QED
    BY <2>2 DEF EvidenceInv, Counted
<1>5. QED
  BY <1>3, <1>4

\* Any step.
LEMMA NextEvidence ==
  ASSUME TypeOK, EvidenceInv, [Next]_vars
  PROVE  EvidenceInv'
<1>1. CASE ResetPTPLock
  BY <1>1, ResetCounted DEF EvidenceInv, Counted
<1>2. CASE UNCHANGED <<PTPLockCounter, TICLockCounter, t1Count>> /\ Counted
  BY <1>2 DEF EvidenceInv, Counted
<1>3. ASSUME NEW c \in Cpus, NEW m \in Masters, NEW d \in Domains, RecvAnnounce(c, m, d)
      PROVE  EvidenceInv'
  <2>1. TimerStarted
    BY <1>3 DEF RecvAnnounce, Receive
  <2>2. Counted
    BY <2>1 DEF EvidenceInv, NeverStarted, Counted
  <2>3. ResetPTPLock \/ UNCHANGED lockVars
    BY <1>3, Zenon DEF RecvAnnounce
  <2>4. QED
    BY <1>1, <1>2, <2>2, <2>3
<1>4. ASSUME NEW c \in Cpus, NEW m \in Masters, NEW s \in SeqIds,
             RecvSync(c, m, s) \/ \E v \in T1Values : RecvFollowUp(c, m, s, v)
      PROVE  EvidenceInv'
  <2>1. TimerStarted
    BY <1>4 DEF RecvSync, RecvFollowUp, Receive
  <2>2. Counted
    BY <2>1 DEF EvidenceInv, NeverStarted, Counted
  <2>3. UNCHANGED lockVars
    BY <1>4 DEF RecvSync, RecvFollowUp
  <2>4. QED
    BY <1>2, <2>2, <2>3
<1>5. ASSUME NEW c \in Cpus, RxStep(c) PROVE EvidenceInv'
  BY <1>5, RxStepEvidence
<1>6. CASE TimerWatchDog
  <2>1. TimerStarted
    BY <1>6 DEF TimerWatchDog
  <2>2. Counted
    BY <2>1 DEF EvidenceInv, NeverStarted, Counted
  <2>3. ResetPTPLock \/ UNCHANGED lockVars
    BY <1>6, Zenon DEF TimerWatchDog
  <2>4. QED
    BY <1>1, <1>2, <2>2, <2>3
<1>7. ASSUME UNCHANGED <<lockVars, rx>>, TimerStarted' => TimerStarted,
             opPc \in {"idle", "stop_reset", "start_stop_reset", "config_count"} =>
               opPc' \in {"idle", "stop_reset", "start_stop_reset", "config_count"}
      PROVE  EvidenceInv'
  <2>1. CASE Counted
    BY <1>2, <1>7, <2>1
  <2>2. CASE NeverStarted
    <3>1. NeverStarted'
      BY <1>7, <2>2 DEF NeverStarted
    <3>2. QED
      BY <3>1 DEF EvidenceInv
  <2>3. QED
    BY <2>1, <2>2 DEF EvidenceInv, Counted
<1>8. CASE TimerWatchDogSave \/ Tick
  <2>1. UNCHANGED <<lockVars, rx, TimerStarted, opPc>>
    BY <1>8 DEF TimerWatchDogSave, Tick
  <2>2. QED
    BY <1>7, <2>1
<1>9. CASE StopAudioFrameTICTimer("stop_reset") \/ StopAudioFrameTICTimer("start_stop_reset")
  <2>1. UNCHANGED <<lockVars, rx>> /\ ~TimerStarted' /\ opPc' \in {"stop_reset", "start_stop_reset"}
    BY <1>9 DEF StopAudioFrameTICTimer
  <2>2. QED
    BY <1>7, <2>1
<1>10. CASE OpStep
  <2>1. CASE StopReset \/ StartReset
    BY <1>1, <2>1 DEF StopReset, StartReset
  <2>2. CASE StartSet
    <3>1. Counted
      BY <2>2 DEF StartSet, EvidenceInv, NeverStarted, Counted
    <3>2. QED
      BY <1>2, <2>2, <3>1 DEF StartSet
  <2>3. CASE CountConfigChange
    <3>1. UNCHANGED <<lockVars, rx, TimerStarted>> /\ opPc' = "idle"
      BY <2>3 DEF CountConfigChange
    <3>2. QED
      BY <1>7, <3>1
  <2>4. QED
    BY <1>10, <2>1, <2>2, <2>3 DEF OpStep
<1>11. ASSUME NEW config \in [ui8Domain : Domains, ui8DSCP : DSCPs], SetPTPConfig(config)
       PROVE  EvidenceInv'
  <2>1. UNCHANGED <<lockVars, rx, TimerStarted>> /\ opPc' = "config_count"
    BY <1>11 DEF SetPTPConfig
  <2>2. QED
    BY <1>7, <2>1
<1>12. CASE UNCHANGED vars
  BY <1>7, <1>12
<1>13. QED
  BY <1>3, <1>4, <1>5, <1>6, <1>8, <1>9, <1>10, <1>11, <1>12, NextCases

\* GetLockStatus never says LOCKED on less evidence than the two hystereses ask
\* for, however many CPUs receive packets.
THEOREM LockedOnEvidence == Spec => []LockNeedsEvidence
<1>1. Init => EvidenceInv
  BY DEF Init, EvidenceInv, NeverStarted, IdleRx
<1>2. TypeOK /\ EvidenceInv => LockNeedsEvidence
  BY HysteresisAssumption, ConstantFacts
     DEF EvidenceInv, NeverStarted, LockNeedsEvidence, GetLockStatus, TypeOK
<1>3. QED
  BY <1>1, <1>2, TypeCorrect, NextEvidence, PTL DEF Spec

\* No time stamp of a former rate or frame size survives StartAudioFrameTICTimer.
THEOREM NoFormerRate == Spec => []NoT1OfFormerRate
<1> DEFINE Inv == oldRateT1 => opPc = "start_reset"
<1>1. Init => Inv
  BY DEF Init
<1>2. Inv /\ [Next]_vars => Inv'
  <2> SUFFICES ASSUME Inv, [Next]_vars PROVE Inv'
    OBVIOUS
  <2>1. \/ oldRateT1' = FALSE
        \/ oldRateT1' = oldRateT1 /\ (opPc = "start_reset" => opPc' = "start_reset")
        \/ opPc' = "start_reset"
    <3>1. ASSUME NEW c \in Cpus, NEW m \in Masters, NEW d \in Domains, RecvAnnounce(c, m, d)
          PROVE  opPc' = opPc /\ oldRateT1' \in {FALSE, oldRateT1}
      BY <3>1, Zenon DEF RecvAnnounce, ResetPTPLock
    <3>2. ASSUME NEW c \in Cpus, NEW m \in Masters, NEW s \in SeqIds,
                 RecvSync(c, m, s) \/ \E v \in T1Values : RecvFollowUp(c, m, s, v)
          PROVE  opPc' = opPc /\ oldRateT1' \in {FALSE, oldRateT1}
      BY <3>2, Zenon DEF RecvSync, RecvFollowUp
    <3>3. ASSUME NEW c \in Cpus, RxStep(c)
          PROVE  opPc' = opPc /\ oldRateT1' \in {FALSE, oldRateT1}
      BY <3>3, Zenon
         DEF RxStep, ResetPTPMaster, AnnounceDomain, AnnounceElect, AnnounceAssign,
             AnnounceSave, SyncReset, SyncT2, SyncEnd, ProcessT1, SaveT1, ResetPTPLock
    <3>4. CASE TimerWatchDog \/ TimerWatchDogSave \/ Tick \/ UNCHANGED vars
      BY <3>4, Zenon DEF TimerWatchDog, TimerWatchDogSave, Tick, ResetPTPLock
    <3>5. CASE StopAudioFrameTICTimer("stop_reset") \/ StopAudioFrameTICTimer("start_stop_reset")
      BY <3>5 DEF StopAudioFrameTICTimer
    <3>6. CASE OpStep
      BY <3>6 DEF OpStep, StopReset, StartSet, StartReset, CountConfigChange, ResetPTPLock
    <3>7. ASSUME NEW config \in [ui8Domain : Domains, ui8DSCP : DSCPs], SetPTPConfig(config)
          PROVE  opPc # "start_reset" /\ oldRateT1' = oldRateT1
      BY <3>7 DEF SetPTPConfig
    <3>8. QED
      BY <3>1, <3>2, <3>3, <3>4, <3>5, <3>6, <3>7, NextCases
  <2>2. QED
    BY <2>1
<1>3. Inv => NoT1OfFormerRate
  BY DEF NoT1OfFormerRate
<1>4. QED
  BY <1>1, <1>2, <1>3, PTL DEF Spec

-----------------------------------------------------------------------------
(* Handlers that do not overlap: no time stamp of another master, none with *)
(* a wrong T2                                                               *)

\* What a step of the handler leaves in rx.
LEMMA RxValues ==
  ASSUME TypeOK, NEW c \in Cpus
  PROVE  /\ \A l : Goto(c, l) => /\ rx'[c].pc = l /\ rx'[c].src = rx[c].src
                                 /\ rx'[c].dom = rx[c].dom /\ rx'[c].seq = rx[c].seq
         /\ Return(c) => rx'[c].pc = "idle"
         /\ \A l, m, d, s, v : Receive(c, l, m, d, s, v) =>
              rx'[c].pc = l /\ rx'[c].src = m /\ rx'[c].dom = d /\ rx'[c].seq = s
         /\ \A l, v : GotoWith(c, l, v) =>
              rx'[c].pc = l /\ rx'[c].src = rx[c].src /\ rx'[c].dom = rx[c].dom /\ rx'[c].seq = rx[c].seq
BY DEF TypeOK, Goto, GotoWith, Return, Receive, IdleRx

\* The other handlers stay where they are.
LEMMA RxOthers ==
  ASSUME TypeOK, NEW c \in Cpus, NEW d \in Cpus, c # d
  PROVE  /\ \A l : Goto(c, l) => rx'[d] = rx[d]
         /\ Return(c) => rx'[d] = rx[d]
         /\ \A l, m, e, s, v : Receive(c, l, m, e, s, v) => rx'[d] = rx[d]
         /\ \A l, v : GotoWith(c, l, v) => rx'[d] = rx[d]
BY DEF TypeOK, Goto, GotoWith, Return, Receive

\* A step of the handler of CPU c.
Handler(c) ==
  \/ RxStep(c)
  \/ \E m \in Masters, d \in Domains : RecvAnnounce(c, m, d)
  \/ \E m \in Masters, s \in SeqIds : RecvSync(c, m, s) \/ \E v \in T1Values : RecvFollowUp(c, m, s, v)

LEMMA HandlerOthers ==
  ASSUME TypeOK, NEW c \in Cpus, NEW d \in Cpus, c # d, Handler(c)
  PROVE  rx'[d] = rx[d]
<1>1. CASE RxStep(c)
  BY <1>1, RxOthers
     DEF RxStep, ResetPTPMaster, AnnounceDomain, AnnounceElect, AnnounceAssign, AnnounceSave,
         SyncReset, SyncT2, SyncEnd, ProcessT1, SaveT1
<1>2. ASSUME NEW m \in Masters, NEW e \in Domains, RecvAnnounce(c, m, e)
      PROVE  rx'[d] = rx[d]
  BY <1>2, RxOthers DEF RecvAnnounce
<1>3. ASSUME NEW m \in Masters, NEW s \in SeqIds,
             RecvSync(c, m, s) \/ \E v \in T1Values : RecvFollowUp(c, m, s, v)
      PROVE  rx'[d] = rx[d]
  BY <1>3, RxOthers DEF RecvSync, RecvFollowUp
<1>4. QED
  BY <1>1, <1>2, <1>3 DEF Handler

\* The steps that are no handler's leave rx, the stamps and the master alone; what
\* is counted is reset or kept.
LEMMA OtherSteps ==
  ASSUME [Next]_vars, ~\E c \in Cpus : Handler(c)
  PROVE  /\ UNCHANGED <<rx, stampVars, ClockIdentity>>
         /\ ResetPTPLock \/ UNCHANGED <<PTPLockCounter, t1Sources, told>>
<1>1. CASE TimerWatchDog \/ TimerWatchDogSave \/ Tick \/ UNCHANGED vars
  BY <1>1, Zenon DEF TimerWatchDog, TimerWatchDogSave, Tick
<1>2. CASE StopAudioFrameTICTimer("stop_reset") \/ StopAudioFrameTICTimer("start_stop_reset")
  BY <1>2, Zenon DEF StopAudioFrameTICTimer
<1>3. CASE OpStep
  BY <1>3, Zenon DEF OpStep, StopReset, StartSet, StartReset, CountConfigChange
<1>4. ASSUME NEW config \in [ui8Domain : Domains, ui8DSCP : DSCPs], SetPTPConfig(config)
      PROVE  UNCHANGED <<rx, stampVars, ClockIdentity, lockVars>>
  BY <1>4, Zenon DEF SetPTPConfig
<1>5. QED
  BY <1>1, <1>2, <1>3, <1>4, NextCases, Zenon DEF Handler

\* What the steps of a handler do to the master and to what is counted.
LEMMA HandlerElection ==
  ASSUME TypeOK, NEW c \in Cpus, Handler(c)
  PROVE  \/ /\ UNCHANGED ClockIdentity
            /\ ResetPTPLock \/ UNCHANGED <<PTPLockCounter, t1Sources>>
            /\ InPacket(c)' => (InPacket(c) /\ rx'[c].src = rx[c].src) \/ rx'[c].src = ClockIdentity
            /\ Electing(c)' => ResetPTPLock
         \/ /\ Electing(c) /\ ~InPacket(c)'
            /\ UNCHANGED <<PTPLockCounter, t1Sources>>
         \/ /\ UNCHANGED ClockIdentity
            /\ InPacket(c) /\ InPacket(c)' /\ rx'[c].src = rx[c].src
            /\ t1Sources' = t1Sources \cup {rx[c].src}
<1> USE DEF InPacket, Electing, PacketLabels, ElectionLabels
<1>1. CASE ResetPTPMaster(c)
  <2>1. rx[c].pc \in DOMAIN AfterReset /\ rx'[c].pc = AfterReset[rx[c].pc] /\ UNCHANGED lockVars
    BY <1>1, RxValues DEF ResetPTPMaster
  <2>2. QED
    BY <2>1 DEF AfterReset
<1>2. CASE AnnounceAssign(c)
  <2>1. rx[c].pc = "ann_assign" /\ rx'[c].pc = "ann_save" /\ UNCHANGED lockVars
    BY <1>2, RxValues DEF AnnounceAssign
  <2>2. QED
    BY <2>1
<1>3. CASE AnnounceDomain(c) \/ AnnounceElect(c) \/ AnnounceSave(c)
  <2>1. UNCHANGED ClockIdentity /\ (ResetPTPLock \/ UNCHANGED lockVars)
    BY <1>3, Zenon DEF AnnounceDomain, AnnounceElect, AnnounceSave
  <2>2. \/ rx'[c].pc \in {"ann_reset_domain", "ann_reset_elect"} /\ ResetPTPLock
        \/ rx'[c].pc \in {"ann_elect", "ann_save", "idle"}
    BY <1>3, RxValues DEF AnnounceDomain, AnnounceElect, AnnounceSave
  <2>3. QED
    BY <2>1, <2>2
<1>4. CASE SyncReset(c) \/ SyncT2(c) \/ SyncEnd(c) \/ SaveT1(c)
  <2>1. UNCHANGED ClockIdentity /\ (ResetPTPLock \/ UNCHANGED <<PTPLockCounter, t1Sources>>)
    BY <1>4, Zenon DEF SyncReset, SyncT2, SyncEnd, SaveT1
  <2>2. /\ rx[c].pc \in {"sync_gap", "sync_lock", "sync_end", "t1_save_sync", "t1_save_followup"}
        /\ \/ rx'[c].pc \in {"sync_end", "t1_of_sync"} /\ rx'[c].src = rx[c].src
           \/ rx'[c].pc = "idle"
    BY <1>4, RxValues DEF SyncReset, SyncT2, SyncEnd, SaveT1
  <2>3. QED
    BY <2>1, <2>2
<1>5. CASE ProcessT1(c)
  <2>1. /\ rx[c].pc \in {"t1_of_sync", "t1_of_followup"}
        /\ rx'[c].pc \in {"t1_save_sync", "t1_save_followup"} /\ rx'[c].src = rx[c].src
        /\ UNCHANGED ClockIdentity /\ t1Sources' = t1Sources \cup {rx[c].src}
    BY <1>5, RxValues DEF ProcessT1
  <2>2. QED
    BY <2>1
<1>6. ASSUME NEW m \in Masters, NEW d \in Domains, RecvAnnounce(c, m, d)
      PROVE  /\ UNCHANGED ClockIdentity
             /\ \/ rx'[c].pc = "ann_reset_config" /\ ResetPTPLock
                \/ rx'[c].pc = "ann_domain" /\ UNCHANGED lockVars
  <2>1. \/ Receive(c, "ann_reset_config", m, d, 0, NoT1) /\ ResetPTPLock
        \/ Receive(c, "ann_domain", m, d, 0, NoT1) /\ UNCHANGED lockVars
    BY <1>6, Zenon DEF RecvAnnounce
  <2>2. UNCHANGED ClockIdentity
    BY <1>6, Zenon DEF RecvAnnounce
  <2>3. QED
    BY <2>1, <2>2, RxValues
<1>7. ASSUME NEW m \in Masters, NEW s \in SeqIds,
             RecvSync(c, m, s) \/ \E v \in T1Values : RecvFollowUp(c, m, s, v)
      PROVE  /\ UNCHANGED <<ClockIdentity, lockVars>> /\ rx'[c].src = ClockIdentity
             /\ rx'[c].pc \in {"sync_gap", "sync_lock", "t1_of_followup"}
  <2>1. UNCHANGED <<ClockIdentity, lockVars>> /\ m = ClockIdentity
    BY <1>7, Zenon DEF RecvSync, RecvFollowUp, FromElected
  <2>2. \E l \in {"sync_gap", "sync_lock", "t1_of_followup"}, v \in T1Values \cup {NoT1} :
          Receive(c, l, m, 0, s, v)
    BY <1>7 DEF RecvSync, RecvFollowUp
  <2>3. QED
    BY <2>1, <2>2, RxValues
<1>8. QED
  BY <1>1, <1>2, <1>3, <1>4, <1>5, <1>6, <1>7 DEF Handler, RxStep

\* Any step, when no election overlaps the handling of a Sync or Follow_Up.
LEMMA NextElection ==
  ASSUME TypeOK, ElectionApart, ElectionInv, [Next]_vars
  PROVE  ElectionInv'
<1>1. CASE ~\E c \in Cpus : Handler(c)
  <2>1. /\ UNCHANGED <<rx, ClockIdentity>>
        /\ ResetPTPLock \/ UNCHANGED <<PTPLockCounter, t1Sources>>
    BY <1>1, OtherSteps
  <2>2. \/ t1Sources' = {} /\ PTPLockCounter' = PTP_LOCK_HYSTERESIS
        \/ UNCHANGED <<PTPLockCounter, t1Sources>>
    BY <2>1 DEF ResetPTPLock
  <2>3. QED
    BY <2>1, <2>2 DEF ElectionInv, T1OfElectedOnly, InPacket, Electing
<1>2. ASSUME NEW c \in Cpus, Handler(c) PROVE ElectionInv'
  <2>0. \A d \in Cpus : d # c => rx'[d] = rx[d]
    BY <1>2, HandlerOthers
  <2>1. CASE /\ UNCHANGED ClockIdentity
             /\ ResetPTPLock \/ UNCHANGED <<PTPLockCounter, t1Sources>>
             /\ InPacket(c)' => (InPacket(c) /\ rx'[c].src = rx[c].src) \/ rx'[c].src = ClockIdentity
             /\ Electing(c)' => ResetPTPLock
    <3>1. \/ t1Sources' = {} /\ PTPLockCounter' = PTP_LOCK_HYSTERESIS
          \/ UNCHANGED <<PTPLockCounter, t1Sources>> /\ ~Electing(c)'
      <4>1. ResetPTPLock => t1Sources' = {} /\ PTPLockCounter' = PTP_LOCK_HYSTERESIS
        BY DEF ResetPTPLock
      <4>2. QED
        BY <2>1, <4>1, Zenon
    <3>2. \A d \in Cpus : InPacket(d)' => rx'[d].src = ClockIdentity
      BY <2>0, <2>1 DEF ElectionInv, InPacket
    <3>3. \A d \in Cpus : Electing(d)' => t1Sources' = {} /\ PTPLockCounter' = PTP_LOCK_HYSTERESIS
      BY <2>0, <3>1 DEF ElectionInv, Electing
    <3>4. T1OfElectedOnly'
      BY <2>1, <3>1 DEF ElectionInv, T1OfElectedOnly
    <3>5. QED
      BY <2>1, <3>2, <3>3, <3>4 DEF ElectionInv
  <2>2. CASE Electing(c) /\ ~InPacket(c)' /\ UNCHANGED <<PTPLockCounter, t1Sources>>
    <3>1. t1Sources = {} /\ PTPLockCounter = PTP_LOCK_HYSTERESIS
      BY <2>2 DEF ElectionInv
    <3>2. \A d \in Cpus : ~InPacket(d)'
      BY <2>0, <2>2 DEF ElectionApart, InPacket
    <3>3. QED
      BY <2>2, <3>1, <3>2 DEF ElectionInv, T1OfElectedOnly
  <2>3. CASE /\ UNCHANGED ClockIdentity
             /\ InPacket(c) /\ InPacket(c)' /\ rx'[c].src = rx[c].src
             /\ t1Sources' = t1Sources \cup {rx[c].src}
    <3>1. \A d \in Cpus : ~Electing(d)'
      BY <2>0, <2>3 DEF ElectionApart, Electing, InPacket, ElectionLabels, PacketLabels
    <3>2. \A d \in Cpus : InPacket(d)' => rx'[d].src = ClockIdentity
      BY <2>0, <2>3 DEF ElectionInv, InPacket
    <3>3. QED
      BY <2>3, <3>1, <3>2 DEF ElectionInv, T1OfElectedOnly
  <2>4. QED
    BY <1>2, <2>1, <2>2, <2>3, HandlerElection
<1>3. QED
  BY <1>1, <1>2

\* The initial states.
LEMMA InitPair == Init => ElectionInv /\ PairInv
BY DEF Init, ElectionInv, PairInv, T1OfElectedOnly, Paired, IdleRx, PacketLabels, ElectionLabels,
       InPacket, Electing

\* However many CPUs receive packets, the lock counts time stamps of the elected
\* master only as long as no CPU elects a master while another handles a Sync or
\* Follow_Up.  (The run ptp_election shows what happens when one does.)
THEOREM OneMasterPerLock == Spec /\ []ElectionApart => []T1OfElectedOnly
<1>1. ElectionInv => T1OfElectedOnly
  BY DEF ElectionInv
<1>2. TypeOK /\ ElectionApart /\ ElectionInv /\ [Next]_vars => ElectionInv'
  BY NextElection
<1>3. Init => ElectionInv
  BY InitPair
<1>4. QED
  BY <1>1, <1>2, <1>3, TypeCorrect, PTL DEF Spec

\* With one receiving CPU no election overlaps another handler.
LEMMA SingleApart == ASSUME SingleCpu PROVE PacketsApart
BY DEF SingleCpu, PacketsApart, ElectionApart, Electing, InPacket, ElectionLabels, PacketLabels

\* A step of a handler that is neither in a packet nor electing.
LEMMA QuietHandler ==
  ASSUME TypeOK, NEW c \in Cpus, Handler(c), ~InPacket(c), ~InPacket(c)', ~Electing(c)
  PROVE  /\ UNCHANGED <<ClockIdentity, T2, LastSyncSequenceId>>
         /\ PTPLockCounter' = PTP_LOCK_HYSTERESIS \/ UNCHANGED <<PTPLockCounter, told>>
<1> USE DEF InPacket, Electing, PacketLabels, ElectionLabels
<1>1. CASE AnnounceDomain(c) \/ AnnounceElect(c) \/ AnnounceSave(c)
  BY <1>1, Zenon DEF AnnounceDomain, AnnounceElect, AnnounceSave, ResetPTPLock
<1>2. ASSUME NEW m \in Masters, NEW d \in Domains, RecvAnnounce(c, m, d)
      PROVE  UNCHANGED <<ClockIdentity, stampVars>> /\ (ResetPTPLock \/ UNCHANGED lockVars)
  BY <1>2, Zenon DEF RecvAnnounce
<1>3. ASSUME NEW m \in Masters, NEW s \in SeqIds,
             RecvSync(c, m, s) \/ \E v \in T1Values : RecvFollowUp(c, m, s, v)
      PROVE  FALSE
  <2>1. \E l \in {"sync_gap", "sync_lock", "t1_of_followup"}, v \in T1Values \cup {NoT1} :
          Receive(c, l, m, 0, s, v)
    BY <1>3 DEF RecvSync, RecvFollowUp
  <2>2. QED
    BY <2>1, RxValues
<1>4. ~(ResetPTPMaster(c) \/ AnnounceAssign(c) \/ SyncReset(c) \/ SyncT2(c) \/ SyncEnd(c)
        \/ ProcessT1(c) \/ SaveT1(c))
  BY DEF ResetPTPMaster, AfterReset, AnnounceAssign, SyncReset, SyncT2, SyncEnd, ProcessT1, SaveT1
<1>5. QED
  BY <1>1, <1>2, <1>3, <1>4 DEF Handler, RxStep, ResetPTPLock

\* What PairInv says of one handler.
PairOf(c) ==
  /\ rx[c].pc \in {"t1_of_sync", "t1_save_sync"} => T2 = Stamp(c)
  /\ rx[c].pc = "sync_end" => T2 = Stamp(c) \/ PTPLockCounter = PTP_LOCK_HYSTERESIS
  /\ rx[c].pc \in {"t1_of_followup", "t1_save_followup"} =>
       rx[c].seq = LastSyncSequenceId /\ Paired

\* A handler that is, or comes to be, the only one in a packet.
LEMMA PacketStepPair ==
  ASSUME TypeOK, ElectionInv, PairInv, NEW c \in Cpus, Handler(c),
         \A d \in Cpus : d # c => ~InPacket(d), InPacket(c) \/ InPacket(c)'
  PROVE  PairOf(c)' /\ (~InPacket(c)' => Paired')
<1> USE DEF PairInv, PairOf, Stamp, InPacket, PacketLabels
<1>1. CASE ResetPTPMaster(c) \/ AnnounceDomain(c) \/ AnnounceElect(c) \/ AnnounceAssign(c) \/ AnnounceSave(c)
  <2>1. rx[c].pc \in {"ann_reset_config", "ann_reset_domain", "ann_reset_elect", "ann_domain",
                      "ann_elect", "ann_assign", "ann_save"}
    BY <1>1 DEF ResetPTPMaster, AfterReset, AnnounceDomain, AnnounceElect, AnnounceAssign, AnnounceSave
  <2>2. rx'[c].pc \in {"ann_domain", "ann_elect", "ann_assign", "ann_reset_domain",
                       "ann_reset_elect", "ann_save", "idle"}
    BY <1>1, RxValues DEF ResetPTPMaster, AfterReset, AnnounceDomain, AnnounceElect, AnnounceAssign, AnnounceSave
  <2>3. QED
    BY <2>1, <2>2
<1>2. CASE SyncReset(c)
  <2>1. /\ rx'[c].pc = "sync_end" /\ PTPLockCounter' = PTP_LOCK_HYSTERESIS
    BY <1>2, RxValues DEF SyncReset, ResetPTPLock
  <2>2. QED
    BY <2>1
<1>3. CASE SyncT2(c)
  <2>1. /\ rx'[c].pc \in {"sync_end", "t1_of_sync"}
        /\ rx'[c].src = rx[c].src /\ rx'[c].seq = rx[c].seq /\ T2' = Stamp(c)
    BY <1>3, RxValues DEF SyncT2
  <2>2. QED
    BY <2>1
<1>4. CASE SyncEnd(c)
  <2>1. /\ rx'[c].pc = "idle" /\ rx[c].pc = "sync_end" /\ LastSyncSequenceId' = rx[c].seq
        /\ UNCHANGED <<PTPLockCounter, ClockIdentity, T2>>
    BY <1>4, RxValues DEF SyncEnd
  <2>2. rx[c].src = ClockIdentity
    BY <2>1 DEF ElectionInv
  <2>3. QED
    BY <2>1, <2>2 DEF Paired
<1>5. CASE ProcessT1(c)
  <2>1. /\ \/ rx[c].pc = "t1_of_sync" /\ rx'[c].pc = "t1_save_sync"
           \/ rx[c].pc = "t1_of_followup" /\ rx'[c].pc = "t1_save_followup" /\ told'
        /\ rx'[c].src = rx[c].src /\ rx'[c].seq = rx[c].seq /\ UNCHANGED <<LastSyncSequenceId, T2>>
    BY <1>5, RxValues DEF ProcessT1
  <2>2. QED
    BY <2>1 DEF Paired
<1>6. CASE SaveT1(c)
  <2>1. /\ \/ rx[c].pc = "t1_save_sync" /\ rx'[c].pc = "sync_end"
              /\ rx'[c].src = rx[c].src /\ rx'[c].seq = rx[c].seq
           \/ rx[c].pc = "t1_save_followup" /\ rx'[c].pc = "idle"
        /\ UNCHANGED <<lockVars, ClockIdentity, T2, LastSyncSequenceId>>
    BY <1>6, RxValues DEF SaveT1
  <2>2. QED
    BY <2>1 DEF Paired
<1>7. ASSUME NEW m \in Masters, NEW d \in Domains, RecvAnnounce(c, m, d)
      PROVE  ~InPacket(c) /\ ~InPacket(c)'
  <2>1. \/ Receive(c, "ann_reset_config", m, d, 0, NoT1)
        \/ Receive(c, "ann_domain", m, d, 0, NoT1)
    BY <1>7, Zenon DEF RecvAnnounce
  <2>2. rx[c].pc = "idle" /\ rx'[c].pc \in {"ann_reset_config", "ann_domain"}
    BY <2>1, RxValues DEF Receive
  <2>3. QED
    BY <2>2
<1>8. ASSUME NEW m \in Masters, NEW s \in SeqIds, RecvSync(c, m, s)
      PROVE  rx'[c].pc \in {"sync_gap", "sync_lock"}
  BY <1>8, RxValues DEF RecvSync
<1>9. ASSUME NEW m \in Masters, NEW s \in SeqIds, NEW v \in T1Values, RecvFollowUp(c, m, s, v)
      PROVE  rx'[c].pc = "t1_of_followup" /\ PairOf(c)'
  <2>1. Receive(c, "t1_of_followup", m, 0, s, v) /\ s = LastSyncSequenceId
        /\ UNCHANGED <<stampVars, lockVars, ClockIdentity>>
    BY <1>9, Zenon DEF RecvFollowUp, FollowUpMatches
  <2>2. rx[c].pc = "idle" /\ rx'[c].pc = "t1_of_followup" /\ rx'[c].seq = LastSyncSequenceId
    BY <2>1, RxValues DEF Receive
  <2>3. Paired
    <3>1. \A d \in Cpus : ~InPacket(d)
      BY <2>2
    <3>2. QED
      BY <3>1
  <2>4. QED
    BY <2>1, <2>2, <2>3 DEF Paired
<1>10. QED
  BY <1>1, <1>2, <1>3, <1>4, <1>5, <1>6, <1>7, <1>8, <1>9 DEF Handler, RxStep

\* Any step, when moreover the handlers of Syncs and Follow_Ups do not overlap.
LEMMA NextPair ==
  ASSUME TypeOK, PacketsApart, PacketsApart', ElectionInv, PairInv, [Next]_vars
  PROVE  PairInv'
<1>1. CASE ~\E c \in Cpus : Handler(c)
  <2>1. /\ UNCHANGED <<rx, stampVars, ClockIdentity>>
        /\ ResetPTPLock \/ UNCHANGED <<PTPLockCounter, told>>
    BY <1>1, OtherSteps
  <2>2. PTPLockCounter' = PTP_LOCK_HYSTERESIS \/ UNCHANGED <<PTPLockCounter, told>>
    BY <2>1 DEF ResetPTPLock
  <2>3. QED
    BY <2>1, <2>2 DEF PairInv, Paired, Stamp, InPacket
<1>2. ASSUME NEW c \in Cpus, Handler(c) PROVE PairInv'
  <2>0. \A d \in Cpus : d # c => rx'[d] = rx[d]
    BY <1>2, HandlerOthers
  <2>1. CASE InPacket(c) \/ InPacket(c)'
    <3>1. \A d \in Cpus : d # c => ~InPacket(d) /\ ~InPacket(d)'
      BY <2>0, <2>1 DEF PacketsApart, InPacket
    <3>2. PairOf(c)' /\ (~InPacket(c)' => Paired')
      BY <1>2, <2>1, <3>1, PacketStepPair
    <3>3. QED
      BY <3>1, <3>2 DEF PairInv, PairOf, InPacket, PacketLabels
  <2>2. CASE ~InPacket(c) /\ ~InPacket(c)'
    <3>1. CASE Electing(c)
      <4>1. \A d \in Cpus : ~InPacket(d)'
        BY <2>0, <2>2, <3>1 DEF PacketsApart, ElectionApart, InPacket
      <4>2. Paired'
        <5>1. PTPLockCounter = PTP_LOCK_HYSTERESIS
          BY <3>1 DEF ElectionInv
        <5>2. PTPLockCounter' = PTPLockCounter \/ PTPLockCounter' = PTP_LOCK_HYSTERESIS
          BY <1>2, <2>2, HandlerElection DEF ResetPTPLock
        <5>3. QED
          BY <5>1, <5>2 DEF Paired
      <4>3. QED
        BY <4>1, <4>2 DEF PairInv, InPacket, PacketLabels
    <3>2. CASE ~Electing(c)
      <4>1. UNCHANGED <<ClockIdentity, T2, LastSyncSequenceId>>
            /\ (PTPLockCounter' = PTP_LOCK_HYSTERESIS \/ UNCHANGED <<PTPLockCounter, told>>)
        BY <1>2, <2>2, <3>2, QuietHandler
      <4>2. QED
        BY <2>0, <2>2, <4>1 DEF PairInv, Paired, Stamp, InPacket, PacketLabels
    <3>3. QED
      BY <3>1, <3>2
  <2>3. QED
    BY <2>1, <2>2
<1>3. QED
  BY <1>1, <1>2

\* However many CPUs receive packets, as long as their handlers of Syncs and
\* Follow_Ups overlap neither each other nor an election, the period, the offset
\* and the phase are computed from T1 and T2 of the same Sync, but for a second
\* Follow_Up that brings another T1.
THEOREM SameSync == Spec /\ []PacketsApart => []T1MatchesT2
<1>1. TypeOK /\ PairInv /\ ElectionInv => T1MatchesT2
  BY HysteresisAssumption
     DEF PairInv, ElectionInv, T1MatchesT2, InT1, Paired, Stamp, InPacket, PacketLabels, TypeOK
<1>2. TypeOK /\ PacketsApart /\ ElectionInv /\ [Next]_vars => ElectionInv'
  BY NextElection DEF PacketsApart
<1>3. TypeOK /\ PacketsApart /\ PacketsApart' /\ ElectionInv /\ PairInv /\ [Next]_vars => PairInv'
  BY NextPair
<1>4. QED
  BY <1>1, <1>2, <1>3, InitPair, TypeCorrect, PTL DEF Spec

-----------------------------------------------------------------------------
(* The domain of the elected master, when packets are received by one CPU  *)

\* SetPTPConfig is not between its two steps and no change waits for an Announce.
Settled == ~ConfigChanged /\ opPc # "config_count"

\* The master being elected, and the elected one, are of the configured domain.
ElectedInv ==
  Settled =>
    /\ \A c \in Cpus : rx[c].pc \in {"ann_reset_elect", "ann_assign"} =>
         rx[c].dom = PTPConfig.ui8Domain
    /\ ClockIdentity # NoMaster /\ (\A c \in Cpus : rx[c].pc # "ann_reset_config") =>
         electedDomain = PTPConfig.ui8Domain

\* A step that neither elects nor enters or leaves one of the labels of the invariant.
LEMMA KeepsElected ==
  ASSUME ElectedInv, Settled' => Settled, UNCHANGED <<ClockIdentity, electedDomain, PTPConfig>>,
         \A c \in Cpus :
           /\ rx'[c].pc \in {"ann_reset_elect", "ann_assign"} => rx'[c] = rx[c]
           /\ rx[c].pc = "ann_reset_config" => rx'[c].pc = "ann_reset_config"
  PROVE  ElectedInv'
BY DEF ElectedInv

\* A step of the handler of the only CPU.
LEMMA RxStepElected ==
  ASSUME SingleCpu, TypeOK, ElectedInv, NEW c \in Cpus, RxStep(c)
  PROVE  ElectedInv'
<1>1. \A d \in Cpus : d = c
  BY DEF SingleCpu
<1>2. CASE ResetPTPMaster(c)
  <2>1. /\ rx[c].pc \in DOMAIN AfterReset /\ rx'[c].pc = AfterReset[rx[c].pc]
        /\ rx'[c].dom = rx[c].dom
        /\ ClockIdentity' = NoMaster /\ UNCHANGED <<configVars, opPc>>
    BY <1>2, RxValues DEF ResetPTPMaster
  <2>2. rx'[c].pc \in {"ann_reset_elect", "ann_assign"} => rx[c].pc = "ann_reset_elect"
    BY <2>1 DEF AfterReset
  <2>3. QED
    BY <1>1, <2>1, <2>2 DEF ElectedInv, Settled
<1>3. CASE AnnounceElect(c)
  <2>1. /\ rx[c].pc = "ann_elect" /\ rx'[c].pc \in {"idle", "ann_save", "ann_reset_elect"}
        /\ rx'[c].pc = "ann_reset_elect" => rx'[c].dom = PTPConfig.ui8Domain
        /\ UNCHANGED <<configVars, opPc, ClockIdentity, electedDomain>>
    BY <1>3, RxValues DEF AnnounceElect
  <2>2. QED
    BY <1>1, <2>1 DEF ElectedInv, Settled
<1>4. CASE AnnounceAssign(c)
  <2>1. /\ rx[c].pc = "ann_assign" /\ rx'[c].pc = "ann_save"
        /\ electedDomain' = rx[c].dom /\ UNCHANGED <<configVars, opPc>>
    BY <1>4, RxValues DEF AnnounceAssign
  <2>2. QED
    BY <1>1, <2>1 DEF ElectedInv, Settled
<1>5. CASE AnnounceDomain(c) \/ AnnounceSave(c) \/ SyncReset(c) \/ SyncT2(c) \/ SyncEnd(c)
           \/ ProcessT1(c) \/ SaveT1(c)
  <2>1. /\ rx[c].pc # "ann_reset_config"
        /\ rx'[c].pc \notin {"ann_reset_elect", "ann_assign"}
    BY <1>5, RxValues DEF AnnounceDomain, AnnounceSave, SyncReset, SyncT2, SyncEnd, ProcessT1, SaveT1
  <2>2. UNCHANGED <<PTPConfig, ConfigChanged, opPc, ClockIdentity, electedDomain>>
    BY <1>5, Zenon DEF AnnounceDomain, AnnounceSave, SyncReset, SyncT2, SyncEnd, ProcessT1, SaveT1
  <2>3. QED
    BY <1>1, <2>1, <2>2, KeepsElected DEF Settled
<1>6. QED
  BY <1>2, <1>3, <1>4, <1>5 DEF RxStep

\* Any step.
LEMMA NextElected ==
  ASSUME SingleCpu, TypeOK, ElectedInv, [Next]_vars
  PROVE  ElectedInv'
<1>0. \A c, d \in Cpus : c = d
  BY DEF SingleCpu
<1>1. ASSUME NEW c \in Cpus, NEW m \in Masters, NEW d \in Domains, RecvAnnounce(c, m, d)
      PROVE  ElectedInv'
  <2>1. UNCHANGED <<PTPConfig, ClockIdentity, electedDomain, opPc>>
    BY <1>1, Zenon DEF RecvAnnounce
  <2>2. \/ ConfigChanged /\ Receive(c, "ann_reset_config", m, d, 0, NoT1)
        \/ ~ConfigChanged /\ Receive(c, "ann_domain", m, d, 0, NoT1)
    BY <1>1, Zenon DEF RecvAnnounce
  <2>3. CASE ConfigChanged /\ Receive(c, "ann_reset_config", m, d, 0, NoT1)
    <3>1. rx'[c].pc = "ann_reset_config"
      BY <2>3, RxValues
    <3>2. QED
      BY <1>0, <3>1 DEF ElectedInv
  <2>4. CASE ~ConfigChanged /\ Receive(c, "ann_domain", m, d, 0, NoT1)
    <3>1. rx[c].pc = "idle" /\ rx'[c].pc = "ann_domain"
      BY <2>4, RxValues DEF Receive
    <3>2. QED
      BY <1>0, <2>1, <2>4, <3>1, KeepsElected DEF Settled
  <2>5. QED
    BY <2>2, <2>3, <2>4
<1>2. ASSUME NEW c \in Cpus, NEW m \in Masters, NEW s \in SeqIds,
             RecvSync(c, m, s) \/ \E v \in T1Values : RecvFollowUp(c, m, s, v)
      PROVE  ElectedInv'
  <2>1. UNCHANGED <<PTPConfig, ConfigChanged, ClockIdentity, electedDomain, opPc>>
    BY <1>2, Zenon DEF RecvSync, RecvFollowUp
  <2>2. PICK l \in {"sync_gap", "sync_lock", "t1_of_followup"}, v \in T1Values \cup {NoT1} :
                 Receive(c, l, m, 0, s, v)
    BY <1>2 DEF RecvSync, RecvFollowUp
  <2>3. rx[c].pc = "idle"
    BY <2>2 DEF Receive
  <2>4. rx'[c].pc = l
    BY <2>2, RxValues
  <2>5. QED
    BY <1>0, <2>1, <2>3, <2>4, KeepsElected DEF Settled
<1>3. ASSUME NEW c \in Cpus, RxStep(c) PROVE ElectedInv'
  BY <1>3, RxStepElected
<1>4. CASE CountConfigChange \/ \E config \in [ui8Domain : Domains, ui8DSCP : DSCPs] : SetPTPConfig(config)
  BY <1>4 DEF CountConfigChange, SetPTPConfig, ElectedInv, Settled
<1>5. CASE \/ TimerWatchDog \/ TimerWatchDogSave \/ Tick \/ UNCHANGED vars
           \/ StopAudioFrameTICTimer("stop_reset") \/ StopAudioFrameTICTimer("start_stop_reset")
           \/ StopReset \/ StartSet \/ StartReset
  <2>1. UNCHANGED <<PTPConfig, ConfigChanged, ClockIdentity, electedDomain, rx>>
    BY <1>5, Zenon DEF TimerWatchDog, TimerWatchDogSave, Tick, StopAudioFrameTICTimer,
                       StopReset, StartSet, StartReset
  <2>2. opPc' # "config_count" => opPc # "config_count"
    BY <1>5 DEF TimerWatchDog, TimerWatchDogSave, Tick, StopAudioFrameTICTimer,
                StopReset, StartSet, StartReset
  <2>3. QED
    BY <2>1, <2>2, KeepsElected DEF Settled
<1>6. QED
  BY <1>1, <1>2, <1>3, <1>4, <1>5, NextCases DEF OpStep

\* With one receiving CPU, no Announce of another domain is elected, even if SetPTPConfig
\* runs in the middle of the election: such a master is given up with the next Announce,
\* and until then ConfigChanged is set.
THEOREM ElectsInDomain ==
  ASSUME SingleCpu
  PROVE  Spec => []ElectedInDomain
<1>1. ElectedInv => ElectedInDomain
  BY DEF ElectedInv, ElectedInDomain, Settled
<1>2. SingleCpu
  OBVIOUS
<1>3. TypeOK /\ ElectedInv /\ [Next]_vars => ElectedInv'
  BY <1>2, NextElected
<1>4. Init => ElectedInv
  BY DEF Init, ElectedInv, IdleRx
<1>5. QED
  BY <1>1, <1>3, <1>4, TypeCorrect, PTL DEF Spec
=============================================================================
