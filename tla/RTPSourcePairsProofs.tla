------------------------ MODULE RTPSourcePairsProofs ------------------------
(***************************************************************************)
(* Proof that the two streams of an ST2022-7 pair are attached to each     *)
(* other, as long as no stream was removed and no add has failed, for any  *)
(* number of slots and of streams.                                         *)
(***************************************************************************)
EXTENDS RTPSourcePairs, RTPSourceStreamsProofs

\* No stream was removed and no add has failed so far.
Calm == ~leaked /\ ~removed

Listed == {Ordered[i] : i \in DOMAIN Ordered}

\* Without a removal the timer callback reads listed slots only, and destroys none.
CalmInv ==
  /\ op.pc \in {"idle", "create", "insert"}
  /\ timer.pc \notin {"destroy", "clear", "clear_info"}
  /\ \A i \in DOMAIN timer.list : timer.list[i] \in Listed

\* An identifier is used once per NIC: by the listed streams and by the one being added.
KeyInv ==
  /\ \A s, t \in Listed : NICId(s) = NICId(t) /\ Info[s].id = Info[t].id => s = t
  /\ op.pc = "create" =>
       \A t \in Listed : NICId(t) = NICId(op.slot) => Info[t].id # op.info.id
  /\ op.pc = "insert" =>
       \A t \in Listed : NICId(t) = NICId(op.slot) => Info[t].id # Info[op.slot].id

\* Listed streams are attached if and only if they have the same identifier, and others
\* not at all.
AttachInv ==
  /\ \A s \in Slots : Attached[s] # NULL => s \in Listed /\ Attached[s] \in Listed \ {s}
  /\ \A s, t \in Listed : s # t => (Info[s].id = Info[t].id <=> Attached[s] = t)

PairInv ==
  /\ Inv /\ Attached \in [Slots -> Slots \cup {NULL}] /\ removed \in BOOLEAN
  /\ Calm => CalmInv /\ KeyInv /\ AttachInv


USE DEF vars, slotVars

-----------------------------------------------------------------------------
(* The list                                                                *)

\* Listed slots are active; the list as a set.
LEMMA ListedFacts ==
  ASSUME Inv
  PROVE  /\ Listed \subseteq Slots /\ \A s \in Listed : Active[s]
         /\ \A s : InOrdered(s) <=> s \in Listed
<1>1. \A i \in DOMAIN Ordered : Ordered[i] \in Slots
  BY LenProperties, ElementOfSeq DEF Inv, TypeOK
<1>2. QED
  BY <1>1 DEF Inv, ListedActive, Listed, InOrdered

\* AddInsert adds one slot to it.
LEMMA InsertListed ==
  ASSUME Inv, op.pc = "insert", Ordered' = InsertAt(Ordered, InsertPos(op.slot), op.slot)
  PROVE  Listed' = Listed \cup {op.slot}
<1> DEFINE p == InsertPos(op.slot)
<1>1. Ordered \in Seq(Slots) /\ Len(Ordered) \in Nat /\ DOMAIN Ordered = 1 .. Len(Ordered)
  BY LenProperties DEF Inv, TypeOK
<1>2. op.slot \in Slots
  BY DEF Inv, OpInv
<1>3. p \in 1 .. Len(Ordered) + 1
  BY <1>1, <1>2, InsertPosFacts
<1>4. Ordered' = InsertAt(Ordered, p, op.slot)
  OBVIOUS
<1> HIDE DEF p
<1>5. /\ InsertAt(Ordered, p, op.slot) \in Seq(Slots)
      /\ Len(InsertAt(Ordered, p, op.slot)) = Len(Ordered) + 1
      /\ \A j \in 1 .. Len(Ordered) + 1 :
           InsertAt(Ordered, p, op.slot)[j] =
             IF j < p THEN Ordered[j] ELSE IF j = p THEN op.slot ELSE Ordered[j - 1]
  <2>1. Ordered \in Seq(Slots) /\ op.slot \in Slots
    BY <1>1, <1>2
  <2>2. QED
    BY <1>3, <2>1, InsertAtFacts
<1>6. /\ DOMAIN Ordered' = 1 .. Len(Ordered) + 1
      /\ \A j \in 1 .. Len(Ordered) + 1 :
           Ordered'[j] = IF j < p THEN Ordered[j] ELSE IF j = p THEN op.slot ELSE Ordered[j - 1]
  <2>1. /\ Ordered' \in Seq(Slots) /\ Len(Ordered') = Len(Ordered) + 1
        /\ \A j \in 1 .. Len(Ordered) + 1 :
             Ordered'[j] = IF j < p THEN Ordered[j] ELSE IF j = p THEN op.slot ELSE Ordered[j - 1]
    BY <1>4, <1>5, Zenon
  <2>2. QED
    BY <2>1, LenProperties
<1>7. ASSUME NEW s \in Listed' PROVE s \in Listed \cup {op.slot}
  <2>1. PICK j \in DOMAIN Ordered' : s = Ordered'[j]
    BY DEF Listed
  <2>2. CASE j = p
    BY <1>3, <1>6, <2>1, <2>2
  <2>3. CASE j < p
    <3>1. j \in DOMAIN Ordered /\ s = Ordered[j]
      BY <1>1, <1>3, <1>6, <2>1, <2>3
    <3>2. QED
      BY <3>1 DEF Listed
  <2>4. CASE j > p
    <3>1. j - 1 \in DOMAIN Ordered /\ s = Ordered[j - 1]
      BY <1>1, <1>3, <1>6, <2>1, <2>4
    <3>2. QED
      BY <3>1 DEF Listed
  <2>5. QED
    BY <1>1, <1>3, <1>6, <2>2, <2>3, <2>4
<1>8. ASSUME NEW s \in Listed PROVE s \in Listed'
  <2>1. PICK i \in DOMAIN Ordered : s = Ordered[i]
    BY DEF Listed
  <2>2. PICK j \in DOMAIN Ordered' : Ordered'[j] = s
    <3>1. CASE i < p
      BY <1>1, <1>3, <1>6, <2>1, <3>1
    <3>2. CASE i >= p
      <4>1. i + 1 \in 1 .. Len(Ordered) + 1 /\ ~(i + 1 < p) /\ i + 1 # p /\ i + 1 - 1 = i
        BY <1>1, <1>3, <3>2
      <4>2. Ordered'[i + 1] = s
        BY <1>6, <2>1, <4>1
      <4>3. QED
        BY <1>6, <4>1, <4>2
    <3>3. QED
      BY <1>1, <1>3, <3>1, <3>2
  <2>3. QED
    BY <2>2 DEF Listed
<1>9. op.slot \in Listed'
  <2>1. p \in DOMAIN Ordered' /\ Ordered'[p] = op.slot
    BY <1>1, <1>3, <1>6
  <2>2. QED
    BY <2>1 DEF Listed
<1>10. QED
  BY <1>7, <1>8, <1>9

\* attached_stream finds a listed stream with the identifier of the slot, if there is one.
LEMMA TwinFound ==
  ASSUME Inv, NEW s \in Slots
  PROVE  \/ /\ \A t \in Listed : Info[t].id # Info[s].id
            /\ attached_stream(s) = Attached
         \/ \E t \in Listed : /\ Info[t].id = Info[s].id
                              /\ attached_stream(s) = [Attached EXCEPT ![s] = t, ![t] = s]
<1>1. CASE Twins(s) = {}
  BY <1>1 DEF attached_stream, Twins, Listed
<1>2. CASE Twins(s) # {}
  <2> DEFINE i == CHOOSE k \in Twins(s) : \A j \in Twins(s) : k <= j
  <2>1. Twins(s) \in SUBSET Nat
    BY LenProperties DEF Inv, TypeOK, Twins
  <2>2. \E k \in Twins(s) : \A j \in Twins(s) : k <= j
    BY <1>2, <2>1, FirstOf
  <2>3. i \in Twins(s)
    BY <2>2
  <2>4. attached_stream(s) = [Attached EXCEPT ![s] = Ordered[i], ![Ordered[i]] = s]
    BY <1>2 DEF attached_stream
  <2> HIDE DEF i
  <2>5. Ordered[i] \in Listed /\ Info[Ordered[i]].id = Info[s].id
    BY <2>3 DEF Twins, Listed
  <2>6. QED
    BY <2>4, <2>5
<1>3. QED
  BY <1>1, <1>2


-----------------------------------------------------------------------------
(* The steps, while no stream was removed and no add has failed            *)

\* What CalmInv says of the timer callback.
CopyListed ==
  /\ timer.pc \notin {"destroy", "clear", "clear_info"}
  /\ \A i \in DOMAIN timer.list : timer.list[i] \in Listed

\* The timer callback destroys no stream: the slots it leaves are active.
LEMMA TimerCalm ==
  ASSUME Inv, CopyListed, TimerNext
  PROVE  CopyListed' /\ UNCHANGED <<Info, Ordered, op, leaked>>
<1>1. UNCHANGED <<Ordered, op, leaked>> /\ Listed' = Listed
  BY DEF TimerNext, TimerStep, prepare_buffer_lives, PrepareDone, ReaderLeave, LeaveCleanup,
     LeaveDestroy, PrepareReturn, send_outgoing_packets, SendDone, Listed
<1>2. /\ timer.list \in Seq(Slots) /\ Len(timer.list) \in Nat
      /\ DOMAIN timer.list = 1 .. Len(timer.list)
  BY CopyFacts
<1>3. CASE prepare_buffer_lives \/ send_outgoing_packets
  <2>1. UNCHANGED Info /\ timer'.pc \in {"prepare", "send"} /\ timer'.list = Ordered
    BY <1>3 DEF prepare_buffer_lives, send_outgoing_packets, Snapshot
  <2>2. QED
    BY <1>1, <2>1 DEF CopyListed, Listed
<1>4. CASE PrepareDone \/ ReaderLeave
  <2>1. UNCHANGED Info /\ timer'.pc \in {"leave", "cleanup"} /\ timer'.list = timer.list
    BY <1>4, CopyFacts DEF PrepareDone, ReaderLeave
  <2>2. QED
    BY <1>1, <2>1 DEF CopyListed
<1>5. CASE LeaveCleanup
  <2>1. timer.pc = "cleanup" /\ timer.list # <<>> /\ UNCHANGED Info
    BY <1>5 DEF LeaveCleanup, Inv, CopyInv, LeavePcs
  <2>2. 1 \in DOMAIN timer.list /\ LeftSlot = timer.list[1]
    BY <1>2, <2>1 DEF LeftSlot
  <2>3. ~IsFree(LeftSlot)
    BY <2>2, ListedFacts DEF CopyListed, IsFree
  <2>4. timer'.pc = "leave" /\ timer'.list = Tail(timer.list)
    BY <1>5, <2>3 DEF LeaveCleanup, NextLeave
  <2>5. /\ DOMAIN Tail(timer.list) = 1 .. Len(timer.list) - 1
        /\ \A i \in 1 .. Len(timer.list) - 1 : Tail(timer.list)[i] = timer.list[i + 1]
    BY <1>2, <2>1, HeadTailProperties, LenProperties
  <2>6. \A i \in 1 .. Len(timer.list) - 1 : i + 1 \in DOMAIN timer.list
    BY <1>2
  <2>7. QED
    BY <1>1, <2>1, <2>4, <2>5, <2>6 DEF CopyListed
<1>6. CASE LeaveDestroy
  BY <1>6 DEF LeaveDestroy, CopyListed
<1>7. CASE PrepareReturn
  <2>1. UNCHANGED Info /\ timer'.pc \in {"idle", "frame"} /\ timer'.list = <<>>
    BY <1>7 DEF PrepareReturn, IdleTimer
  <2>2. QED
    BY <1>1, <2>1 DEF CopyListed
<1>8. CASE SendDone
  <2>1. timer'.pc = "idle" /\ timer'.list = <<>>
    BY <1>8 DEF SendDone, IdleTimer
  <2>2. \A s \in Slots : Reading(s) => Active[s]
    BY ListedFacts DEF Reading, CopyListed
  <2>3. Info' = [s \in Slots |-> Info[s]]
    BY <1>8, <2>2 DEF SendDone
  <2>4. Info' = Info
    BY <2>3 DEF Inv, TypeOK
  <2>5. QED
    BY <1>1, <2>1, <2>4 DEF CopyListed
<1>9. QED
  BY <1>1, <1>3, <1>4, <1>5, <1>6, <1>7, <1>8, Zenon DEF TimerNext, TimerStep

\* While streams are not touched, KeyInv and AttachInv stay.
LEMMA PairFrame ==
  ASSUME KeyInv, AttachInv, UNCHANGED <<Info, Ordered, op, Attached>>
  PROVE  KeyInv' /\ AttachInv'
<1>1. Listed' = Listed
  BY DEF Listed
<1>2. QED
  BY <1>1 DEF KeyInv, AttachInv

\* A slot is acquired for an identifier that no listed stream of its NIC has.
LEMMA AcquireCalm ==
  ASSUME Inv, CopyListed, KeyInv, AttachInv, NEW nic \in NICs, NEW info \in Streams,
         AddAcquire(nic, info), UNCHANGED Attached
  PROVE  CalmInv' /\ KeyInv' /\ AttachInv'
<1>1. PICK s \in FreeSlots(nic) :
        op' = [IdleOp EXCEPT !.pc = "create", !.slot = s, !.info = info]
  <2>1. FreeSlots(nic) \in SUBSET Nat
    BY SlotsCounted DEF FreeSlots
  <2>2. \E f \in FreeSlots(nic) : \A g \in FreeSlots(nic) : f <= g
    BY <2>1, FirstOf DEF AddAcquire
  <2>3. QED
    BY <2>2 DEF AddAcquire
<1>2. NICId(s) = nic /\ op'.pc = "create" /\ op'.slot = s /\ op'.info = info
  BY <1>1 DEF FreeSlots, IdleOp
<1>3. UNCHANGED <<Info, Ordered, timer>> /\ Listed' = Listed
  BY DEF AddAcquire, Listed
<1>4. \A t \in Listed : NICId(t) = nic => Info[t].id # info.id
  BY DEF AddAcquire, Listed
<1>5. CalmInv'
  BY <1>2, <1>3 DEF CalmInv, CopyListed
<1>6. KeyInv' /\ AttachInv'
  BY <1>2, <1>3, <1>4 DEF KeyInv, AttachInv
<1>7. QED
  BY <1>5, <1>6

\* Create gives the slot, which is not listed, that identifier.
LEMMA CreateCalm ==
  ASSUME Inv, CopyListed, KeyInv, AttachInv, AddCreate, ~leaked', UNCHANGED Attached
  PROVE  CalmInv' /\ KeyInv' /\ AttachInv'
<1>1. /\ op.pc = "create" /\ Info' = [Info EXCEPT ![op.slot] = op.info]
      /\ op' = [op EXCEPT !.pc = "insert", !.info = NoInfo]
  BY DEF AddCreate
<1>2. op'.pc = "insert" /\ op'.slot = op.slot
  BY <1>1 DEF Inv, TypeOK
<1>3. UNCHANGED <<Ordered, timer>> /\ Listed' = Listed
  BY DEF AddCreate, Listed
<1>4. op.slot \in Slots \ Listed
  BY <1>1, ListedFacts DEF Inv, OpInv
<1>5. Info'[op.slot] = op.info /\ \A t \in Listed : Info'[t] = Info[t]
  BY <1>1, <1>4, ListedFacts DEF Inv, TypeOK
<1>6. CalmInv'
  BY <1>2, <1>3 DEF CalmInv, CopyListed
<1>7. KeyInv' /\ AttachInv'
  BY <1>1, <1>2, <1>3, <1>5 DEF KeyInv, AttachInv
<1>8. QED
  BY <1>6, <1>7


\* AddInsert: the new stream has at most one twin, of the other NIC and attached to none;
\* the two are attached to each other.
LEMMA InsertCalm ==
  ASSUME PairInv, Calm, AddInsert, ~leaked', Attached' = attached_stream(op.slot)
  PROVE  CalmInv' /\ KeyInv' /\ AttachInv'
<1>1. Inv /\ CalmInv /\ KeyInv /\ AttachInv /\ Attached \in [Slots -> Slots \cup {NULL}]
  BY DEF PairInv
<1>2. PICK n \in Slots : n = op.slot /\ n \notin Listed
  <2>1. op.slot \in Slots /\ ~InOrdered(op.slot)
    BY <1>1 DEF AddInsert, Inv, OpInv
  <2>2. QED
    BY <1>1, <2>1, ListedFacts
<1>3. UNCHANGED <<Info, timer>> /\ op'.pc = "idle"
  BY DEF AddInsert, IdleOp
<1>4. Listed' = Listed \cup {n}
  BY <1>1, <1>2, InsertListed DEF AddInsert
<1>5. CalmInv'
  BY <1>1, <1>3, <1>4 DEF CalmInv
<1>6. KeyInv'
  BY <1>1, <1>2, <1>3, <1>4 DEF KeyInv, AddInsert
<1>7. Listed \subseteq Slots /\ NULL \notin Slots
  BY <1>1, ListedFacts, SlotsCounted DEF NULL
<1>8. AttachInv'
  <2>1. CASE (\A t \in Listed : Info[t].id # Info[n].id) /\ Attached' = Attached
    <3>1. Attached[n] = NULL /\ \A s \in Listed : Attached[s] # n
      BY <1>1, <1>2, <1>7 DEF AttachInv
    <3>2. \A s \in Slots : Attached'[s] # NULL => s \in Listed' /\ Attached'[s] \in Listed' \ {s}
      BY <1>1, <1>4, <2>1 DEF AttachInv
    <3>3. ASSUME NEW s \in Listed', NEW t \in Listed', s # t
          PROVE  Info[s].id = Info[t].id <=> Attached[s] = t
      BY <1>1, <1>2, <1>4, <1>7, <2>1, <3>1, <3>3 DEF AttachInv
    <3>4. QED
      BY <1>3, <2>1, <3>2, <3>3 DEF AttachInv
  <2>2. CASE \E t \in Listed : /\ Info[t].id = Info[n].id
                               /\ Attached' = [Attached EXCEPT ![n] = t, ![t] = n]
    <3>1. PICK u \in Listed : Info[u].id = Info[n].id /\ Attached' = [Attached EXCEPT ![n] = u, ![u] = n]
      BY <2>2
    <3>2. \A t \in Listed : Info[t].id = Info[n].id => t = u
      <4>1. NICId(u) # NICId(n)
        BY <1>1, <1>2, <3>1 DEF KeyInv, AddInsert
      <4>2. \A t \in Listed : Info[t].id = Info[n].id => NICId(t) = NICId(u)
        BY <1>1, <1>2, <4>1 DEF KeyInv, AddInsert, NICId
      <4>3. QED
        BY <1>1, <3>1, <4>2 DEF KeyInv
    <3>3. Attached[n] = NULL /\ Attached[u] = NULL /\ \A s \in Listed : Attached[s] # n /\ Attached[s] # u
      BY <1>1, <1>2, <1>7, <3>1, <3>2 DEF AttachInv
    <3>4. /\ Attached'[n] = u /\ Attached'[u] = n
          /\ \A s \in Slots \ {n, u} : Attached'[s] = Attached[s]
      BY <1>1, <1>2, <1>7, <3>1
    <3>5. \A s \in Slots : Attached'[s] # NULL => s \in Listed' /\ Attached'[s] \in Listed' \ {s}
      BY <1>1, <1>2, <1>4, <3>4 DEF AttachInv
    <3>6. ASSUME NEW s \in Listed', NEW t \in Listed', s # t
          PROVE  Info[s].id = Info[t].id <=> Attached'[s] = t
      <4>1. CASE s = n
        BY <1>4, <3>1, <3>2, <3>4, <3>6, <4>1
      <4>2. CASE s = u
        BY <1>2, <1>4, <3>1, <3>2, <3>4, <3>6, <4>2
      <4>3. CASE s \notin {n, u}
        <5>1. s \in Listed /\ Attached'[s] = Attached[s] /\ Attached[s] # n
          BY <1>4, <1>7, <3>3, <3>4, <4>3
        <5>2. CASE t = n
          BY <3>2, <4>3, <5>1, <5>2
        <5>3. CASE t # n
          BY <1>1, <1>4, <3>6, <5>1, <5>3 DEF AttachInv
        <5>4. QED
          BY <5>2, <5>3
      <4>4. QED
        BY <4>1, <4>2, <4>3
    <3>7. QED
      BY <1>3, <3>5, <3>6 DEF AttachInv
  <2>3. QED
    BY <1>1, <1>2, <2>1, <2>2, TwinFound
<1>9. QED
  BY <1>5, <1>6, <1>8

\* attached_stream writes slots only.
LEMMA AttachedType ==
  ASSUME Inv, Attached \in [Slots -> Slots \cup {NULL}], NEW s \in Slots
  PROVE  attached_stream(s) \in [Slots -> Slots \cup {NULL}]
<1>1. CASE attached_stream(s) = Attached
  BY <1>1
<1>2. CASE \E t \in Listed : attached_stream(s) = [Attached EXCEPT ![s] = t, ![t] = s]
  <2>1. PICK t \in Listed : attached_stream(s) = [Attached EXCEPT ![s] = t, ![t] = s]
    BY <1>2
  <2>2. t \in Slots
    BY <2>1, ListedFacts
  <2>3. QED
    BY <2>1, <2>2
<1>3. QED
  BY <1>1, <1>2, TwinFound

\* A removal, of one stream or of all, is never taken back.
LEMMA RemovalSeen ==
  ASSUME Inv, OpNext, op.pc # "insert", CalmInv, op'.pc # "release"
  PROVE  \/ \E nic \in NICs, info \in Streams : AddAcquire(nic, info)
         \/ AddCreate
<1>1. ASSUME NEW i \in DOMAIN Ordered, remove_RTP_stream(i) PROVE FALSE
  <2>1. Active[Ordered[i]]
    BY <1>1 DEF Inv, ListedActive
  <2>2. op'.pc = "release"
    BY <1>1, <2>1 DEF remove_RTP_stream, ReleaseSlot, IdleOp
  <2>3. QED
    BY <2>2
<1>2. ASSUME remove_all_RTP_streams PROVE FALSE
  BY <1>2 DEF remove_all_RTP_streams, IdleOp
<1>3. ASSUME AddInsert \/ Release \/ ReleaseCleanup \/ ReleaseDestroy PROVE FALSE
  BY <1>3 DEF CalmInv, AddInsert, Release, ReleaseCleanup, ReleaseDestroy
<1>4. QED
  BY <1>1, <1>2, <1>3, Zenon DEF OpNext, OpStep


-----------------------------------------------------------------------------
(* The theorem                                                             *)

\* The failure of an add is not forgotten.
LEMMA LeakedStays ==
  ASSUME Inv, Next, leaked
  PROVE  leaked'
<1>1. CASE OpNext
  BY <1>1 DEF OpNext, OpStep, AddAcquire, AddCreate, AddInsert, remove_RTP_stream,
     remove_all_RTP_streams, Release, ReleaseCleanup, ReleaseDestroy
<1>2. CASE TimerNext
  BY <1>2 DEF TimerNext, TimerStep, prepare_buffer_lives, PrepareDone, ReaderLeave, LeaveCleanup,
     LeaveDestroy, PrepareReturn, send_outgoing_packets, SendDone
<1>3. QED
  BY <1>1, <1>2 DEF Next

\* PairInv holds at the start.
LEMMA PairInitInv == PairInit => PairInv
<1> SUFFICES ASSUME PairInit PROVE PairInv
  OBVIOUS
<1>1. Inv
  BY InitInv DEF PairInit
<1>2. Listed = {} /\ op.pc = "idle" /\ timer.pc = "idle" /\ timer.list = <<>>
  BY DEF PairInit, Init, Listed, IdleOp, IdleTimer
<1>3. /\ Attached \in [Slots -> Slots \cup {NULL}] /\ removed \in BOOLEAN
      /\ \A s \in Slots : Attached[s] = NULL
  BY DEF PairInit
<1>4. CalmInv /\ KeyInv /\ AttachInv
  BY <1>2, <1>3 DEF CalmInv, KeyInv, AttachInv
<1>5. QED
  BY <1>1, <1>3, <1>4 DEF PairInv

\* PairInv is preserved by every step.
LEMMA PairNextInv ==
  ASSUME PairInv, [PairNext]_pairVars
  PROVE  PairInv'
<1>1. Inv /\ Attached \in [Slots -> Slots \cup {NULL}] /\ removed \in BOOLEAN
  BY DEF PairInv
<1>2. CASE UNCHANGED pairVars
  <2>1. UNCHANGED <<vars, Attached, removed>>
    BY <1>2 DEF pairVars
  <2>2. Inv'
    BY <1>1, <2>1, NextInv
  <2>3. Calm' => Calm
    BY <2>1 DEF Calm
  <2>4. ASSUME Calm PROVE CalmInv' /\ KeyInv' /\ AttachInv'
    <3>1. CalmInv /\ KeyInv /\ AttachInv
      BY <2>4 DEF PairInv
    <3>2. CalmInv'
      BY <2>1, <3>1 DEF CalmInv, Listed
    <3>3. QED
      BY <2>1, <3>1, <3>2, PairFrame
  <2>5. QED
    BY <1>1, <2>1, <2>2, <2>3, <2>4 DEF PairInv
<1>3. CASE PairNext
  <2>1. Next
    BY <1>3 DEF PairNext, Next, OpNext, OpStep
  <2>2. Inv'
    BY <1>1, <2>1, NextInv
  <2>3. Attached' \in [Slots -> Slots \cup {NULL}]
    <3>1. CASE AddInsert /\ Attached' = attached_stream(op.slot)
      <4>1. op.slot \in Slots
        BY <1>1, <3>1 DEF AddInsert, Inv, OpInv
      <4>2. QED
        BY <1>1, <3>1, <4>1, AttachedType
    <3>2. QED
      BY <1>1, <1>3, <3>1 DEF PairNext
  <2>4. removed' \in BOOLEAN /\ (removed => removed')
    BY <1>1, <1>3, Zenon DEF PairNext
  <2>5. ASSUME Calm' PROVE CalmInv' /\ KeyInv' /\ AttachInv'
    <3>1. Calm /\ ~leaked' /\ ~removed'
      BY <1>1, <2>1, <2>4, <2>5, LeakedStays DEF Calm
    <3>2. CalmInv /\ KeyInv /\ AttachInv
      BY <3>1 DEF PairInv
    <3>3. CopyListed
      BY <3>2 DEF CalmInv, CopyListed
    <3>4. CASE AddInsert /\ Attached' = attached_stream(op.slot)
      BY <3>1, <3>4, InsertCalm
    <3>5. CASE OpNext /\ op.pc # "insert" /\ UNCHANGED Attached /\ op'.pc # "release"
      BY <1>1, <3>1, <3>2, <3>3, <3>5, RemovalSeen, AcquireCalm, CreateCalm
    <3>6. CASE TimerNext /\ UNCHANGED Attached
      <4>1. CopyListed' /\ UNCHANGED <<Info, Ordered, op, leaked>>
        BY <1>1, <3>3, <3>6, TimerCalm
      <4>2. CalmInv'
        BY <3>2, <4>1 DEF CalmInv, CopyListed
      <4>3. QED
        BY <3>2, <3>6, <4>1, <4>2, PairFrame
    <3>7. QED
      BY <1>3, <3>1, <3>4, <3>5, <3>6, Zenon DEF PairNext
  <2>6. QED
    BY <2>2, <2>3, <2>4, <2>5, Zenon DEF PairInv
<1>4. QED
  BY <1>2, <1>3

\* PairInv is enough for what the runs check.
LEMMA PairInvSuffices == PairInv => PairsAttached
<1> SUFFICES ASSUME PairInv, Calm, op.pc = "idle", NEW i \in DOMAIN Ordered
             PROVE  /\ Sent(Ordered[i])
                    /\ {Attached[Ordered[i]]} \ {NULL} = {Ordered[j] : j \in Twins(Ordered[i])} \ {Ordered[i]}
  BY DEF PairsAttached, Calm
<1>1. Inv /\ KeyInv /\ AttachInv
  BY DEF PairInv
<1>2. PICK s \in Listed : s = Ordered[i]
  BY DEF Listed
<1>3. Listed \subseteq Slots /\ NULL \notin Slots /\ \A t : InOrdered(t) <=> t \in Listed
  BY <1>1, ListedFacts, SlotsCounted DEF NULL
<1>4. {Ordered[j] : j \in Twins(s)} = {t \in Listed : Info[t].id = Info[s].id}
  BY DEF Twins, Listed
<1>5. \A t \in Listed : t # s => (Info[t].id = Info[s].id <=> t = Attached[s])
  BY <1>1 DEF AttachInv
<1>6. Attached[s] # NULL => Attached[s] \in Listed /\ Attached[s] # s
  BY <1>1, <1>3 DEF AttachInv
<1>7. {Attached[s]} \ {NULL} = {Ordered[j] : j \in Twins(s)} \ {s}
  BY <1>3, <1>4, <1>5, <1>6
<1>8. Sent(s)
  <2>1. CASE SendsItself(s)
    BY <2>1 DEF Sent
  <2>2. CASE ~SendsItself(s)
    <3>1. NICId(s) = 1 /\ Attached[s] # NULL
      BY <2>2 DEF SendsItself
    <3>2. PICK t \in Listed : t = Attached[s] /\ t # s /\ Info[t].id = Info[s].id
      BY <1>5, <1>6, <3>1
    <3>3. Attached[t] = s
      BY <1>1, <3>2 DEF AttachInv
    <3>4. NICId(t) # 1
      BY <1>1, <3>1, <3>2 DEF KeyInv
    <3>5. InOrdered(Attached[s]) /\ SendsItself(Attached[s])
      BY <1>3, <3>2, <3>4 DEF SendsItself
    <3>6. QED
      BY <3>2, <3>3, <3>5 DEF Sent
  <2>3. QED
    BY <2>1, <2>2
<1>9. QED
  BY <1>2, <1>7, <1>8

\* Until a stream is removed or an add fails, attached_stream gives each listed stream
\* exactly the one with its identifier on the other NIC, and SendRTPAudioPackets sends
\* every listed stream.
THEOREM PairsAlwaysAttached == PairSpec => []PairsAttached
BY PairInitInv, PairNextInv, PairInvSuffices, PTL DEF PairSpec
=============================================================================
