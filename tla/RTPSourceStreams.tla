-------------------------- MODULE RTPSourceStreams --------------------------
(***************************************************************************)
(* The source streams of the RTP streams manager                           *)
(* (driver/RTP_streams_manager.c) and the life of the slots they live in   *)
(* (TRTP_audio_stream_handler, driver/RTP_audio_stream.c).                 *)
(*                                                                         *)
(* Two actors share them.  The management thread adds and removes streams, *)
(* each time holding m_csSourceRTPStreams.  The timer callback takes, in   *)
(* prepare_buffer_lives and again in send_outgoing_packets, a copy of the  *)
(* ordered list with every slot of it counted as being read, works on the  *)
(* streams with no lock held, and then leaves the slots: in                *)
(* send_outgoing_packets holding m_csSourceRTPStreams, but in              *)
(* prepare_buffer_lives holding m_csSinkRTPStreams, which the operations   *)
(* on sources do not take.  The steps of that ReaderLeave therefore        *)
(* interleave with those of the management thread, and both are split      *)
(* where they read or write a slot.                                        *)
(*                                                                         *)
(* A stream is its identifier, shared by the two streams of an ST2022-7    *)
(* pair, and its number of channels, by which the list is ordered.         *)
(***************************************************************************)
EXTENDS Integers, FiniteSets, SequencesExt

CONSTANTS
  NICs,                \* {0, 1}, or {0} when streams use the first NIC only
  MAX_SOURCE_STREAMS,  \* 64
  Streams,             \* the streams the Butler adds: [id : m_uiId,
                       \*   ch : m_byNbOfChannels], ids being unique per NIC
  CreateFailures       \* TRUE when Create may reject a stream

ASSUME NICsAssumption == NICs \in SUBSET {0, 1} /\ 0 \in NICs
ASSUME MaxAssumption == MAX_SOURCE_STREAMS \in Nat \ {0}
ASSUME StreamAssumption ==
  /\ Streams \subseteq [id : Nat \ {0}, ch : Nat \ {0}]
  /\ CreateFailures \in BOOLEAN

VARIABLES
  Active,       \* m_bActive of each slot
  ReaderCount,  \* m_nReaderCount
  Initialized,  \* m_bLivesInitialized
  Info,         \* m_RTP_stream_info
  Ordered,      \* m_apRTPSourceOrderedStreams
  op,           \* the management thread: where, on which slot, for which stream
  timer,        \* the timer callback: where, its copy of Ordered
  \* History variables, read by no action
  leaked        \* an add failed after it had acquired a slot

slotVars == <<Active, ReaderCount, Initialized, Info>>
vars == <<slotVars, Ordered, op, timer, leaked>>

\* Mutant: as many slots as streams.
SlotsPerNIC_Single == MAX_SOURCE_STREAMS

\* "double the size because remove/add all stream, we potentially need object
\* that are being use"
SlotsPerNIC == MAX_SOURCE_STREAMS * 2

Slots == 1 .. SlotsPerNIC * Cardinality(NICs)
NICId(s) == IF s <= SlotsPerNIC THEN 0 ELSE 1
NULL == 0
NoInfo == [id |-> 0, ch |-> 0]

IdleOp == [pc |-> "idle", slot |-> NULL, info |-> NoInfo, all |-> FALSE]
IdleTimer == [pc |-> "idle", list |-> <<>>]

\* The management thread is inside a critical section of m_csSourceRTPStreams.
SourceLocked == op.pc # "idle"

TypeOK ==
  /\ Active \in [Slots -> BOOLEAN]
  /\ ReaderCount \in [Slots -> 0 .. 1]
  /\ Initialized \in [Slots -> BOOLEAN]
  /\ Info \in [Slots -> Streams \cup {NoInfo}]
  /\ Ordered \in Seq(Slots)
  /\ op \in [pc : {"idle", "create", "insert", "release", "cleanup", "destroy",
                   "clear", "clear_info"},
             slot : Slots \cup {NULL}, info : Streams \cup {NoInfo}, all : BOOLEAN]
  /\ timer \in [pc : {"idle", "prepare", "leave", "cleanup", "destroy", "clear",
                      "clear_info", "frame", "send"},
                list : Seq(Slots)]
  /\ leaked \in BOOLEAN

\* init_
Init ==
  /\ Active = [s \in Slots |-> FALSE] /\ ReaderCount = [s \in Slots |-> 0]
  /\ Initialized = [s \in Slots |-> FALSE]
  /\ Info = [s \in Slots |-> NoInfo]
  /\ Ordered = <<>>
  /\ op = IdleOp /\ timer = IdleTimer
  /\ leaked = FALSE

\* Mutant: a slot that is being read counts as free.
IsFree_IgnoresReaders(s) == ~Active[s]

IsFree(s) == ~Active[s] /\ ReaderCount[s] = 0

InOrdered(s) == \E i \in DOMAIN Ordered : Ordered[i] = s

-----------------------------------------------------------------------------
(* add_RTP_stream_ of a source                                             *)

FreeSlots(nic) == {s \in Slots : NICId(s) = nic /\ IsFree(s)}

\* The first free slot of the NIC is acquired; without one the call fails.
AddAcquire(nic, info) ==
  /\ op.pc = "idle"
  /\ \A i \in DOMAIN Ordered : ~(NICId(Ordered[i]) = nic /\ Info[Ordered[i]].id = info.id)
  /\ FreeSlots(nic) # {}
  /\ LET s == CHOOSE f \in FreeSlots(nic) : \A g \in FreeSlots(nic) : f <= g
     IN /\ Active' = [Active EXCEPT ![s] = TRUE]
        /\ op' = [IdleOp EXCEPT !.pc = "create", !.slot = s, !.info = info]
  /\ UNCHANGED <<ReaderCount, Initialized, Info, Ordered, timer, leaked>>

\* Create; when it fails the slot stays active.  It fails on a stream that is
\* still initialized and, with the new info already copied, on a stream whose
\* codec or routing it cannot use.
AddCreate ==
  /\ op.pc = "create"
  /\ \/ /\ ~Initialized[op.slot]
        /\ Initialized' = [Initialized EXCEPT ![op.slot] = TRUE]
        /\ Info' = [Info EXCEPT ![op.slot] = op.info]
        /\ op' = [op EXCEPT !.pc = "insert", !.info = NoInfo]
        /\ UNCHANGED leaked
     \/ /\ ~Initialized[op.slot] /\ CreateFailures
        /\ Info' = [Info EXCEPT ![op.slot] = op.info]
        /\ op' = IdleOp /\ leaked' = TRUE
        /\ UNCHANGED Initialized
     \/ /\ Initialized[op.slot]
        /\ op' = IdleOp /\ leaked' = TRUE
        /\ UNCHANGED <<Initialized, Info>>
  /\ UNCHANGED <<Active, ReaderCount, Ordered, timer>>

\* Where a new stream goes: before the first listed one that has fewer channels.
InsertPos(s) ==
  LET fewer == {i \in DOMAIN Ordered : Info[s].ch > Info[Ordered[i]].ch}
  IN IF fewer = {} THEN Len(Ordered) + 1
     ELSE CHOOSE i \in fewer : \A j \in fewer : i <= j

\* The rest of the call: it fails with the slot active and initialized when the
\* list is full.  (Module RTPSourcePairs adds what attached_stream does here.)
AddInsert ==
  /\ op.pc = "insert" /\ op' = IdleOp
  /\ \/ /\ Len(Ordered) = MAX_SOURCE_STREAMS
        /\ leaked' = TRUE /\ UNCHANGED Ordered
     \/ /\ Len(Ordered) # MAX_SOURCE_STREAMS
        /\ Ordered' = InsertAt(Ordered, InsertPos(op.slot), op.slot)
        /\ UNCHANGED leaked
  /\ UNCHANGED <<Active, ReaderCount, Initialized, Info, timer>>

-----------------------------------------------------------------------------
(* Cleanup and Destroy, from Release and from ReaderLeave                  *)

\* Destroy is left at once when the stream is not initialized; then its buffers
\* and the flag are cleared, and last, in rtp_stream_destroy, its info.
ClearLives(s) == Initialized' = [Initialized EXCEPT ![s] = FALSE]

ClearInfo(s) == Info' = [Info EXCEPT ![s] = NoInfo]

\* The end of a Release: of the call, or on to the next slot.
Released ==
  op' = IF op.all /\ op.slot + 1 \in Slots
          THEN [op EXCEPT !.pc = "release", !.slot = @ + 1] ELSE IdleOp

-----------------------------------------------------------------------------
(* remove_RTP_stream_ of a source and remove_all_RTP_streams               *)

\* Release, of an active slot only.
ReleaseSlot(s) ==
  op' = IF Active[s] THEN [IdleOp EXCEPT !.pc = "release", !.slot = s] ELSE IdleOp

\* Mutant: the stream is released but stays in the list.
remove_RTP_stream_KeepsListed(i) ==
  /\ op.pc = "idle" /\ \A j \in 1 .. i - 1 : Ordered[j] # Ordered[i]
  /\ ReleaseSlot(Ordered[i])
  /\ UNCHANGED <<slotVars, Ordered, timer, leaked>>

\* The handle of the slot at position i, and at none before it, of the list; any
\* other handle changes nothing here.
remove_RTP_stream(i) ==
  /\ op.pc = "idle" /\ \A j \in 1 .. i - 1 : Ordered[j] # Ordered[i]
  /\ Ordered' = RemoveAt(Ordered, i)
  /\ ReleaseSlot(Ordered[i])
  /\ UNCHANGED <<slotVars, timer, leaked>>

\* Every slot is released, listed or not.
remove_all_RTP_streams ==
  /\ op.pc = "idle"
  /\ Ordered' = <<>>
  /\ op' = [IdleOp EXCEPT !.pc = "release", !.slot = 1, !.all = TRUE]
  /\ UNCHANGED <<slotVars, timer, leaked>>

Release ==
  /\ op.pc = "release" /\ op' = [op EXCEPT !.pc = "cleanup"]
  /\ Active' = [Active EXCEPT ![op.slot] = FALSE]
  /\ UNCHANGED <<ReaderCount, Initialized, Info, Ordered, timer, leaked>>

ReleaseCleanup ==
  /\ op.pc = "cleanup"
  /\ IF IsFree(op.slot) THEN op' = [op EXCEPT !.pc = "destroy"] ELSE Released
  /\ UNCHANGED <<slotVars, Ordered, timer, leaked>>

ReleaseDestroy ==
  /\ \/ /\ op.pc = "destroy"
        /\ IF Initialized[op.slot] THEN op' = [op EXCEPT !.pc = "clear"] ELSE Released
        /\ UNCHANGED <<Initialized, Info>>
     \/ /\ op.pc = "clear" /\ op' = [op EXCEPT !.pc = "clear_info"]
        /\ ClearLives(op.slot) /\ UNCHANGED Info
     \/ /\ op.pc = "clear_info" /\ Released
        /\ ClearInfo(op.slot) /\ UNCHANGED Initialized
  /\ UNCHANGED <<Active, ReaderCount, Ordered, timer, leaked>>

-----------------------------------------------------------------------------
(* prepare_buffer_lives and send_outgoing_packets in the timer callback    *)

\* Mutant: the slots of the copy are not counted as being read.
Snapshot_NoReaderEnter(pc) ==
  /\ ~SourceLocked
  /\ timer' = [pc |-> pc, list |-> Ordered]
  /\ UNCHANGED ReaderCount

\* The copy of the list, and ReaderEnter for each slot in it.
Snapshot(pc) ==
  /\ ~SourceLocked
  /\ timer' = [pc |-> pc, list |-> Ordered]
  /\ ReaderCount' = [s \in Slots |-> ReaderCount[s] + IF InOrdered(s) THEN 1 ELSE 0]

prepare_buffer_lives ==
  /\ timer.pc = "idle" /\ Snapshot("prepare")
  /\ UNCHANGED <<Active, Initialized, Info, Ordered, op, leaked>>

\* The slots that the callback has entered as a reader and works on.  With two NICs
\* SendRTPAudioPackets works on the attached stream of such a slot too, which it
\* has not entered.
Reading(s) == timer.pc \in {"prepare", "send"} /\ s \in {timer.list[i] : i \in DOMAIN timer.list}

\* PrepareBufferLives has run on every stream of the copy (a source keeps no
\* status), and the slots are left one after the other.
PrepareDone ==
  /\ timer.pc = "prepare" /\ timer' = [timer EXCEPT !.pc = "leave"]
  /\ UNCHANGED <<slotVars, Ordered, op, leaked>>

LeftSlot == Head(timer.list)
NextLeave == timer' = [pc |-> "leave", list |-> Tail(timer.list)]

\* Mutant: the last reader does not clean up.
ReaderLeave_NoCleanup ==
  /\ timer.pc = "leave" /\ timer.list # <<>>
  /\ ReaderCount' = [ReaderCount EXCEPT ![LeftSlot] = @ - 1]
  /\ NextLeave
  /\ UNCHANGED <<Active, Initialized, Info, Ordered, op, leaked>>

\* ReaderLeave, without m_csSourceRTPStreams
ReaderLeave ==
  /\ timer.pc = "leave" /\ timer.list # <<>>
  /\ ReaderCount' = [ReaderCount EXCEPT ![LeftSlot] = @ - 1]
  /\ timer' = [timer EXCEPT !.pc = "cleanup"]
  /\ UNCHANGED <<Active, Initialized, Info, Ordered, op, leaked>>

LeaveCleanup ==
  /\ timer.pc = "cleanup"
  /\ IF IsFree(LeftSlot) THEN timer' = [timer EXCEPT !.pc = "destroy"] ELSE NextLeave
  /\ UNCHANGED <<slotVars, Ordered, op, leaked>>

LeaveDestroy ==
  /\ \/ /\ timer.pc = "destroy"
        /\ IF Initialized[LeftSlot] THEN timer' = [timer EXCEPT !.pc = "clear"] ELSE NextLeave
        /\ UNCHANGED <<Initialized, Info>>
     \/ /\ timer.pc = "clear" /\ timer' = [timer EXCEPT !.pc = "clear_info"]
        /\ ClearLives(LeftSlot) /\ UNCHANGED Info
     \/ /\ timer.pc = "clear_info" /\ NextLeave
        /\ ClearInfo(LeftSlot) /\ UNCHANGED Initialized
  /\ UNCHANGED <<Active, ReaderCount, Ordered, op, leaked>>

\* AudioFrameTIC goes on to send only while I/O runs and the clock is locked.
PrepareReturn ==
  /\ timer.pc = "leave" /\ timer.list = <<>>
  /\ \/ timer' = IdleTimer
     \/ timer' = [IdleTimer EXCEPT !.pc = "frame"]
  /\ UNCHANGED <<slotVars, Ordered, op, leaked>>

send_outgoing_packets ==
  /\ timer.pc = "frame" /\ Snapshot("send")
  /\ UNCHANGED <<Active, Initialized, Info, Ordered, op, leaked>>

\* SendRTPAudioPackets has run on every stream of the copy; the slots are left
\* with m_csSourceRTPStreams held.
SendDone ==
  /\ timer.pc = "send" /\ ~SourceLocked
  /\ timer' = IdleTimer
  /\ LET last(s) == Reading(s) /\ ~Active[s] /\ ReaderCount[s] = 1
     IN /\ ReaderCount' = [s \in Slots |-> ReaderCount[s] - IF Reading(s) THEN 1 ELSE 0]
        /\ Initialized' = [s \in Slots |-> Initialized[s] /\ ~last(s)]
        /\ Info' = [s \in Slots |-> IF last(s) /\ Initialized[s] THEN NoInfo ELSE Info[s]]
  /\ UNCHANGED <<Active, Ordered, op, leaked>>

-----------------------------------------------------------------------------
OpStep == AddCreate \/ AddInsert \/ Release \/ ReleaseCleanup \/ ReleaseDestroy

TimerStep ==
  \/ PrepareDone \/ ReaderLeave \/ LeaveCleanup \/ LeaveDestroy \/ PrepareReturn
  \/ send_outgoing_packets \/ SendDone

OpNext ==
  \/ \E nic \in NICs, info \in Streams : AddAcquire(nic, info)
  \/ \E i \in DOMAIN Ordered : remove_RTP_stream(i)
  \/ remove_all_RTP_streams
  \/ OpStep

TimerNext == prepare_buffer_lives \/ TimerStep

Next == OpNext \/ TimerNext

Spec == Init /\ [][Next]_vars

\* A call or a callback that has begun is finished; none needs to begin.  The
\* spin locks of the kernel are queued: the callback is not passed over for ever
\* when it waits for m_csSourceRTPStreams.
Fairness ==
  /\ WF_vars(OpStep) /\ WF_vars(TimerStep)
  /\ SF_vars(send_outgoing_packets) /\ SF_vars(SendDone)

-----------------------------------------------------------------------------
(* Properties                                                              *)

\* The ordered list holds no slot twice, only active slots, and at most
\* MAX_SOURCE_STREAMS of them: what the copies on the stack of the timer
\* callback have room for.
ListedActive ==
  /\ Len(Ordered) <= MAX_SOURCE_STREAMS
  /\ \A i, j \in DOMAIN Ordered : Ordered[i] = Ordered[j] => i = j
  /\ \A i \in DOMAIN Ordered : Active[Ordered[i]]

\* No step creates or destroys the stream of a slot that the timer callback has
\* entered as a reader and is working on, although it works on it with no lock held
\* and streams may be removed and added meanwhile.  With one NIC these are all the
\* slots it works on.
ReadStreamStable ==
  [][\A s \in Slots : Reading(s) /\ Reading(s)' =>
       Initialized'[s] = Initialized[s] /\ Info'[s] = Info[s]]_vars

\* With neither actor at work, the stream of a slot that is free to be acquired
\* was destroyed, by whichever of Release and ReaderLeave came last: Create
\* will not find it initialized.
FreeIsDestroyed ==
  op.pc = "idle" /\ timer.pc = "idle" =>
    \A s \in Slots : IsFree(s) => ~Initialized[s]

\* As long as no add has failed half way there is a free slot of each NIC for
\* every stream the list has room for, even while all the slots of a former
\* list are still being read.
SlotsSuffice ==
  ~leaked /\ op.pc = "idle" /\ Len(Ordered) < MAX_SOURCE_STREAMS =>
    \A nic \in NICs : FreeSlots(nic) # {}

\* A stream that was removed is destroyed in the end, even one that was in use,
\* unless its slot is taken again.
RemovedIsDestroyed == \A s \in Slots : ~Active[s] ~> (~Initialized[s] \/ Active[s])

\* No add takes the slot that ReaderLeave, having found it free, is about to destroy.
\* Not guaranteed by the code, since the two hold different locks.
NotRetaken ==
  timer.pc \in {"destroy", "clear", "clear_info"} => ~Active[LeftSlot]

\* "the caller guarantees that: the object is properly initialized": the streams
\* that send_outgoing_packets hands to SendRTPAudioPackets are.  Does not hold:
\* ReaderLeave in prepare_buffer_lives, without m_csSourceRTPStreams, may destroy
\* the stream that was just created in the slot it leaves.
SentInitialized ==
  timer.pc = "send" =>
    \A i \in DOMAIN timer.list : Initialized[timer.list[i]] /\ Info[timer.list[i]] # NoInfo
=============================================================================
