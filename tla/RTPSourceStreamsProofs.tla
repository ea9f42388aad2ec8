----------------------- MODULE RTPSourceStreamsProofs -----------------------
(* Proofs about RTPSourceStreams: for any number of streams, one NIC or two,  *)
(* and any set of streams the Butler adds.                                    *)
EXTENDS RTPSourceStreams, FiniteSetTheorems, SequenceTheorems, WellFoundedInduction, TLAPS

USE DEF vars, slotVars

-----------------------------------------------------------------------------
(* Slots and lists                                                            *)

\* There are as many slots as both NICs need.
LEMMA SlotsInterval ==
  /\ SlotsPerNIC \in Nat \ {0}
  /\ \/ NICs = {0} /\ Slots = 1 .. SlotsPerNIC
     \/ NICs = {0, 1} /\ Slots = 1 .. 2 * SlotsPerNIC
<1>1. SlotsPerNIC \in Nat \ {0}
  BY MaxAssumption DEF SlotsPerNIC
<1>2. NICs = {0} \/ NICs = {0, 1}
  BY NICsAssumption
<1>3. CASE NICs = {0}
  <2>1. Cardinality(NICs) = 1
    BY <1>3, FS_Singleton, Zenon
  <2>2. SlotsPerNIC * 1 = SlotsPerNIC
    BY <1>1
  <2>3. QED
    BY <1>1, <1>3, <2>1, <2>2, Zenon DEF Slots
<1>4. CASE NICs = {0, 1}
  <2>1. NICs = {0} \cup {1}
    BY <1>4
  <2>2. IsFiniteSet({0}) /\ Cardinality({0}) = 1
    BY FS_Singleton, Zenon
  <2>3. Cardinality({0} \cup {1}) = IF 1 \in {0} THEN Cardinality({0}) ELSE Cardinality({0}) + 1
    BY <2>2, FS_AddElement
  <2>4. SlotsPerNIC * 2 = 2 * SlotsPerNIC
    BY <1>1
  <2>5. Cardinality({0} \cup {1}) = 2
    BY <2>2, <2>3
  <2>6. Cardinality(NICs) = 2
    BY <2>1, <2>5, Zenon
  <2>7. QED
    BY <1>1, <1>4, <2>4, <2>6, Zenon DEF Slots
<1>5. QED
  BY <1>1, <1>2, <1>3, <1>4, Zenon

\* What the proofs use of it: the slots are numbered from 1 on.
LEMMA SlotsCounted == \E n \in Nat \ {0} : Slots = 1 .. n
<1>1. CASE NICs = {0} /\ Slots = 1 .. SlotsPerNIC
  BY <1>1, SlotsInterval
<1>2. CASE NICs = {0, 1} /\ Slots = 1 .. 2 * SlotsPerNIC
  <2>1. 2 * SlotsPerNIC \in Nat \ {0}
    BY SlotsInterval
  <2>2. QED
    BY <1>2, <2>1
<1>3. QED
  BY <1>1, <1>2, SlotsInterval

\* Removing an element closes the gap.
LEMMA RemoveAtFacts ==
  ASSUME NEW S, NEW q \in Seq(S), NEW i \in 1 .. Len(q)
  PROVE  /\ RemoveAt(q, i) \in Seq(S)
         /\ Len(RemoveAt(q, i)) = Len(q) - 1
         /\ \A j \in 1 .. Len(q) - 1 : RemoveAt(q, i)[j] = IF j < i THEN q[j] ELSE q[j + 1]
<1> DEFINE a == SubSeq(q, 1, i - 1)
           b == SubSeq(q, i + 1, Len(q))
<1>1. Len(q) \in Nat /\ \A j \in 1 .. Len(q) : q[j] \in S
  BY LenProperties, ElementOfSeq
<1>2. /\ a \in Seq(S) /\ Len(a) = i - 1
      /\ \A j \in 1 .. i - 1 : a[j] = q[j]
  BY <1>1, SubSeqProperties
<1>3. /\ b \in Seq(S) /\ Len(b) = Len(q) - i
      /\ \A j \in 1 .. Len(q) - i : b[j] = q[i + j]
  <2>1. \A j \in i + 1 .. Len(q) : q[j] \in S
    BY <1>1
  <2>2. /\ b \in Seq(S) /\ Len(b) = IF i + 1 <= Len(q) THEN Len(q) - (i + 1) + 1 ELSE 0
        /\ \A j \in 1 .. Len(q) - (i + 1) + 1 : b[j] = q[i + 1 + j - 1]
    BY <1>1, <2>1, SubSeqProperties
  <2>3. QED
    BY <1>1, <2>2
<1> HIDE DEF a, b
<1>4. /\ a \o b \in Seq(S) /\ Len(a \o b) = Len(a) + Len(b)
      /\ \A j \in 1 .. Len(a) + Len(b) : (a \o b)[j] = IF j <= Len(a) THEN a[j] ELSE b[j - Len(a)]
  BY <1>2, <1>3, ConcatProperties
<1>5. ASSUME NEW j \in 1 .. Len(q) - 1
      PROVE  (a \o b)[j] = IF j < i THEN q[j] ELSE q[j + 1]
  <2>1. j \in 1 .. Len(a) + Len(b)
    BY <1>1, <1>2, <1>3
  <2>2. CASE j < i
    BY <1>2, <1>4, <2>1, <2>2
  <2>3. CASE ~(j < i)
    <3>1. j - (i - 1) \in 1 .. Len(q) - i /\ i + (j - (i - 1)) = j + 1 /\ ~(j <= Len(a))
      BY <1>1, <1>2, <2>3
    <3>2. (a \o b)[j] = b[j - (i - 1)]
      BY <1>2, <1>4, <2>1, <3>1
    <3>3. b[j - (i - 1)] = q[j + 1]
      BY <1>3, <3>1
    <3>4. QED
      BY <2>3, <3>2, <3>3, Zenon
  <2>4. QED
    BY <2>2, <2>3, Zenon
<1>6. RemoveAt(q, i) = a \o b
  BY DEF RemoveAt, a, b
<1>7. QED
  BY <1>1, <1>2, <1>3, <1>4, <1>5, <1>6

\* Inserting one moves the others up.
LEMMA InsertAtFacts ==
  ASSUME NEW S, NEW q \in Seq(S), NEW i \in 1 .. Len(q) + 1, NEW e \in S
  PROVE  /\ InsertAt(q, i, e) \in Seq(S)
         /\ Len(InsertAt(q, i, e)) = Len(q) + 1
         /\ \A j \in 1 .. Len(q) + 1 :
              InsertAt(q, i, e)[j] = IF j < i THEN q[j] ELSE IF j = i THEN e ELSE q[j - 1]
<1> DEFINE a == SubSeq(q, 1, i - 1)
           b == SubSeq(q, i, Len(q))
           c == a \o <<e>>
<1>1. Len(q) \in Nat /\ \A j \in 1 .. Len(q) : q[j] \in S
  BY LenProperties, ElementOfSeq
<1>2. /\ a \in Seq(S) /\ Len(a) = i - 1
      /\ \A j \in 1 .. i - 1 : a[j] = q[j]
  BY <1>1, SubSeqProperties
<1>3. /\ b \in Seq(S) /\ Len(b) = Len(q) - i + 1
      /\ \A j \in 1 .. Len(q) - i + 1 : b[j] = q[i + j - 1]
  <2>1. \A j \in i .. Len(q) : q[j] \in S
    BY <1>1
  <2>2. /\ b \in Seq(S) /\ Len(b) = IF i <= Len(q) THEN Len(q) - i + 1 ELSE 0
        /\ \A j \in 1 .. Len(q) - i + 1 : b[j] = q[i + j - 1]
    BY <1>1, <2>1, SubSeqProperties
  <2>3. QED
    BY <1>1, <2>2
<1>4. /\ c \in Seq(S) /\ Len(c) = i
      /\ \A j \in 1 .. i : c[j] = IF j < i THEN q[j] ELSE e
  <2> HIDE DEF a
  <2>1. <<e>> \in Seq(S) /\ Len(<<e>>) = 1 /\ <<e>>[1] = e
    OBVIOUS
  <2>2. /\ c \in Seq(S) /\ Len(c) = Len(a) + Len(<<e>>)
        /\ \A j \in 1 .. Len(a) + Len(<<e>>) : c[j] = IF j <= Len(a) THEN a[j] ELSE <<e>>[j - Len(a)]
    BY <1>2, <2>1, ConcatProperties
  <2>3. QED
    BY <1>1, <1>2, <2>1, <2>2
<1> HIDE DEF a, b, c
<1>5. /\ c \o b \in Seq(S) /\ Len(c \o b) = Len(c) + Len(b)
      /\ \A j \in 1 .. Len(c) + Len(b) : (c \o b)[j] = IF j <= Len(c) THEN c[j] ELSE b[j - Len(c)]
  BY <1>3, <1>4, ConcatProperties
<1>6. \A j \in 1 .. Len(q) + 1 :
        (c \o b)[j] = IF j < i THEN q[j] ELSE IF j = i THEN e ELSE q[j - 1]
  BY <1>1, <1>3, <1>4, <1>5
<1>7. InsertAt(q, i, e) = c \o b
  BY DEF InsertAt, a, b, c
<1>8. QED
  BY <1>1, <1>3, <1>4, <1>5, <1>6, <1>7

\* Of numbers there is a least one.
LEMMA FirstOf ==
  ASSUME NEW T \in SUBSET Nat, T # {}
  PROVE  \E i \in T : \A j \in T : i <= j
<1> DEFINE R == {ss \in Nat \X Nat : ss[1] < ss[2]}
<1>1. IsWellFoundedOn(R, Nat)
  BY NatLessThanWellFounded, Zenon DEF OpToRel
<1>2. PICK i \in T : \A j \in T : <<j, i>> \notin R
  <2> HIDE DEF R
  <2>1. QED
    BY <1>1, WFMin
<1>3. ASSUME NEW j \in T PROVE i <= j
  <2>1. j \in Nat /\ i \in Nat /\ <<j, i>>[1] = j /\ <<j, i>>[2] = i
    OBVIOUS
  <2>2. ~(<<j, i>>[1] < <<j, i>>[2])
    BY <1>2, <2>1, Zenon
  <2>3. QED
    BY <2>1, <2>2
<1>4. QED
  BY <1>3

\* A new stream goes somewhere into the list.
LEMMA InsertPosFacts ==
  ASSUME Ordered \in Seq(Slots), NEW s \in Slots
  PROVE  InsertPos(s) \in 1 .. Len(Ordered) + 1
<1> DEFINE fewer == {i \in DOMAIN Ordered : Info[s].ch > Info[Ordered[i]].ch}
<1>1. Len(Ordered) \in Nat /\ DOMAIN Ordered = 1 .. Len(Ordered)
  BY LenProperties
<1>2. CASE fewer = {}
  BY <1>1, <1>2 DEF InsertPos
<1>3. CASE fewer # {}
  <2> HIDE DEF fewer
  <2>1. fewer \subseteq 1 .. Len(Ordered)
    BY <1>1 DEF fewer
  <2>2. \E i \in fewer : \A j \in fewer : i <= j
    BY <1>3, <2>1, FirstOf
  <2>3. (CHOOSE i \in fewer : \A j \in fewer : i <= j) \in fewer
    BY <2>2
  <2>4. InsertPos(s) = CHOOSE i \in fewer : \A j \in fewer : i <= j
    BY <1>3 DEF InsertPos, fewer
  <2>5. InsertPos(s) \in 1 .. Len(Ordered)
    BY <2>1, <2>3, <2>4, Zenon
  <2>6. QED
    BY <1>1, <2>5
<1>4. QED
  BY <1>2, <1>3

-----------------------------------------------------------------------------
(* The inductive invariant                                                    *)

\* The timer callback has left the first slot of its copy.
LeavePcs == {"cleanup", "destroy", "clear", "clear_info"}

\* The timer callback counts as a reader of slot s.
Held(s) ==
  \E i \in DOMAIN timer.list : timer.list[i] = s /\ (timer.pc \in LeavePcs => i > 1)

\* The copy of the timer callback has no slot twice, and fits.
CopyInv ==
  /\ timer.pc \in {"idle", "frame"} => timer.list = <<>>
  /\ timer.pc \in LeavePcs => timer.list # <<>>
  /\ Len(timer.list) <= MAX_SOURCE_STREAMS
  /\ \A i, j \in DOMAIN timer.list : timer.list[i] = timer.list[j] => i = j

\* The readers of a slot: the timer callback, once.
ReaderInv == \A s \in Slots : ReaderCount[s] = IF Held(s) THEN 1 ELSE 0

\* The slot the management thread works on is not listed, and nobody reads it while it
\* is created or destroyed.
OpInv ==
  /\ op.pc = "idle" => op = IdleOp
  /\ op.pc # "idle" => op.slot \in Slots /\ ~InOrdered(op.slot)
  /\ op.all => Ordered = <<>>
  /\ op.pc \in {"create", "insert"} => Active[op.slot] /\ ~op.all
  /\ op.pc \in {"create", "insert", "destroy", "clear", "clear_info"} => ReaderCount[op.slot] = 0

\* Whoever made the slot free is about to destroy its stream.
DestroyInv ==
  \A s \in Slots : IsFree(s) /\ Initialized[s] =>
    \/ op.slot = s /\ op.pc \in {"cleanup", "destroy", "clear"}
    \/ timer.pc \in {"cleanup", "destroy", "clear"} /\ LeftSlot = s

\* An active slot that is not listed is being added or removed, if no add has failed.
ActiveInv ==
  ~leaked => \A s \in Slots : Active[s] =>
    \/ InOrdered(s)
    \/ op.slot = s /\ op.pc \in {"create", "insert", "release"}
    \/ op.all /\ s > op.slot

Inv ==
  /\ TypeOK /\ ListedActive /\ CopyInv /\ ReaderInv /\ OpInv /\ DestroyInv
  /\ ActiveInv

-----------------------------------------------------------------------------
(* What the actions of one actor leave alone                                  *)

\* An action of the management thread does not touch the copy and its readers.
LEMMA OpFrame ==
  ASSUME Inv, UNCHANGED <<timer, ReaderCount>>
  PROVE  CopyInv' /\ ReaderInv'
BY DEF Inv, CopyInv, ReaderInv, Held

\* An action of the timer callback does not touch the list, and does not begin to read
\* a slot while the management thread holds m_csSourceRTPStreams.
LEMMA TimerFrame ==
  ASSUME Inv, UNCHANGED <<Active, Ordered, op, leaked>>,
         op.pc # "idle" => \A s \in Slots : ReaderCount[s] = 0 => ReaderCount'[s] = 0
  PROVE  ListedActive' /\ OpInv' /\ ActiveInv'
<1>1. ListedActive' /\ ActiveInv'
  BY DEF Inv, ListedActive, ActiveInv, InOrdered
<1>2. OpInv'
  BY DEF Inv, OpInv, InOrdered
<1>3. QED
  BY <1>1, <1>2

\* The end of the Release of a slot that is no longer active or was never listed.
LEMMA ReleasedFacts ==
  ASSUME Inv, op.pc \in LeavePcs, Released, UNCHANGED <<Active, Ordered, leaked>>
  PROVE  /\ op' \in [pc : {"idle", "release"}, slot : Slots \cup {NULL},
                     info : Streams \cup {NoInfo}, all : BOOLEAN]
         /\ OpInv' /\ ActiveInv'
<1>1. op \in [pc : {"idle", "create", "insert", "release", "cleanup", "destroy",
                   "clear", "clear_info"},
              slot : Slots \cup {NULL}, info : Streams \cup {NoInfo}, all : BOOLEAN]
  BY DEF Inv, TypeOK
<1>2. CASE op.all /\ op.slot + 1 \in Slots
  <2>1. op' = [op EXCEPT !.pc = "release", !.slot = op.slot + 1]
    BY <1>2 DEF Released
  <2>2. /\ op'.pc = "release" /\ op'.slot = op.slot + 1 /\ op'.all = op.all /\ op'.info = op.info
        /\ op' \in [pc : {"idle", "release"}, slot : Slots \cup {NULL},
                    info : Streams \cup {NoInfo}, all : BOOLEAN]
    BY <1>1, <1>2, <2>1
  <2>3. OpInv'
    BY <1>2, <2>2 DEF Inv, OpInv, InOrdered
  <2>4. ActiveInv'
    <3> SUFFICES ASSUME ~leaked, NEW s \in Slots, Active[s]
                 PROVE  s >= op.slot + 1
      BY <1>2, <2>2, SlotsCounted DEF ActiveInv, InOrdered
    <3>1. op.slot \in Slots /\ Ordered = <<>>
      BY <1>2 DEF Inv, OpInv, LeavePcs
    <3>2. s > op.slot
      BY <3>1 DEF Inv, ActiveInv, InOrdered, LeavePcs
    <3>3. QED
      BY <3>1, <3>2, SlotsCounted
  <2>5. QED
    BY <2>2, <2>3, <2>4
<1>3. CASE ~(op.all /\ op.slot + 1 \in Slots)
  <2>1. op' = IdleOp
    BY <1>3, Zenon DEF Released
  <2>2. OpInv' /\ op' \in [pc : {"idle", "release"}, slot : Slots \cup {NULL},
                           info : Streams \cup {NoInfo}, all : BOOLEAN]
    BY <2>1 DEF OpInv, IdleOp
  <2>3. ActiveInv'
    <3> SUFFICES ASSUME ~leaked, NEW s \in Slots, Active[s]
                 PROVE  InOrdered(s)
      BY DEF ActiveInv, InOrdered
    <3>1. InOrdered(s) \/ (op.all /\ s > op.slot)
      BY DEF Inv, ActiveInv, LeavePcs
    <3>2. op.slot \in Slots
      BY DEF Inv, OpInv, LeavePcs
    <3>3. op.all => ~(s > op.slot)
      BY <1>3, <3>2, SlotsCounted
    <3>4. QED
      BY <3>1, <3>3
  <2>4. QED
    BY <2>2, <2>3
<1>4. QED
  BY <1>2, <1>3

-----------------------------------------------------------------------------
(* The management thread                                                      *)

\* add_RTP_stream_ takes a free slot, which is neither listed nor read.
LEMMA AcquireInv ==
  ASSUME Inv, NEW nic \in NICs, NEW info \in Streams, AddAcquire(nic, info)
  PROVE  Inv'
<1>1. PICK s \in FreeSlots(nic) :
        /\ Active' = [Active EXCEPT ![s] = TRUE]
        /\ op' = [IdleOp EXCEPT !.pc = "create", !.slot = s, !.info = info]
  <2>1. FreeSlots(nic) \in SUBSET Nat
    BY SlotsCounted DEF FreeSlots
  <2>2. \E f \in FreeSlots(nic) : \A g \in FreeSlots(nic) : f <= g
    BY <2>1, FirstOf DEF AddAcquire
  <2>3. QED
    BY <2>2 DEF AddAcquire
<1>2. s \in Slots /\ ~Active[s] /\ ReaderCount[s] = 0
  BY <1>1 DEF FreeSlots, IsFree
<1>3. /\ Active' = [Active EXCEPT ![s] = TRUE]
      /\ UNCHANGED <<ReaderCount, Initialized, Info, Ordered, timer, leaked>>
      /\ op.pc = "idle"
  BY <1>1 DEF AddAcquire
<1>4. op' = [pc |-> "create", slot |-> s, info |-> info, all |-> FALSE]
  BY <1>1 DEF IdleOp
<1>5. ~InOrdered(s)
  BY <1>2 DEF Inv, ListedActive, InOrdered
<1>6. op = IdleOp
  BY <1>3 DEF Inv, OpInv
<1>7. TypeOK'
  <2>1. op' \in [pc : {"create"}, slot : Slots, info : Streams, all : BOOLEAN]
    BY <1>2, <1>4
  <2>2. Active' \in [Slots -> BOOLEAN]
    BY <1>2, <1>3 DEF Inv, TypeOK
  <2>3. QED
    BY <1>3, <2>1, <2>2 DEF Inv, TypeOK
<1>8. ListedActive'
  BY <1>2, <1>3 DEF Inv, ListedActive, TypeOK
<1>9. OpInv'
  <2>1. op'.pc = "create" /\ op'.slot = s /\ op'.all = FALSE
    BY <1>4
  <2>2. Active'[s] /\ ReaderCount'[s] = 0 /\ ~InOrdered(s)'
    BY <1>2, <1>3, <1>5 DEF Inv, TypeOK, InOrdered
  <2>3. QED
    BY <1>2, <2>1, <2>2 DEF OpInv, InOrdered
<1>10. DestroyInv'
  BY <1>2, <1>3, <1>6 DEF Inv, DestroyInv, IsFree, LeftSlot, TypeOK, IdleOp
<1>11. ActiveInv'
  BY <1>2, <1>3, <1>4, <1>6 DEF Inv, ActiveInv, InOrdered, TypeOK, IdleOp
<1>12. CopyInv' /\ ReaderInv'
  BY <1>3, OpFrame
<1>13. QED
  BY <1>7, <1>8, <1>9, <1>10, <1>11, <1>12 DEF Inv

\* Create works on a slot that is active, not listed and not read.
LEMMA CreateInv ==
  ASSUME Inv, AddCreate
  PROVE  Inv'
<1>1. /\ op.pc = "create" /\ op.slot \in Slots /\ ~InOrdered(op.slot) /\ Active[op.slot]
      /\ ReaderCount[op.slot] = 0 /\ ~op.all
      /\ UNCHANGED <<Active, ReaderCount, Ordered, timer>>
  BY DEF Inv, OpInv, AddCreate
<1>2. CopyInv' /\ ReaderInv'
  BY <1>1, OpFrame
<1>3. ListedActive'
  BY <1>1 DEF Inv, ListedActive
<1>4. \/ op' = [op EXCEPT !.pc = "insert", !.info = NoInfo] /\ leaked' = leaked
      \/ op' = IdleOp /\ leaked' = TRUE
  BY DEF AddCreate
<1>5. /\ Initialized' \in [Slots -> BOOLEAN] /\ Info' \in [Slots -> Streams \cup {NoInfo}]
      /\ \A s \in Slots : Initialized'[s] /\ ~Active[s] => Initialized[s]
  <2>1. op.info \in Streams \cup {NoInfo}
    BY DEF Inv, TypeOK
  <2>2. Info' = Info \/ Info' = [Info EXCEPT ![op.slot] = op.info]
    BY DEF AddCreate
  <2>3. Initialized' = Initialized \/ Initialized' = [Initialized EXCEPT ![op.slot] = TRUE]
    BY DEF AddCreate
  <2>4. QED
    BY <1>1, <2>1, <2>2, <2>3 DEF Inv, TypeOK
<1>6. CASE op' = [op EXCEPT !.pc = "insert", !.info = NoInfo] /\ leaked' = leaked
  <2>1. /\ op'.pc = "insert" /\ op'.slot = op.slot /\ op'.all = op.all
        /\ op' \in [pc : {"insert"}, slot : Slots, info : {NoInfo}, all : BOOLEAN]
    BY <1>1, <1>6 DEF Inv, TypeOK
  <2>2. TypeOK'
    BY <1>1, <1>5, <1>6, <2>1 DEF Inv, TypeOK
  <2>3. OpInv'
    BY <1>1, <2>1 DEF Inv, OpInv, InOrdered
  <2>4. DestroyInv'
    BY <1>1, <1>5, <2>1 DEF Inv, DestroyInv, IsFree, LeftSlot
  <2>5. ActiveInv'
    BY <1>1, <1>6, <2>1 DEF Inv, ActiveInv, InOrdered
  <2>6. QED
    BY <1>2, <1>3, <2>2, <2>3, <2>4, <2>5 DEF Inv
<1>7. CASE op' = IdleOp /\ leaked' = TRUE
  <2>1. TypeOK'
    BY <1>1, <1>5, <1>7 DEF Inv, TypeOK, IdleOp
  <2>2. OpInv'
    BY <1>7 DEF OpInv, IdleOp
  <2>3. DestroyInv'
    BY <1>1, <1>5, <1>7 DEF Inv, DestroyInv, IsFree, LeftSlot, IdleOp
  <2>4. ActiveInv'
    BY <1>7 DEF ActiveInv
  <2>5. QED
    BY <1>2, <1>3, <2>1, <2>2, <2>3, <2>4 DEF Inv
<1>8. QED
  BY <1>4, <1>6, <1>7

\* The new stream enters the list once, and only while there is room for it.
LEMMA InsertInv ==
  ASSUME Inv, AddInsert
  PROVE  Inv'
<1>1. /\ op.pc = "insert" /\ op.slot \in Slots /\ ~InOrdered(op.slot) /\ Active[op.slot]
      /\ ~op.all /\ op' = IdleOp
      /\ UNCHANGED <<Active, ReaderCount, Initialized, Info, timer>>
  BY DEF Inv, OpInv, AddInsert
<1>2. CopyInv' /\ ReaderInv'
  BY <1>1, OpFrame
<1>3. OpInv'
  BY <1>1 DEF OpInv, IdleOp
<1>4. DestroyInv'
  BY <1>1 DEF Inv, DestroyInv, IsFree, LeftSlot, IdleOp
<1>5. CASE leaked' = TRUE /\ Ordered' = Ordered
  <2>1. TypeOK'
    BY <1>1, <1>5 DEF Inv, TypeOK, IdleOp
  <2>2. ListedActive' /\ ActiveInv'
    BY <1>1, <1>5 DEF Inv, ListedActive, ActiveInv
  <2>3. QED
    BY <1>2, <1>3, <1>4, <2>1, <2>2 DEF Inv
<1>6. CASE /\ Len(Ordered) # MAX_SOURCE_STREAMS /\ leaked' = leaked
           /\ Ordered' = InsertAt(Ordered, InsertPos(op.slot), op.slot)
  <2> DEFINE p == InsertPos(op.slot)
  <2>1. Ordered \in Seq(Slots) /\ Len(Ordered) \in Nat /\ DOMAIN Ordered = 1 .. Len(Ordered)
    BY LenProperties DEF Inv, TypeOK
  <2>2. p \in 1 .. Len(Ordered) + 1
    BY <1>1, <2>1, InsertPosFacts
  <2> HIDE DEF p
  <2>3. /\ Ordered' \in Seq(Slots) /\ Len(Ordered') = Len(Ordered) + 1
        /\ \A j \in 1 .. Len(Ordered) + 1 :
             Ordered'[j] = IF j < p THEN Ordered[j] ELSE IF j = p THEN op.slot ELSE Ordered[j - 1]
    <3>1. Ordered' = InsertAt(Ordered, p, op.slot)
      BY <1>6 DEF p
    <3>2. /\ InsertAt(Ordered, p, op.slot) \in Seq(Slots)
          /\ Len(InsertAt(Ordered, p, op.slot)) = Len(Ordered) + 1
          /\ \A j \in 1 .. Len(Ordered) + 1 :
               InsertAt(Ordered, p, op.slot)[j] =
                 IF j < p THEN Ordered[j] ELSE IF j = p THEN op.slot ELSE Ordered[j - 1]
      <4>1. Ordered \in Seq(Slots) /\ op.slot \in Slots
        BY <1>1, <2>1
      <4>2. QED
        BY <2>2, <4>1, InsertAtFacts
    <3>3. QED
      BY <3>1, <3>2, Zenon
  <2>4. DOMAIN Ordered' = 1 .. Len(Ordered) + 1
    BY <2>3, LenProperties
  <2>5. TypeOK'
    BY <1>1, <1>6, <2>3 DEF Inv, TypeOK, IdleOp
  <2>6. ListedActive'
    <3>1. Len(Ordered') <= MAX_SOURCE_STREAMS
      BY <1>6, <2>1, <2>3, MaxAssumption DEF Inv, ListedActive
    <3>2. \A j \in DOMAIN Ordered' : Active'[Ordered'[j]]
      BY <1>1, <2>1, <2>2, <2>3, <2>4 DEF Inv, ListedActive
    <3>3. ASSUME NEW i \in DOMAIN Ordered', NEW j \in DOMAIN Ordered', Ordered'[i] = Ordered'[j]
          PROVE  i = j
      <4> DEFINE old(k) == IF k < p THEN k ELSE k - 1
      <4>1. \A k \in DOMAIN Ordered' : k # p =>
              old(k) \in DOMAIN Ordered /\ Ordered'[k] = Ordered[old(k)]
        BY <2>1, <2>2, <2>3, <2>4
      <4>2. \A k \in DOMAIN Ordered' : k # p => Ordered'[k] # op.slot
        BY <1>1, <4>1 DEF InOrdered
      <4>3. Ordered'[p] = op.slot
        BY <2>2, <2>3
      <4>4. (i = p) <=> (j = p)
        BY <3>3, <4>2, <4>3
      <4>5. i # p /\ j # p => old(i) = old(j)
        BY <3>3, <4>1 DEF Inv, ListedActive
      <4>6. QED
        BY <2>1, <2>2, <2>4, <4>4, <4>5
    <3>4. QED
      BY <3>1, <3>2, <3>3 DEF ListedActive
  <2>7. ActiveInv'
    <3>1. ASSUME NEW s \in Slots, InOrdered(s) PROVE InOrdered(s)'
      <4>1. PICK i \in 1 .. Len(Ordered) : Ordered[i] = s
        BY <2>1, <3>1 DEF InOrdered
      <4>2. CASE i < p
        BY <2>1, <2>2, <2>3, <2>4, <4>1, <4>2 DEF InOrdered
      <4>3. CASE i >= p
        <5>1. i + 1 \in 1 .. Len(Ordered) + 1 /\ ~(i + 1 < p) /\ i + 1 # p /\ (i + 1) - 1 = i
          BY <2>1, <2>2, <4>3
        <5>2. Ordered'[i + 1] = s
          BY <2>3, <4>1, <5>1
        <5>3. QED
          BY <2>4, <5>1, <5>2 DEF InOrdered
      <4>4. QED
        BY <2>1, <2>2, <4>2, <4>3
    <3>2. ASSUME NEW s, s = op.slot PROVE InOrdered(s)'
      <4>1. Ordered'[p] = s /\ p \in DOMAIN Ordered'
        BY <2>1, <2>2, <2>3, <2>4, <3>2
      <4>3. QED
        BY <4>1 DEF InOrdered
    <3>3. QED
      BY <1>1, <1>6, <3>1, <3>2 DEF Inv, ActiveInv
  <2>8. QED
    BY <1>2, <1>3, <1>4, <2>5, <2>6, <2>7 DEF Inv
<1>7. QED
  BY <1>5, <1>6 DEF AddInsert

\* remove_RTP_stream_ takes its slot from the list and no other.
LEMMA RemoveInv ==
  ASSUME Inv, NEW i \in DOMAIN Ordered, remove_RTP_stream(i)
  PROVE  Inv'
<1>1. Ordered \in Seq(Slots) /\ Len(Ordered) \in Nat /\ DOMAIN Ordered = 1 .. Len(Ordered)
  BY LenProperties DEF Inv, TypeOK
<1>2. PICK s \in Slots : s = Ordered[i]
  BY <1>1
<1>3. /\ UNCHANGED <<Active, ReaderCount, Initialized, Info, timer, leaked>>
      /\ Ordered' = RemoveAt(Ordered, i) /\ op.pc = "idle"
  BY DEF remove_RTP_stream
<1>4. op' = [pc |-> "release", slot |-> s, info |-> NoInfo, all |-> FALSE]
  <2>1. Active[s]
    BY <1>2 DEF Inv, ListedActive
  <2>2. QED
    BY <1>2, <2>1 DEF remove_RTP_stream, ReleaseSlot, IdleOp
<1>5. /\ Ordered' \in Seq(Slots) /\ Len(Ordered') = Len(Ordered) - 1
      /\ \A j \in 1 .. Len(Ordered) - 1 :
           Ordered'[j] = IF j < i THEN Ordered[j] ELSE Ordered[j + 1]
  <2>1. /\ RemoveAt(Ordered, i) \in Seq(Slots)
        /\ Len(RemoveAt(Ordered, i)) = Len(Ordered) - 1
        /\ \A j \in 1 .. Len(Ordered) - 1 :
             RemoveAt(Ordered, i)[j] = IF j < i THEN Ordered[j] ELSE Ordered[j + 1]
    BY <1>1, RemoveAtFacts
  <2>2. QED
    BY <1>3, <2>1, Zenon
<1>6. DOMAIN Ordered' = 1 .. Len(Ordered) - 1
  BY <1>5, LenProperties
<1> DEFINE old(k) == IF k < i THEN k ELSE k + 1
<1>7. \A k \in DOMAIN Ordered' :
        old(k) \in DOMAIN Ordered /\ old(k) # i /\ Ordered'[k] = Ordered[old(k)]
  BY <1>1, <1>5, <1>6
<1>8. op = IdleOp
  BY <1>3 DEF Inv, OpInv
<1>9. TypeOK'
  <2>1. op' \in [pc : {"release"}, slot : Slots, info : {NoInfo}, all : BOOLEAN]
    BY <1>4
  <2>2. QED
    BY <1>3, <1>5, <2>1 DEF Inv, TypeOK
<1>10. ListedActive'
  <2>1. Len(Ordered') <= MAX_SOURCE_STREAMS
    BY <1>1, <1>5, MaxAssumption DEF Inv, ListedActive
  <2>2. \A k \in DOMAIN Ordered' : Active'[Ordered'[k]]
    BY <1>3, <1>7 DEF Inv, ListedActive
  <2>3. ASSUME NEW k \in DOMAIN Ordered', NEW l \in DOMAIN Ordered', Ordered'[k] = Ordered'[l]
        PROVE  k = l
    <3>1. old(k) = old(l)
      BY <1>7, <2>3 DEF Inv, ListedActive
    <3>2. QED
      BY <1>1, <1>6, <3>1
  <2>4. QED
    BY <2>1, <2>2, <2>3 DEF ListedActive
<1>11. OpInv'
  <2>1. ~InOrdered(s)'
    BY <1>2, <1>7 DEF Inv, ListedActive, InOrdered
  <2>2. op'.pc = "release" /\ op'.slot = s /\ op'.all = FALSE
    BY <1>4
  <2>3. QED
    BY <2>1, <2>2 DEF OpInv, InOrdered
<1>12. DestroyInv'
  BY <1>3, <1>8 DEF Inv, DestroyInv, IsFree, LeftSlot, IdleOp
<1>13. ActiveInv'
  <2>1. ASSUME NEW t \in Slots, InOrdered(t), t # s PROVE InOrdered(t)'
    <3>1. PICK j \in 1 .. Len(Ordered) : Ordered[j] = t
      BY <1>1, <2>1 DEF InOrdered
    <3>2. CASE j < i
      BY <1>1, <1>5, <1>6, <3>1, <3>2 DEF InOrdered
    <3>3. CASE j > i
      <4>1. j - 1 \in 1 .. Len(Ordered) - 1 /\ ~(j - 1 < i) /\ (j - 1) + 1 = j
        BY <1>1, <3>3
      <4>2. Ordered'[j - 1] = t
        BY <1>5, <3>1, <4>1
      <4>3. QED
        BY <1>6, <4>1, <4>2 DEF InOrdered
    <3>4. j # i
      BY <1>2, <2>1, <3>1
    <3>5. QED
      BY <1>1, <3>2, <3>3, <3>4
  <2>2. op'.pc = "release" /\ op'.slot = s
    BY <1>4
  <2>3. QED
    BY <1>3, <1>8, <2>1, <2>2 DEF Inv, ActiveInv, IdleOp
<1>14. CopyInv' /\ ReaderInv'
  BY <1>3, OpFrame
<1>15. QED
  BY <1>9, <1>10, <1>11, <1>12, <1>13, <1>14 DEF Inv

\* remove_all_RTP_streams empties the list and begins with the first slot.
LEMMA RemoveAllInv ==
  ASSUME Inv, remove_all_RTP_streams
  PROVE  Inv'
<1>1. /\ UNCHANGED <<Active, ReaderCount, Initialized, Info, timer, leaked>>
      /\ Ordered' = <<>> /\ op.pc = "idle"
  BY DEF remove_all_RTP_streams
<1>2. op' = [pc |-> "release", slot |-> 1, info |-> NoInfo, all |-> TRUE]
  BY DEF remove_all_RTP_streams, IdleOp
<1>3. op'.pc = "release" /\ op'.slot = 1 /\ op'.all = TRUE
  BY <1>2
<1>4. 1 \in Slots /\ \A s \in Slots : s = 1 \/ s > 1
  BY SlotsCounted
<1>5. op = IdleOp
  BY <1>1 DEF Inv, OpInv
<1>6. TypeOK'
  <2>1. op' \in [pc : {"release"}, slot : Slots, info : {NoInfo}, all : BOOLEAN]
    BY <1>2, <1>4
  <2>2. QED
    BY <1>1, <2>1 DEF Inv, TypeOK
<1>7. ListedActive'
  BY <1>1, MaxAssumption DEF ListedActive
<1>8. OpInv'
  BY <1>1, <1>3, <1>4 DEF OpInv, InOrdered
<1>9. DestroyInv'
  BY <1>1, <1>5 DEF Inv, DestroyInv, IsFree, LeftSlot, IdleOp
<1>10. ActiveInv'
  BY <1>3, <1>4 DEF ActiveInv
<1>11. CopyInv' /\ ReaderInv'
  BY <1>1, OpFrame
<1>12. QED
  BY <1>6, <1>7, <1>8, <1>9, <1>10, <1>11 DEF Inv

\* Release makes a slot inactive that is no longer listed.
LEMMA ReleaseInv ==
  ASSUME Inv, Release
  PROVE  Inv'
<1>1. /\ op.pc = "release" /\ op.slot \in Slots /\ ~InOrdered(op.slot)
      /\ Active' = [Active EXCEPT ![op.slot] = FALSE]
      /\ UNCHANGED <<ReaderCount, Initialized, Info, Ordered, timer, leaked>>
  BY DEF Inv, OpInv, Release
<1>2. /\ op'.pc = "cleanup" /\ op'.slot = op.slot /\ op'.all = op.all
      /\ op' \in [pc : {"cleanup"}, slot : Slots, info : Streams \cup {NoInfo}, all : BOOLEAN]
  BY <1>1 DEF Release, Inv, TypeOK
<1>3. TypeOK'
  <2>1. Active' \in [Slots -> BOOLEAN]
    BY <1>1 DEF Inv, TypeOK
  <2>2. QED
    BY <1>1, <1>2, <2>1 DEF Inv, TypeOK
<1>4. ListedActive'
  BY <1>1 DEF Inv, ListedActive, TypeOK, InOrdered
<1>5. OpInv'
  BY <1>1, <1>2 DEF Inv, OpInv, InOrdered
<1>6. DestroyInv'
  BY <1>1, <1>2 DEF Inv, DestroyInv, IsFree, LeftSlot, TypeOK
<1>7. ActiveInv'
  BY <1>1, <1>2 DEF Inv, ActiveInv, InOrdered, TypeOK
<1>8. CopyInv' /\ ReaderInv'
  BY <1>1, OpFrame
<1>9. QED
  BY <1>3, <1>4, <1>5, <1>6, <1>7, <1>8 DEF Inv

\* Cleanup after Release goes on to Destroy only if nobody reads the slot.
LEMMA ReleaseCleanupInv ==
  ASSUME Inv, ReleaseCleanup
  PROVE  Inv'
<1>1. /\ op.pc = "cleanup" /\ op.slot \in Slots /\ ~InOrdered(op.slot)
      /\ UNCHANGED <<Active, ReaderCount, Initialized, Info, Ordered, timer, leaked>>
  BY DEF Inv, OpInv, ReleaseCleanup
<1>2. ListedActive' /\ CopyInv' /\ ReaderInv'
  BY <1>1, OpFrame DEF Inv, ListedActive
<1>3. CASE IsFree(op.slot)
  <2>1. /\ op'.pc = "destroy" /\ op'.slot = op.slot /\ op'.all = op.all
        /\ op' \in [pc : {"destroy"}, slot : Slots, info : Streams \cup {NoInfo}, all : BOOLEAN]
    BY <1>1, <1>3 DEF ReleaseCleanup, Inv, TypeOK
  <2>2. TypeOK'
    BY <1>1, <2>1 DEF Inv, TypeOK
  <2>3. OpInv'
    BY <1>1, <1>3, <2>1 DEF Inv, OpInv, InOrdered, IsFree
  <2>4. DestroyInv'
    BY <1>1, <2>1 DEF Inv, DestroyInv, IsFree, LeftSlot
  <2>5. ActiveInv'
    BY <1>1, <2>1 DEF Inv, ActiveInv, InOrdered
  <2>6. QED
    BY <1>2, <2>2, <2>3, <2>4, <2>5 DEF Inv
<1>4. CASE ~IsFree(op.slot)
  <2>1. Released
    BY <1>4 DEF ReleaseCleanup
  <2>2. /\ OpInv' /\ ActiveInv'
        /\ op' \in [pc : {"idle", "release"}, slot : Slots \cup {NULL},
                    info : Streams \cup {NoInfo}, all : BOOLEAN]
    BY <1>1, <2>1, ReleasedFacts DEF LeavePcs
  <2>3. TypeOK'
    BY <1>1, <2>2 DEF Inv, TypeOK
  <2>4. DestroyInv'
    BY <1>1, <1>4 DEF Inv, DestroyInv, IsFree, LeftSlot
  <2>5. QED
    BY <1>2, <2>2, <2>3, <2>4 DEF Inv
<1>5. QED
  BY <1>3, <1>4

\* Destroy after Release leaves the slot destroyed.
LEMMA ReleaseDestroyInv ==
  ASSUME Inv, ReleaseDestroy
  PROVE  Inv'
<1>1. /\ op.pc \in {"destroy", "clear", "clear_info"} /\ op.slot \in Slots
      /\ ~InOrdered(op.slot) /\ ReaderCount[op.slot] = 0
      /\ UNCHANGED <<Active, ReaderCount, Ordered, timer, leaked>>
  BY DEF Inv, OpInv, ReleaseDestroy
<1>2. ListedActive' /\ CopyInv' /\ ReaderInv'
  BY <1>1, OpFrame DEF Inv, ListedActive
<1>3. Initialized' \in [Slots -> BOOLEAN] /\ Info' \in [Slots -> Streams \cup {NoInfo}]
  BY <1>1 DEF ReleaseDestroy, ClearLives, ClearInfo, Inv, TypeOK
<1>4. \/ /\ op.pc = "destroy" /\ ~Initialized[op.slot] /\ Released /\ Initialized' = Initialized
      \/ /\ op.pc = "clear_info" /\ Released /\ Initialized' = Initialized
      \/ /\ op.pc = "destroy" /\ op' = [op EXCEPT !.pc = "clear"] /\ Initialized' = Initialized
      \/ /\ op.pc = "clear" /\ op' = [op EXCEPT !.pc = "clear_info"] 
         /\ Initialized' = [Initialized EXCEPT ![op.slot] = FALSE]
  BY DEF ReleaseDestroy, ClearLives
<1>5. CASE /\ Released /\ Initialized' = Initialized
           /\ \/ op.pc = "destroy" /\ ~Initialized[op.slot]
              \/ op.pc = "clear_info"
  <2>1. /\ OpInv' /\ ActiveInv'
        /\ op' \in [pc : {"idle", "release"}, slot : Slots \cup {NULL},
                    info : Streams \cup {NoInfo}, all : BOOLEAN]
    BY <1>1, <1>5, ReleasedFacts DEF LeavePcs
  <2>2. TypeOK'
    BY <1>1, <1>3, <2>1 DEF Inv, TypeOK
  <2>3. DestroyInv'
    BY <1>1, <1>5 DEF Inv, DestroyInv, IsFree, LeftSlot
  <2>4. QED
    BY <1>2, <2>1, <2>2, <2>3 DEF Inv
<1>6. CASE \/ /\ op.pc = "destroy" /\ op' = [op EXCEPT !.pc = "clear"] /\ Initialized' = Initialized
           \/ /\ op.pc = "clear" /\ op' = [op EXCEPT !.pc = "clear_info"] 
              /\ Initialized' = [Initialized EXCEPT ![op.slot] = FALSE]
  <2>1. /\ op'.pc \in {"clear", "clear_info"} /\ op'.slot = op.slot /\ op'.all = op.all
        /\ op' \in [pc : {"clear", "clear_info"}, slot : Slots, info : Streams \cup {NoInfo},
                    all : BOOLEAN]
    BY <1>1, <1>6 DEF Inv, TypeOK
  <2>2. TypeOK'
    BY <1>1, <1>3, <2>1 DEF Inv, TypeOK
  <2>3. OpInv'
    BY <1>1, <2>1 DEF Inv, OpInv, InOrdered
  <2>4. \A s \in Slots : Initialized'[s] => Initialized[s] /\ (s # op.slot \/ op'.pc = "clear")
    BY <1>1, <1>6, <2>1 DEF Inv, TypeOK
  <2>5. DestroyInv'
    BY <1>1, <2>1, <2>4 DEF Inv, DestroyInv, IsFree, LeftSlot
  <2>6. ActiveInv'
    BY <1>1, <2>1 DEF Inv, ActiveInv, InOrdered
  <2>7. QED
    BY <1>2, <2>2, <2>3, <2>5, <2>6 DEF Inv
<1>7. QED
  BY <1>4, <1>5, <1>6

-----------------------------------------------------------------------------
(* The timer callback                                                         *)

TimerPcs == {"idle", "prepare", "leave", "cleanup", "destroy", "clear", "clear_info",
             "frame", "send"}

\* What its copy is, in every state.
LEMMA CopyFacts ==
  ASSUME Inv
  PROVE  /\ timer \in [pc : TimerPcs, list : Seq(Slots)]
         /\ timer.list \in Seq(Slots) /\ Len(timer.list) \in Nat
         /\ DOMAIN timer.list = 1 .. Len(timer.list)
<1>1. timer \in [pc : TimerPcs, list : Seq(Slots)]
  BY DEF Inv, TypeOK, TimerPcs
<1>2. timer.list \in Seq(Slots)
  BY <1>1
<1>3. QED
  BY <1>1, <1>2, LenProperties

\* It goes on with the first slot of its copy: nothing more is left, nothing is held.
LEMMA StayFacts ==
  ASSUME Inv, timer.pc \in LeavePcs, NEW pc \in LeavePcs, timer' = [timer EXCEPT !.pc = pc],
         UNCHANGED ReaderCount
  PROVE  /\ timer' \in [pc : TimerPcs, list : Seq(Slots)]
         /\ CopyInv' /\ ReaderInv' /\ timer'.pc = pc /\ timer'.list = timer.list
<1>1. timer'.pc = pc /\ timer'.list = timer.list
  BY CopyFacts
<1>2. timer' \in [pc : TimerPcs, list : Seq(Slots)]
  BY CopyFacts DEF TimerPcs, LeavePcs
<1>3. CopyInv'
  BY <1>1 DEF Inv, CopyInv, LeavePcs
<1>4. ReaderInv'
  BY <1>1 DEF Inv, ReaderInv, Held
<1>5. QED
  BY <1>1, <1>2, <1>3, <1>4

\* It goes on to the next slot of its copy, having left the first.
LEMMA NextLeaveFacts ==
  ASSUME Inv, timer.pc \in LeavePcs, NextLeave, UNCHANGED ReaderCount
  PROVE  /\ timer' \in [pc : TimerPcs, list : Seq(Slots)]
         /\ CopyInv' /\ ReaderInv' /\ timer'.pc = "leave"
<1> DEFINE l == timer.list
<1>1. l \in Seq(Slots) /\ Len(l) \in Nat /\ DOMAIN l = 1 .. Len(l) /\ l # <<>>
  BY CopyFacts DEF Inv, CopyInv
<1>2. /\ Tail(l) \in Seq(Slots) /\ Len(Tail(l)) = Len(l) - 1
      /\ \A i \in 1 .. Len(l) - 1 : Tail(l)[i] = l[i + 1]
  BY <1>1, HeadTailProperties
<1>3. timer'.pc = "leave" /\ timer'.list = Tail(l)
  BY DEF NextLeave
<1>4. timer' \in [pc : TimerPcs, list : Seq(Slots)]
  BY <1>2 DEF NextLeave, TimerPcs
<1>5. DOMAIN timer'.list = 1 .. Len(l) - 1
  BY <1>2, <1>3, LenProperties
<1>6. CopyInv'
  <2>1. Len(timer'.list) <= MAX_SOURCE_STREAMS
    BY <1>1, <1>2, <1>3, MaxAssumption DEF Inv, CopyInv
  <2>2. ASSUME NEW i \in DOMAIN timer'.list, NEW j \in DOMAIN timer'.list,
               timer'.list[i] = timer'.list[j]
        PROVE  i = j
    <3>1. i + 1 \in DOMAIN l /\ j + 1 \in DOMAIN l /\ l[i + 1] = l[j + 1]
      BY <1>1, <1>2, <1>3, <1>5, <2>2
    <3>2. i + 1 = j + 1
      BY <3>1 DEF Inv, CopyInv
    <3>3. QED
      BY <1>1, <1>5, <3>2
  <2>3. QED
    BY <1>3, <2>1, <2>2 DEF CopyInv, LeavePcs
<1>7. ASSUME NEW s \in Slots PROVE Held(s)' <=> Held(s)
  <2>1. Held(s)' <=> \E i \in 1 .. Len(l) - 1 : Tail(l)[i] = s
    BY <1>3, <1>5 DEF Held, LeavePcs
  <2>2. Held(s) <=> \E i \in 1 .. Len(l) : l[i] = s /\ i > 1
    BY <1>1 DEF Held
  <2>3. ASSUME NEW i \in 1 .. Len(l) - 1, Tail(l)[i] = s
        PROVE  i + 1 \in 1 .. Len(l) /\ l[i + 1] = s /\ i + 1 > 1
    BY <1>1, <1>2, <2>3
  <2>4. ASSUME NEW i \in 1 .. Len(l), l[i] = s, i > 1
        PROVE  i - 1 \in 1 .. Len(l) - 1 /\ Tail(l)[i - 1] = s
    BY <1>1, <1>2, <2>4
  <2>5. QED
    BY <2>1, <2>2, <2>3, <2>4
<1>8. ReaderInv'
  BY <1>7 DEF Inv, ReaderInv
<1>9. QED
  BY <1>3, <1>4, <1>6, <1>8

\* It takes a new copy.
LEMMA SnapshotFacts ==
  ASSUME Inv, timer.pc \in {"idle", "frame"}, NEW pc \in {"prepare", "send"}, Snapshot(pc),
         UNCHANGED <<Active, Initialized, Info, Ordered, op, leaked>>
  PROVE  Inv'
<1>1. timer' = [pc |-> pc, list |-> Ordered] /\ timer'.pc = pc /\ timer'.list = Ordered /\ op.pc = "idle"
  BY DEF Snapshot, SourceLocked
<1>2. timer.list = <<>>
  BY DEF Inv, CopyInv
<1>3. \A s \in Slots : ReaderCount[s] = 0
  BY <1>2 DEF Inv, ReaderInv, Held
<1>4. \A s \in Slots : ReaderCount'[s] = IF InOrdered(s) THEN 1 ELSE 0
  BY <1>3 DEF Snapshot
<1>5. ReaderCount' \in [Slots -> 0 .. 1]
  BY <1>3 DEF Snapshot
<1>6. ReaderInv'
  BY <1>1, <1>4 DEF ReaderInv, Held, InOrdered, LeavePcs
<1>7. CopyInv'
  BY <1>1 DEF Inv, CopyInv, ListedActive, LeavePcs
<1>8. TypeOK'
  <2>1. timer' \in [pc : TimerPcs, list : Seq(Slots)]
    BY <1>1 DEF Inv, TypeOK, TimerPcs
  <2>2. QED
    BY <1>5, <2>1 DEF Inv, TypeOK, TimerPcs
<1>9. DestroyInv'
  BY <1>1, <1>3 DEF Inv, DestroyInv, IsFree, LeftSlot, OpInv, IdleOp
<1>10. ListedActive' /\ OpInv' /\ ActiveInv'
  BY <1>1, TimerFrame
<1>11. QED
  BY <1>6, <1>7, <1>8, <1>9, <1>10 DEF Inv

\* The end of PrepareBufferLives changes no reader.
LEMMA PrepareDoneInv ==
  ASSUME Inv, PrepareDone
  PROVE  Inv'
<1>1. UNCHANGED <<Active, ReaderCount, Initialized, Info, Ordered, op, leaked>>
  BY DEF PrepareDone
<1>2. timer.pc = "prepare" /\ timer'.pc = "leave" /\ timer'.list = timer.list
  BY CopyFacts DEF PrepareDone
<1>3. timer' \in [pc : TimerPcs, list : Seq(Slots)]
  BY CopyFacts DEF PrepareDone, TimerPcs
<1>4. TypeOK'
  BY <1>1, <1>3 DEF Inv, TypeOK, TimerPcs
<1>5. CopyInv' /\ ReaderInv'
  BY <1>1, <1>2 DEF Inv, CopyInv, ReaderInv, Held, LeavePcs
<1>6. DestroyInv'
  BY <1>1, <1>2 DEF Inv, DestroyInv, IsFree
<1>7. ListedActive' /\ OpInv' /\ ActiveInv'
  BY <1>1, TimerFrame
<1>8. QED
  BY <1>4, <1>5, <1>6, <1>7 DEF Inv

\* ReaderLeave gives up one slot, which may become free with its stream not destroyed.
LEMMA ReaderLeaveInv ==
  ASSUME Inv, ReaderLeave
  PROVE  Inv'
<1>1. /\ UNCHANGED <<Active, Initialized, Info, Ordered, op, leaked>>
      /\ timer.pc = "leave" /\ timer.list # <<>>
      /\ ReaderCount' = [ReaderCount EXCEPT ![LeftSlot] = ReaderCount[LeftSlot] - 1]
  BY DEF ReaderLeave
<1>2. timer'.pc = "cleanup" /\ timer'.list = timer.list
  BY CopyFacts DEF ReaderLeave
<1>3. timer' \in [pc : TimerPcs, list : Seq(Slots)]
  BY CopyFacts DEF ReaderLeave, TimerPcs
<1>4. 1 \in DOMAIN timer.list /\ LeftSlot = timer.list[1] /\ LeftSlot \in Slots
  BY <1>1, CopyFacts, HeadTailProperties DEF LeftSlot
<1>5. Held(LeftSlot)
  BY <1>1, <1>4 DEF Held, LeavePcs
<1>6. \A s \in Slots : ReaderCount'[s] = IF Held(s) /\ s # LeftSlot THEN 1 ELSE 0
  BY <1>1, <1>4, <1>5 DEF Inv, ReaderInv, TypeOK
<1>7. ReaderCount' \in [Slots -> 0 .. 1]
  <2>1. ReaderCount[LeftSlot] = 1
    BY <1>4, <1>5 DEF Inv, ReaderInv
  <2>2. ReaderCount' = [ReaderCount EXCEPT ![LeftSlot] = 0]
    BY <1>1, <2>1
  <2>3. QED
    BY <1>4, <2>2 DEF Inv, TypeOK
<1>8. ASSUME NEW s \in Slots PROVE Held(s)' <=> Held(s) /\ s # LeftSlot
  <2>1. Held(s)' <=> \E i \in DOMAIN timer.list : timer.list[i] = s /\ i > 1
    BY <1>2 DEF Held, LeavePcs
  <2>2. Held(s) <=> \E i \in DOMAIN timer.list : timer.list[i] = s
    BY <1>1 DEF Held, LeavePcs
  <2>3. \A i \in DOMAIN timer.list : timer.list[i] = LeftSlot <=> i = 1
    BY <1>4 DEF Inv, CopyInv
  <2>4. \A i \in DOMAIN timer.list : i # 1 <=> i > 1
    BY CopyFacts
  <2>5. QED
    BY <2>1, <2>2, <2>3, <2>4, Zenon
<1>9. ReaderInv'
  BY <1>6, <1>8 DEF ReaderInv
<1>10. CopyInv'
  BY <1>1, <1>2 DEF Inv, CopyInv, LeavePcs
<1>11. TypeOK'
  BY <1>1, <1>3, <1>7 DEF Inv, TypeOK, TimerPcs
<1>12. DestroyInv'
  <2>1. LeftSlot' = LeftSlot
    BY <1>2 DEF LeftSlot
  <2>2. \A s \in Slots : s # LeftSlot => ReaderCount'[s] = ReaderCount[s]
    BY <1>6 DEF Inv, ReaderInv
  <2>3. QED
    BY <1>1, <1>2, <2>1, <2>2 DEF Inv, DestroyInv, IsFree
<1>13. ListedActive' /\ OpInv' /\ ActiveInv'
  <2>1. \A s \in Slots : ReaderCount[s] = 0 => ReaderCount'[s] = 0
    BY <1>6 DEF Inv, ReaderInv
  <2>2. QED
    BY <1>1, <2>1, TimerFrame
<1>14. QED
  BY <1>9, <1>10, <1>11, <1>12, <1>13 DEF Inv

\* Cleanup after ReaderLeave goes on to Destroy if the slot is free.
LEMMA LeaveCleanupInv ==
  ASSUME Inv, LeaveCleanup
  PROVE  Inv'
<1>1. /\ UNCHANGED <<Active, ReaderCount, Initialized, Info, Ordered, op, leaked>>
      /\ timer.pc = "cleanup"
  BY DEF LeaveCleanup
<1>2. ListedActive' /\ OpInv' /\ ActiveInv'
  BY <1>1, TimerFrame
<1>3. CASE IsFree(LeftSlot) /\ timer' = [timer EXCEPT !.pc = "destroy"]
  <2>1. /\ timer' \in [pc : TimerPcs, list : Seq(Slots)]
        /\ CopyInv' /\ ReaderInv' /\ timer'.pc = "destroy" /\ timer'.list = timer.list
    BY <1>1, <1>3, StayFacts DEF LeavePcs
  <2>2. TypeOK'
    BY <1>1, <2>1 DEF Inv, TypeOK, TimerPcs
  <2>3. DestroyInv'
    BY <1>1, <2>1 DEF Inv, DestroyInv, IsFree, LeftSlot
  <2>4. QED
    BY <1>2, <2>1, <2>2, <2>3 DEF Inv
<1>4. CASE ~IsFree(LeftSlot) /\ NextLeave
  <2>1. /\ timer' \in [pc : TimerPcs, list : Seq(Slots)]
        /\ CopyInv' /\ ReaderInv' /\ timer'.pc = "leave"
    BY <1>1, <1>4, NextLeaveFacts DEF LeavePcs
  <2>2. TypeOK'
    BY <1>1, <2>1 DEF Inv, TypeOK, TimerPcs
  <2>3. DestroyInv'
    BY <1>1, <1>4, <2>1 DEF Inv, DestroyInv, IsFree
  <2>4. QED
    BY <1>2, <2>1, <2>2, <2>3 DEF Inv
<1>5. QED
  BY <1>3, <1>4 DEF LeaveCleanup

\* Destroy after ReaderLeave leaves the slot destroyed.
LEMMA LeaveDestroyInv ==
  ASSUME Inv, LeaveDestroy
  PROVE  Inv'
<1>1. /\ UNCHANGED <<Active, ReaderCount, Ordered, op, leaked>>
      /\ timer.pc \in LeavePcs
  BY DEF LeaveDestroy, LeavePcs
<1>2. ListedActive' /\ OpInv' /\ ActiveInv'
  BY <1>1, TimerFrame
<1>3. LeftSlot \in Slots
  BY <1>1, CopyFacts, HeadTailProperties DEF LeftSlot, Inv, CopyInv
<1>4. Initialized' \in [Slots -> BOOLEAN] /\ Info' \in [Slots -> Streams \cup {NoInfo}]
  BY <1>3 DEF LeaveDestroy, ClearLives, ClearInfo, Inv, TypeOK
<1>5. \/ /\ timer.pc = "destroy" /\ ~Initialized[LeftSlot] /\ NextLeave /\ Initialized' = Initialized
      \/ /\ timer.pc = "clear_info" /\ NextLeave /\ Initialized' = Initialized
      \/ /\ timer.pc = "destroy" /\ timer' = [timer EXCEPT !.pc = "clear"] /\ Initialized' = Initialized
      \/ /\ timer.pc = "clear" /\ timer' = [timer EXCEPT !.pc = "clear_info"]
         /\ Initialized' = [Initialized EXCEPT ![LeftSlot] = FALSE]
  BY DEF LeaveDestroy, ClearLives
<1>6. CASE /\ NextLeave /\ Initialized' = Initialized
           /\ \/ timer.pc = "destroy" /\ ~Initialized[LeftSlot]
              \/ timer.pc = "clear_info"
  <2>1. /\ timer' \in [pc : TimerPcs, list : Seq(Slots)]
        /\ CopyInv' /\ ReaderInv' /\ timer'.pc = "leave"
    BY <1>1, <1>6, NextLeaveFacts
  <2>2. TypeOK'
    BY <1>1, <1>4, <2>1 DEF Inv, TypeOK, TimerPcs
  <2>3. DestroyInv'
    BY <1>1, <1>6, <2>1 DEF Inv, DestroyInv, IsFree
  <2>4. QED
    BY <1>2, <2>1, <2>2, <2>3 DEF Inv
<1>7. CASE /\ timer.pc = "destroy" /\ timer' = [timer EXCEPT !.pc = "clear"]
           /\ Initialized' = Initialized
  <2>1. /\ timer' \in [pc : TimerPcs, list : Seq(Slots)]
        /\ CopyInv' /\ ReaderInv' /\ timer'.pc = "clear" /\ timer'.list = timer.list
    BY <1>1, <1>7, StayFacts DEF LeavePcs
  <2>2. TypeOK'
    BY <1>1, <1>4, <2>1 DEF Inv, TypeOK, TimerPcs
  <2>3. DestroyInv'
    BY <1>1, <1>7, <2>1 DEF Inv, DestroyInv, IsFree, LeftSlot
  <2>4. QED
    BY <1>2, <2>1, <2>2, <2>3 DEF Inv
<1>8. CASE /\ timer.pc = "clear" /\ timer' = [timer EXCEPT !.pc = "clear_info"]
           /\ Initialized' = [Initialized EXCEPT ![LeftSlot] = FALSE]
  <2>1. /\ timer' \in [pc : TimerPcs, list : Seq(Slots)]
        /\ CopyInv' /\ ReaderInv' /\ timer'.pc = "clear_info" /\ timer'.list = timer.list
    BY <1>1, <1>8, StayFacts DEF LeavePcs
  <2>2. TypeOK'
    BY <1>1, <1>4, <2>1 DEF Inv, TypeOK, TimerPcs
  <2>3. DestroyInv'
    <3>1. \A s \in Slots : Initialized'[s] => Initialized[s] /\ s # LeftSlot
      BY <1>3, <1>8 DEF Inv, TypeOK
    <3>2. QED
      BY <1>1, <1>8, <3>1 DEF Inv, DestroyInv, IsFree
  <2>4. QED
    BY <1>2, <2>1, <2>2, <2>3 DEF Inv
<1>9. QED
  BY <1>5, <1>6, <1>7, <1>8

\* prepare_buffer_lives returns with every slot left.
LEMMA PrepareReturnInv ==
  ASSUME Inv, PrepareReturn
  PROVE  Inv'
<1>1. /\ UNCHANGED <<Active, ReaderCount, Initialized, Info, Ordered, op, leaked>>
      /\ timer.pc = "leave" /\ timer.list = <<>>
  BY DEF PrepareReturn
<1>2. /\ timer' \in [pc : {"idle", "frame"}, list : Seq(Slots)]
      /\ timer'.list = <<>>
  <2>1. timer' = [pc |-> "idle", list |-> <<>>] \/ timer' = [pc |-> "frame", list |-> <<>>]
    BY DEF PrepareReturn, IdleTimer
  <2>2. <<>> \in Seq(Slots)
    BY EmptySeq
  <2>3. CASE timer' = [pc |-> "idle", list |-> <<>>]
    BY <2>2, <2>3
  <2>4. CASE timer' = [pc |-> "frame", list |-> <<>>]
    BY <2>2, <2>4
  <2>5. QED
    BY <2>1, <2>3, <2>4
<1>3. TypeOK'
  BY <1>1, <1>2 DEF Inv, TypeOK
<1>4. CopyInv' /\ ReaderInv'
  BY <1>1, <1>2, MaxAssumption DEF Inv, CopyInv, ReaderInv, Held, LeavePcs
<1>5. DestroyInv'
  BY <1>1, <1>2 DEF Inv, DestroyInv, IsFree
<1>6. ListedActive' /\ OpInv' /\ ActiveInv'
  BY <1>1, TimerFrame
<1>7. QED
  BY <1>3, <1>4, <1>5, <1>6 DEF Inv

\* send_outgoing_packets leaves all its slots at once and destroys the streams of the
\* ones that became free.
LEMMA SendDoneInv ==
  ASSUME Inv, SendDone
  PROVE  Inv'
<1> DEFINE last(s) == Reading(s) /\ ~Active[s] /\ ReaderCount[s] = 1
<1>1. /\ UNCHANGED <<Active, Ordered, op, leaked>>
      /\ timer.pc = "send" /\ op.pc = "idle" /\ timer' = IdleTimer
      /\ ReaderCount' = [s \in Slots |-> ReaderCount[s] - IF Reading(s) THEN 1 ELSE 0]
      /\ Initialized' = [s \in Slots |-> Initialized[s] /\ ~last(s)]
      /\ Info' = [s \in Slots |-> IF last(s) /\ Initialized[s] THEN NoInfo ELSE Info[s]]
  BY DEF SendDone, SourceLocked
<1>2. \A s \in Slots : Held(s) <=> Reading(s)
  BY <1>1 DEF Held, Reading, LeavePcs
<1>3. \A s \in Slots : ReaderCount'[s] = 0
  BY <1>1, <1>2 DEF Inv, ReaderInv
<1>4. TypeOK'
  <2>1. ReaderCount' \in [Slots -> 0 .. 1]
    <3>1. \A s \in Slots : ReaderCount[s] - (IF Reading(s) THEN 1 ELSE 0) \in 0 .. 1
      BY <1>2 DEF Inv, ReaderInv
    <3>2. QED
      BY <1>1, <3>1
  <2>2. Initialized' \in [Slots -> BOOLEAN]
    BY <1>1, Zenon
  <2>3. Info' \in [Slots -> Streams \cup {NoInfo}]
    BY <1>1 DEF Inv, TypeOK
  <2>4. timer' \in [pc : TimerPcs, list : Seq(Slots)]
    BY <1>1 DEF IdleTimer, TimerPcs
  <2>5. QED
    BY <1>1, <2>1, <2>2, <2>3, <2>4 DEF Inv, TypeOK, TimerPcs
<1>5. CopyInv' /\ ReaderInv'
  BY <1>1, <1>3, MaxAssumption DEF CopyInv, ReaderInv, Held, LeavePcs, IdleTimer
<1>6. DestroyInv'
  <2>1. \A s \in Slots : Initialized'[s] => Initialized[s] /\ ~last(s)
    BY <1>1, Zenon
  <2>2. ASSUME NEW s \in Slots, ~Active[s], Initialized[s], ~last(s)
        PROVE  FALSE
    <3>1. ReaderCount[s] = 0
      BY <1>2, <2>2 DEF Inv, ReaderInv
    <3>2. QED
      BY <1>1, <2>2, <3>1 DEF Inv, DestroyInv, IsFree
  <2>3. QED
    BY <1>1, <2>1, <2>2, Zenon DEF DestroyInv, IsFree
<1>7. ListedActive' /\ OpInv' /\ ActiveInv'
  BY <1>1, TimerFrame
<1>8. QED
  BY <1>4, <1>5, <1>6, <1>7 DEF Inv

-----------------------------------------------------------------------------
(* The theorems                                                               *)

\* Inv holds at the start.
LEMMA InitInv == Init => Inv
<1> SUFFICES ASSUME Init PROVE Inv
  OBVIOUS
<1>1. /\ op.pc = "idle" /\ op.slot = 0 /\ op.all = FALSE /\ timer.pc = "idle" /\ timer.list = <<>>
      /\ Ordered = <<>> /\ leaked = FALSE
      /\ \A s \in Slots : Active[s] = FALSE /\ ReaderCount[s] = 0 /\ Initialized[s] = FALSE
  BY DEF Init, IdleOp, IdleTimer, NULL
<1>2. TypeOK
  <2>1. op \in [pc : {"idle"}, slot : {NULL}, info : {NoInfo}, all : BOOLEAN]
    BY DEF Init, IdleOp
  <2>2. timer \in [pc : {"idle"}, list : Seq(Slots)]
    BY DEF Init, IdleTimer
  <2>3. /\ Active \in [Slots -> BOOLEAN] /\ ReaderCount \in [Slots -> 0 .. 1]
        /\ Initialized \in [Slots -> BOOLEAN] /\ Info \in [Slots -> Streams \cup {NoInfo}]
    BY DEF Init
  <2>4. Ordered \in Seq(Slots) /\ leaked \in BOOLEAN
    BY EmptySeq DEF Init
  <2>5. QED
    BY <2>1, <2>2, <2>3, <2>4 DEF TypeOK
<1>3. ListedActive /\ CopyInv /\ ReaderInv
  BY <1>1, MaxAssumption DEF ListedActive, CopyInv, ReaderInv, Held, LeavePcs
<1>4. OpInv /\ DestroyInv /\ ActiveInv
  BY <1>1 DEF Init, OpInv, DestroyInv, ActiveInv
<1>5. QED
  BY <1>2, <1>3, <1>4 DEF Inv

\* Inv is preserved by every step.
LEMMA NextInv ==
  ASSUME Inv, [Next]_vars
  PROVE  Inv'
<1>1. CASE OpNext
  BY <1>1, AcquireInv, CreateInv, InsertInv, RemoveInv, RemoveAllInv, ReleaseInv,
     ReleaseCleanupInv, ReleaseDestroyInv, Zenon DEF OpNext, OpStep
<1>2. CASE prepare_buffer_lives
  BY <1>2, SnapshotFacts DEF prepare_buffer_lives
<1>3. CASE send_outgoing_packets
  BY <1>3, SnapshotFacts DEF send_outgoing_packets
<1>4. CASE TimerStep /\ ~send_outgoing_packets
  BY <1>4, PrepareDoneInv, ReaderLeaveInv, LeaveCleanupInv, LeaveDestroyInv, PrepareReturnInv,
     SendDoneInv, Zenon DEF TimerStep
<1>5. CASE UNCHANGED vars
  <2>1. TypeOK' /\ ListedActive' /\ CopyInv' /\ ReaderInv'
    BY <1>5 DEF Inv, TypeOK, ListedActive, CopyInv, ReaderInv, Held
  <2>2. OpInv' /\ DestroyInv' /\ ActiveInv'
    BY <1>5 DEF Inv, OpInv, DestroyInv, ActiveInv, InOrdered, IsFree, LeftSlot
  <2>3. QED
    BY <2>1, <2>2 DEF Inv
<1>6. QED
  BY <1>1, <1>2, <1>3, <1>4, <1>5, Zenon DEF Next, TimerNext

\* Inv is an invariant.
LEMMA Invariance == Spec => []Inv
BY InitInv, NextInv, PTL DEF Spec

\* Every reachable state is well typed: in particular no reader count passes 1 or falls
\* below 0, although ReaderEnter and ReaderLeave do not test it.
THEOREM TypeCorrect == Spec => []TypeOK
<1>1. Inv => TypeOK
  BY DEF Inv
<1>2. QED
  BY <1>1, Invariance, PTL

\* The ordered list never has a slot twice, an inactive slot, or more slots than the
\* arrays on the stack of the timer callback.
THEOREM ListSound == Spec => []ListedActive
<1>1. Inv => ListedActive
  BY DEF Inv
<1>2. QED
  BY <1>1, Invariance, PTL

\* Release and ReaderLeave, whichever comes last, destroy the stream of a slot that
\* becomes free.
THEOREM FreeSlotsDestroyed == Spec => []FreeIsDestroyed
<1>1. Inv => FreeIsDestroyed
  BY DEF Inv, DestroyInv, FreeIsDestroyed
<1>2. QED
  BY <1>1, Invariance, PTL

\* The stream of a slot that is being read is not changed by a step.
LEMMA ReadStep ==
  ASSUME Inv, [Next]_vars, NEW s \in Slots, Reading(s), Reading(s)'
  PROVE  Initialized'[s] = Initialized[s] /\ Info'[s] = Info[s]
<1>1. ReaderCount[s] = 1 /\ timer.pc \in {"prepare", "send"} /\ timer'.pc \in {"prepare", "send"}
  <2>1. Held(s)
    BY DEF Reading, Held, LeavePcs
  <2>2. QED
    BY <2>1 DEF Inv, ReaderInv, Reading
<1>2. op.pc \in {"create", "clear", "clear_info"} => op.slot # s
  BY <1>1 DEF Inv, OpInv
<1>3. CASE AddCreate
  BY <1>2, <1>3 DEF AddCreate, Inv, TypeOK
<1>4. CASE ReleaseDestroy
  BY <1>2, <1>4 DEF ReleaseDestroy, ClearLives, ClearInfo, Inv, TypeOK
<1>5. CASE SendDone
  BY <1>1, <1>5 DEF SendDone, IdleTimer
<1>6. CASE LeaveDestroy
  BY <1>1, <1>6 DEF LeaveDestroy
<1>7. CASE Initialized' = Initialized /\ Info' = Info
  BY <1>7
<1>8. CASE OpNext
  <2>1. \/ AddCreate \/ ReleaseDestroy
        \/ Initialized' = Initialized /\ Info' = Info
    BY <1>8 DEF OpNext, OpStep, AddAcquire, AddInsert, remove_RTP_stream,
       remove_all_RTP_streams, Release, ReleaseCleanup
  <2>2. QED
    BY <1>3, <1>4, <1>7, <2>1
<1>9. CASE TimerNext
  <2>1. \/ LeaveDestroy \/ SendDone
        \/ Initialized' = Initialized /\ Info' = Info
    BY <1>9 DEF TimerNext, TimerStep, prepare_buffer_lives, PrepareDone, ReaderLeave,
       LeaveCleanup, PrepareReturn, send_outgoing_packets
  <2>2. QED
    BY <1>5, <1>6, <1>7, <2>1
<1>10. CASE UNCHANGED vars
  BY <1>10
<1>11. QED
  BY <1>8, <1>9, <1>10 DEF Next

\* With one NIC: the timer callback works on the streams of its copy with no lock held;
\* no operation creates or destroys one of them meanwhile.  (With two it also works on
\* the streams attached to them, whose slots it has not entered.)
THEOREM ReadStreamsStable ==
  ASSUME NICs = {0}
  PROVE  Spec => ReadStreamStable
<1>1. Inv /\ [Next]_vars =>
        [\A s \in Slots : Reading(s) /\ Reading(s)' =>
           Initialized'[s] = Initialized[s] /\ Info'[s] = Info[s]]_vars
  BY ReadStep
<1>2. QED
  BY <1>1, Invariance, PTL DEF Spec, ReadStreamStable

\* The slots of a NIC: twice as many as the list has room for.
LEMMA SlotsOfNIC ==
  ASSUME NEW nic \in NICs
  PROVE  /\ IsFiniteSet({s \in Slots : NICId(s) = nic})
         /\ Cardinality({s \in Slots : NICId(s) = nic}) = 2 * MAX_SOURCE_STREAMS
<1>1. SlotsPerNIC = 2 * MAX_SOURCE_STREAMS /\ SlotsPerNIC \in Nat \ {0}
  BY MaxAssumption DEF SlotsPerNIC
<1>2. CASE nic = 0
  <2>1. {s \in Slots : NICId(s) = nic} = 1 .. SlotsPerNIC
    BY <1>1, <1>2, SlotsInterval DEF NICId
  <2>2. IsFiniteSet(1 .. SlotsPerNIC) /\ Cardinality(1 .. SlotsPerNIC) = SlotsPerNIC
    BY <1>1, FS_Interval
  <2>3. QED
    BY <1>1, <2>1, <2>2, Zenon
<1>3. CASE nic = 1
  <2>1. Slots = 1 .. 2 * SlotsPerNIC
    BY <1>3, SlotsInterval
  <2>2. {s \in Slots : NICId(s) = nic} = SlotsPerNIC + 1 .. 2 * SlotsPerNIC
    BY <1>1, <1>3, <2>1 DEF NICId
  <2>3. /\ IsFiniteSet(SlotsPerNIC + 1 .. 2 * SlotsPerNIC)
        /\ Cardinality(SlotsPerNIC + 1 .. 2 * SlotsPerNIC) = SlotsPerNIC
    <3>1. SlotsPerNIC + 1 \in Int /\ 2 * SlotsPerNIC \in Int /\ ~(SlotsPerNIC + 1 > 2 * SlotsPerNIC)
      BY <1>1
    <3>2. 2 * SlotsPerNIC - (SlotsPerNIC + 1) + 1 = SlotsPerNIC
      BY <1>1
    <3>3. QED
      BY <3>1, <3>2, FS_Interval
  <2>4. QED
    BY <1>1, <2>2, <2>3, Zenon
<1>4. QED
  BY <1>2, <1>3, NICsAssumption

\* With nothing half done, a slot in use is listed or in the copy of the timer callback.
LEMMA UsedSlots ==
  ASSUME Inv, ~leaked, op.pc = "idle", NEW s \in Slots, ~IsFree(s)
  PROVE  \/ \E i \in 1 .. Len(Ordered) : Ordered[i] = s
         \/ \E i \in 1 .. Len(timer.list) : timer.list[i] = s
<1>1. op = IdleOp
  BY DEF Inv, OpInv
<1>2. DOMAIN Ordered = 1 .. Len(Ordered)
  BY LenProperties DEF Inv, TypeOK
<1>3. CASE Active[s]
  BY <1>1, <1>2, <1>3 DEF Inv, ActiveInv, InOrdered, IdleOp
<1>4. CASE ReaderCount[s] # 0
  BY <1>4, CopyFacts DEF Inv, ReaderInv, Held
<1>5. QED
  BY <1>3, <1>4 DEF IsFree

\* There is always a free slot for a stream the list has room for.
LEMMA FreeSlotLeft ==
  ASSUME Inv, ~leaked, op.pc = "idle", Len(Ordered) < MAX_SOURCE_STREAMS, NEW nic \in NICs
  PROVE  FreeSlots(nic) # {}
<1> DEFINE S == {s \in Slots : NICId(s) = nic}
           n == Len(Ordered)
           m == Len(timer.list)
           isAt(s, i) == IF i <= n THEN Ordered[i] = s ELSE timer.list[i - n] = s
           f == [s \in S |-> CHOOSE i \in 1 .. n + m : isAt(s, i)]
<1> SUFFICES ASSUME FreeSlots(nic) = {} PROVE FALSE
  OBVIOUS
<1>1. n \in Nat /\ m \in Nat /\ n + m < 2 * MAX_SOURCE_STREAMS
  <2>1. n \in Nat
    BY LenProperties DEF Inv, TypeOK
  <2>2. m \in Nat /\ m <= MAX_SOURCE_STREAMS
    BY CopyFacts DEF Inv, CopyInv
  <2>3. QED
    BY <2>1, <2>2, MaxAssumption
<1>2. ASSUME NEW s \in S PROVE \E i \in 1 .. n + m : isAt(s, i)
  <2>1. s \in Slots /\ ~IsFree(s)
    BY DEF FreeSlots
  <2>2. CASE \E i \in 1 .. n : Ordered[i] = s
    BY <1>1, <2>2
  <2>3. CASE \E i \in 1 .. m : timer.list[i] = s
    <3>1. PICK i \in 1 .. m : timer.list[i] = s
      BY <2>3
    <3>2. n + i \in 1 .. n + m /\ ~(n + i <= n) /\ (n + i) - n = i
      BY <1>1
    <3>3. isAt(s, n + i)
      BY <3>1, <3>2
    <3>4. QED
      BY <3>2, <3>3
  <2>4. QED
    BY <2>1, <2>2, <2>3, UsedSlots
<1>3. \A s \in S : f[s] \in 1 .. n + m /\ isAt(s, f[s])
  <2> HIDE DEF isAt
  <2>1. QED
    BY <1>2
<1>4. f \in [S -> 1 .. n + m]
  BY <1>3
<1>5. IsFiniteSet(1 .. n + m) /\ Cardinality(1 .. n + m) = n + m
  <2>1. PICK k \in Nat : k = n + m
    BY <1>1
  <2>2. IsFiniteSet(1 .. k) /\ Cardinality(1 .. k) = k
    BY FS_Interval
  <2>3. QED
    BY <2>1, <2>2, Zenon
<1>6. IsFiniteSet(S) /\ Cardinality(S) = 2 * MAX_SOURCE_STREAMS
  BY SlotsOfNIC
<1>7. PICK x \in S, y \in S : x # y /\ f[x] = f[y]
  <2> HIDE DEF f, S
  <2>1. Cardinality(1 .. n + m) < Cardinality(S)
    BY <1>1, <1>5, <1>6
  <2>2. QED
    BY <1>4, <1>5, <1>6, <2>1, FS_PigeonHole
<1>8. isAt(x, f[x]) /\ isAt(y, f[x])
  BY <1>3, <1>7
<1>9. QED
  <2> HIDE DEF f
  <2>1. QED
    BY <1>7, <1>8

\* As long as no add has failed half way, add_RTP_stream_ finds a slot whenever the list
\* has room, because there are twice as many slots of each NIC as the list can hold:
\* the other half covers a former list that is still being read.
THEOREM SlotsAlwaysSuffice == Spec => []SlotsSuffice
<1>1. Inv => SlotsSuffice
  BY FreeSlotLeft DEF SlotsSuffice
<1>2. QED
  BY <1>1, Invariance, PTL


-----------------------------------------------------------------------------
(* The one way to send a stream that is not initialized                       *)

\* The stream of slot s may be handed to SendRTPAudioPackets.
Sendable(s) == Initialized[s] /\ Info[s] # NoInfo

\* Listed streams, the one about to be listed and the ones being sent are sendable.
StreamInv ==
  /\ \A s \in Slots : InOrdered(s) => Sendable(s)
  /\ op.pc = "create" => op.info \in Streams
  /\ op.pc = "insert" => Sendable(op.slot)
  /\ SentInitialized

\* A stream that was created has an identifier.
LEMMA StreamNamed == NoInfo \notin Streams
BY StreamAssumption DEF NoInfo

\* A step that leaves alone the streams that are listed, or about to be, and the copy.
LEMMA StreamsKept ==
  ASSUME Inv, Inv', StreamInv, [Next]_vars, timer' = timer,
         \A s \in Slots : InOrdered(s)' => Sendable(s)',
         op'.pc = "create" => op'.info \in Streams,
         op'.pc = "insert" => Sendable(op.slot)'
  PROVE  StreamInv'
<1>1. ASSUME timer.pc = "send", NEW i \in DOMAIN timer.list PROVE Sendable(timer.list[i])'
  <2>1. timer.list[i] \in Slots /\ Reading(timer.list[i]) /\ Reading(timer.list[i])'
    BY <1>1, CopyFacts DEF Reading
  <2>2. Initialized'[timer.list[i]] = Initialized[timer.list[i]]
        /\ Info'[timer.list[i]] = Info[timer.list[i]]
    BY <2>1, ReadStep
  <2>3. Sendable(timer.list[i])
    BY <1>1 DEF StreamInv, SentInitialized, Sendable
  <2>4. QED
    BY <1>1, <2>2, <2>3 DEF Sendable
<1>2. SentInitialized'
  BY <1>1 DEF SentInitialized, Sendable
<1>3. QED
  BY <1>2 DEF StreamInv

\* The management thread lists streams it has just created, and destroys none that is
\* listed.
LEMMA OpStreams ==
  ASSUME Inv, Inv', StreamInv, OpNext
  PROVE  StreamInv'
<1>1. timer' = timer /\ [Next]_vars
  BY DEF OpNext, OpStep, Next, AddAcquire, AddCreate, AddInsert, remove_RTP_stream,
     remove_all_RTP_streams, Release, ReleaseCleanup, ReleaseDestroy
<1>2. op \in [pc : {"idle", "create", "insert", "release", "cleanup", "destroy",
                   "clear", "clear_info"},
              slot : Slots \cup {NULL}, info : Streams \cup {NoInfo}, all : BOOLEAN]
  BY DEF Inv, TypeOK
<1>3. ASSUME NEW s \in Slots, Initialized'[s] = Initialized[s], Info'[s] = Info[s]
      PROVE  Sendable(s)' <=> Sendable(s)
  BY <1>3 DEF Sendable
<1>4. ASSUME NEW nic \in NICs, NEW info \in Streams, AddAcquire(nic, info) PROVE StreamInv'
  <2>1. Ordered' = Ordered /\ Initialized' = Initialized /\ Info' = Info
    BY <1>4 DEF AddAcquire
  <2>2. op'.pc = "create" /\ op'.info \in Streams
    BY <1>4 DEF AddAcquire, IdleOp
  <2>3. \A s \in Slots : InOrdered(s)' => Sendable(s)'
    BY <2>1 DEF StreamInv, InOrdered, Sendable
  <2>4. QED
    BY <1>1, <2>2, <2>3, StreamsKept
<1>5. CASE AddCreate
  <2>1. Ordered' = Ordered /\ op.slot \in Slots /\ ~InOrdered(op.slot) /\ op.info \in Streams
    BY <1>5 DEF AddCreate, Inv, OpInv, StreamInv
  <2>2. \A s \in Slots \ {op.slot} : Initialized'[s] = Initialized[s] /\ Info'[s] = Info[s]
    BY <1>5 DEF AddCreate, Inv, TypeOK
  <2>3. \A s \in Slots : InOrdered(s)' => Sendable(s)'
    BY <1>3, <2>1, <2>2 DEF StreamInv, InOrdered
  <2>4. ASSUME op' = [op EXCEPT !.pc = "insert", !.info = NoInfo] PROVE Sendable(op.slot)'
    <3>1. op'.pc = "insert" /\ op'.slot = op.slot
      BY <1>2, <2>4
    <3>2. op' # IdleOp
      BY <3>1 DEF IdleOp
    <3>3. /\ Initialized' = [Initialized EXCEPT ![op.slot] = TRUE]
          /\ Info' = [Info EXCEPT ![op.slot] = op.info]
      BY <1>5, <3>2 DEF AddCreate
    <3>4. Initialized'[op.slot] /\ Info'[op.slot] = op.info
      BY <2>1, <3>3 DEF Inv, TypeOK
    <3>5. Sendable(op.slot)'
      BY <2>1, <3>1, <3>4, StreamNamed DEF Sendable
    <3>6. QED
      BY <3>5
  <2>5. (op'.pc = "insert" => Sendable(op.slot)') /\ op'.pc # "create"
    <3>1. op' = [op EXCEPT !.pc = "insert", !.info = NoInfo] \/ op' = IdleOp
      BY <1>5 DEF AddCreate
    <3>2. [op EXCEPT !.pc = "insert", !.info = NoInfo].pc = "insert" /\ IdleOp.pc = "idle"
      BY <1>2 DEF IdleOp
    <3>3. QED
      BY <2>4, <3>1, <3>2
  <2>6. QED
    BY <1>1, <2>3, <2>5, StreamsKept
<1>6. CASE AddInsert
  <2>1. Initialized' = Initialized /\ Info' = Info /\ op' = IdleOp /\ op.slot \in Slots
    BY <1>6 DEF AddInsert, Inv, OpInv
  <2>2. \A s \in Slots : InOrdered(s)' => InOrdered(s) \/ s = op.slot
    <3>1. CASE Ordered' = Ordered
      BY <3>1 DEF InOrdered
    <3>2. CASE Ordered' = InsertAt(Ordered, InsertPos(op.slot), op.slot)
      <4> DEFINE p == InsertPos(op.slot)
      <4>1. Ordered \in Seq(Slots) /\ Len(Ordered) \in Nat /\ DOMAIN Ordered = 1 .. Len(Ordered)
        BY LenProperties DEF Inv, TypeOK
      <4>2. p \in 1 .. Len(Ordered) + 1
        BY <2>1, <4>1, InsertPosFacts
      <4> HIDE DEF p
      <4>3. Ordered' = InsertAt(Ordered, p, op.slot)
        BY <3>2 DEF p
      <4>4. /\ InsertAt(Ordered, p, op.slot) \in Seq(Slots)
            /\ Len(InsertAt(Ordered, p, op.slot)) = Len(Ordered) + 1
            /\ \A j \in 1 .. Len(Ordered) + 1 :
                 InsertAt(Ordered, p, op.slot)[j] =
                   IF j < p THEN Ordered[j] ELSE IF j = p THEN op.slot ELSE Ordered[j - 1]
        <5>1. Ordered \in Seq(Slots) /\ op.slot \in Slots
          BY <2>1, <4>1
        <5>2. QED
          BY <4>2, <5>1, InsertAtFacts
      <4>5. /\ DOMAIN Ordered' = 1 .. Len(Ordered) + 1
            /\ \A j \in 1 .. Len(Ordered) + 1 :
                 Ordered'[j] = IF j < p THEN Ordered[j]
                               ELSE IF j = p THEN op.slot ELSE Ordered[j - 1]
        BY <4>3, <4>4, LenProperties
      <4>6. ASSUME NEW j \in 1 .. Len(Ordered) + 1
            PROVE  Ordered'[j] = op.slot \/ \E i \in 1 .. Len(Ordered) : Ordered'[j] = Ordered[i]
        <5>1. CASE j < p
          BY <4>1, <4>2, <4>5, <5>1
        <5>2. CASE j > p
          <6>1. j - 1 \in 1 .. Len(Ordered) /\ Ordered'[j] = Ordered[j - 1]
            BY <4>1, <4>2, <4>5, <5>2
          <6>2. QED
            BY <6>1
        <5>3. QED
          BY <4>1, <4>2, <4>5, <5>1, <5>2
      <4>7. QED
        BY <4>1, <4>5, <4>6 DEF InOrdered
    <3>3. QED
      BY <1>6, <3>1, <3>2 DEF AddInsert
  <2>3. Sendable(op.slot)
    BY <1>6 DEF AddInsert, StreamInv
  <2>4. \A s \in Slots : InOrdered(s)' => Sendable(s)'
    BY <2>1, <2>2, <2>3 DEF StreamInv, Sendable
  <2>5. op'.pc = "idle"
    BY <2>1 DEF IdleOp
  <2>6. QED
    BY <1>1, <2>4, <2>5, StreamsKept
<1>7. ASSUME op'.pc \notin {"create", "insert"}, Initialized' = Initialized, Info' = Info,
             \A s \in Slots : InOrdered(s)' => InOrdered(s)
      PROVE  StreamInv'
  <2>1. \A s \in Slots : InOrdered(s)' => Sendable(s)'
    BY <1>7 DEF StreamInv, Sendable
  <2>2. QED
    BY <1>1, <1>7, <2>1, StreamsKept
<1>8. ASSUME NEW i \in DOMAIN Ordered, remove_RTP_stream(i) PROVE StreamInv'
  <2>1. Ordered \in Seq(Slots) /\ Len(Ordered) \in Nat /\ DOMAIN Ordered = 1 .. Len(Ordered)
    BY LenProperties DEF Inv, TypeOK
  <2>2. /\ RemoveAt(Ordered, i) \in Seq(Slots)
        /\ Len(RemoveAt(Ordered, i)) = Len(Ordered) - 1
        /\ \A j \in 1 .. Len(Ordered) - 1 :
             RemoveAt(Ordered, i)[j] = IF j < i THEN Ordered[j] ELSE Ordered[j + 1]
    BY <2>1, RemoveAtFacts
  <2>3. Ordered' = RemoveAt(Ordered, i)
    BY <1>8 DEF remove_RTP_stream
  <2>4. DOMAIN Ordered' = 1 .. Len(Ordered) - 1
    BY <2>1, <2>2, <2>3, LenProperties
  <2>5. ASSUME NEW s \in Slots, InOrdered(s)' PROVE InOrdered(s)
    <3>1. PICK j \in 1 .. Len(Ordered) - 1 : Ordered'[j] = s
      BY <2>4, <2>5 DEF InOrdered
    <3>2. j \in DOMAIN Ordered /\ j + 1 \in DOMAIN Ordered /\ s \in {Ordered[j], Ordered[j + 1]}
      BY <2>1, <2>2, <2>3, <3>1
    <3>3. QED
      BY <3>2 DEF InOrdered
  <2>6. op'.pc \in {"idle", "release"} /\ Initialized' = Initialized /\ Info' = Info
    BY <1>8 DEF remove_RTP_stream, ReleaseSlot, IdleOp
  <2>7. QED
    BY <1>7, <2>5, <2>6
<1>9. CASE remove_all_RTP_streams
  BY <1>7, <1>9 DEF remove_all_RTP_streams, IdleOp, InOrdered
<1>10. Released => op'.pc \in {"release", "idle"}
  BY <1>2 DEF Released, IdleOp
<1>11. CASE Release \/ ReleaseCleanup
  <2>1. op'.pc \in {"cleanup", "destroy", "release", "idle"}
    BY <1>2, <1>10, <1>11 DEF Release, ReleaseCleanup
  <2>2. Ordered' = Ordered /\ Initialized' = Initialized /\ Info' = Info
    BY <1>11 DEF Release, ReleaseCleanup
  <2>3. QED
    BY <1>7, <2>1, <2>2 DEF InOrdered
<1>12. CASE ReleaseDestroy
  <2>1. op'.pc \in {"clear", "clear_info", "release", "idle"}
    BY <1>2, <1>10, <1>12 DEF ReleaseDestroy
  <2>2. Ordered' = Ordered /\ op.slot \in Slots /\ ~InOrdered(op.slot)
    BY <1>12 DEF ReleaseDestroy, Inv, OpInv
  <2>3. \A s \in Slots \ {op.slot} : Initialized'[s] = Initialized[s] /\ Info'[s] = Info[s]
    BY <1>12 DEF ReleaseDestroy, ClearLives, ClearInfo, Inv, TypeOK
  <2>4. \A s \in Slots : InOrdered(s)' => Sendable(s)'
    BY <1>3, <2>2, <2>3 DEF StreamInv, InOrdered
  <2>5. QED
    BY <1>1, <2>1, <2>4, StreamsKept
<1>13. QED
  BY <1>4, <1>5, <1>6, <1>8, <1>9, <1>11, <1>12 DEF OpNext, OpStep

\* The timer callback destroys streams that are not active, unless their slot was taken
\* again.
LEMMA TimerStreams ==
  ASSUME Inv, StreamInv, NotRetaken, TimerNext
  PROVE  StreamInv'
<1>1. Ordered' = Ordered /\ op' = op /\ Active' = Active
  BY DEF TimerNext, TimerStep, prepare_buffer_lives, PrepareDone, ReaderLeave, LeaveCleanup,
     LeaveDestroy, PrepareReturn, send_outgoing_packets, SendDone
<1>2. \A s \in Slots : InOrdered(s) => Active[s]
  BY DEF InOrdered, Inv, ListedActive
<1>3. op.pc = "insert" => op.slot \in Slots /\ Active[op.slot]
  BY DEF Inv, OpInv
<1>4. ASSUME NEW s \in Slots, Active[s] PROVE Sendable(s)' <=> Sendable(s)
  <2>1. CASE LeaveDestroy
    <3>1. timer.pc \in {"destroy", "clear", "clear_info"}
      BY <2>1 DEF LeaveDestroy
    <3>2. LeftSlot # s
      BY <1>4, <3>1 DEF NotRetaken
    <3>3. Initialized'[s] = Initialized[s] /\ Info'[s] = Info[s]
      BY <2>1, <3>2 DEF LeaveDestroy, ClearLives, ClearInfo, Inv, TypeOK
    <3>4. QED
      BY <3>3 DEF Sendable
  <2>2. CASE SendDone
    <3>1. (Initialized'[s] <=> Initialized[s]) /\ Info'[s] = Info[s]
      BY <1>4, <2>2 DEF SendDone
    <3>2. QED
      BY <3>1 DEF Sendable
  <2>3. CASE Initialized' = Initialized /\ Info' = Info
    BY <2>3 DEF Sendable
  <2>4. QED
    BY <2>1, <2>2, <2>3 DEF TimerNext, TimerStep, prepare_buffer_lives, PrepareDone, ReaderLeave,
       LeaveCleanup, PrepareReturn, send_outgoing_packets
<1>5. SentInitialized'
  <2>1. CASE send_outgoing_packets
    <3>1. timer'.list = Ordered /\ Initialized' = Initialized /\ Info' = Info
      BY <2>1 DEF send_outgoing_packets, Snapshot
    <3>2. \A i \in DOMAIN Ordered : Ordered[i] \in Slots /\ InOrdered(Ordered[i])
      BY DEF Inv, TypeOK, InOrdered
    <3>3. QED
      BY <3>1, <3>2 DEF SentInitialized, StreamInv, Sendable
  <2>2. CASE ~send_outgoing_packets
    <3>1. timer'.pc # "send"
      BY <2>2, CopyFacts DEF TimerNext, TimerStep, prepare_buffer_lives, Snapshot, PrepareDone,
         ReaderLeave, LeaveCleanup, LeaveDestroy, NextLeave, PrepareReturn, SendDone, IdleTimer
    <3>2. QED
      BY <3>1 DEF SentInitialized
  <2>3. QED
    BY <2>1, <2>2
<1>6. QED
  BY <1>1, <1>2, <1>3, <1>4, <1>5 DEF StreamInv, InOrdered

\* send_outgoing_packets hands over a stream that is not initialized only if an add took
\* the slot that ReaderLeave in prepare_buffer_lives had found free, before it had
\* destroyed the stream there: if that never happens, every stream it hands over is.
THEOREM UnracedSendsInitialized == Spec /\ []NotRetaken => []SentInitialized
<1>1. Init => StreamInv
  BY DEF Init, IdleOp, IdleTimer, StreamInv, InOrdered, SentInitialized
<1>2. Inv /\ Inv' /\ StreamInv /\ NotRetaken /\ [Next]_vars => StreamInv'
  <2> SUFFICES ASSUME Inv, Inv', StreamInv, NotRetaken, [Next]_vars PROVE StreamInv'
    OBVIOUS
  <2>1. CASE UNCHANGED vars
    BY <2>1 DEF StreamInv, InOrdered, Sendable, SentInitialized
  <2>2. QED
    BY <2>1, OpStreams, TimerStreams DEF Next
<1>3. StreamInv => SentInitialized
  BY DEF StreamInv
<1>4. QED
  BY <1>1, <1>2, <1>3, Invariance, PTL DEF Spec
=============================================================================
