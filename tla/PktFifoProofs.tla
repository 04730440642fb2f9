---------------------------- MODULE PktFifoProofs ----------------------------
(***************************************************************************)
(* The invariants of the lock-free packet ring, for every ring size.       *)
(***************************************************************************)
EXTENDS PktFifo, SequenceTheorems, TLAPS

USE FifoAssumption

(* pkt_fifo_put's test of count stays valid until its atomic32_add: only the *)
(* worker moves count meanwhile, and downwards.                              *)
RoomChecked == io \in {"copy", "torn", "add"} => count < Size

(* The indices, which the two threads never compare, stay count slots apart. *)
IndicesAgree == in = At(out + count)

(* A copied packet is complete before it is counted. *)
CopyComplete == io = "add" => pkt[in] = Accepted + 1

(* The slot under the parser is the one just given back. *)
BehindOut == worker = "parse" => At(node + 1) = out

(* The counted slots hold whole packets in the order they were accepted: the *)
(* worker never gets one twice, out of order or half copied.                 *)
QueueInOrder == \A i \in 0 .. Size - 1 : i < count => pkt[At(out + i)] = taken + i + 1

Order == IndicesAgree /\ QueueInOrder /\ RoomChecked /\ CopyComplete

FifoInv == TypeOK /\ Order /\ BehindOut /\ ParsedIntact

LEMMA AtSlot ==
    ASSUME NEW i \in 0 .. 2 * Size - 1
    PROVE  At(i) \in Slot
BY DEF At, Slot

(* The slots a ring of Size slots reaches from one place are all different. *)
LEMMA AtInjective ==
    ASSUME NEW o \in Slot, NEW i \in 0 .. Size - 1, NEW j \in 0 .. Size - 1, i # j
    PROVE  At(o + i) # At(o + j)
BY DEF At, Slot

LEMMA AtNext ==
    ASSUME NEW o \in Slot, NEW i \in 0 .. Size - 1
    PROVE  At(At(o + 1) + i) = At(o + (i + 1)) /\ At(At(o + i) + 1) = At(o + (i + 1))
BY DEF At, Slot

LEMMA InvInit == Init => FifoInv
<1> SUFFICES ASSUME Init PROVE FifoInv
  OBVIOUS
<1>1. TypeOK
  <2>1. 0 \in Slot /\ 0 \in 0 .. Size
    BY DEF Slot
  <2>2. [s \in Slot |-> 0] \in [Slot -> Nat]
    OBVIOUS
  <2> QED
    BY <2>1, <2>2 DEF Init, TypeOK
<1>2. IndicesAgree
  BY DEF Init, IndicesAgree, At
<1>3. QueueInOrder
  BY DEF Init, QueueInOrder
<1>4. RoomChecked /\ CopyComplete /\ BehindOut /\ ParsedIntact
  BY DEF Init, RoomChecked, CopyComplete, BehindOut, ParsedIntact
<1> QED
  BY <1>1, <1>2, <1>3, <1>4 DEF FifoInv, Order

LEMMA TypeStep == TypeOK /\ RoomChecked /\ [Next]_vars => TypeOK' /\ RoomChecked'
<1> SUFFICES ASSUME TypeOK, RoomChecked, [Next]_vars PROVE TypeOK' /\ RoomChecked'
  OBVIOUS
<1>1. CASE PcapNext
  BY <1>1 DEF PcapNext, TypeOK, RoomChecked
<1>2. CASE CopyBegin
  BY <1>2 DEF CopyBegin, TypeOK, RoomChecked
<1>3. CASE CopyEnd
  BY <1>3 DEF CopyEnd, TypeOK, RoomChecked, Accepted
<1>4. CASE AddCount
  <2>1. in' \in Slot
    BY <1>4, AtSlot DEF AddCount, TypeOK, Slot
  <2>2. count' \in 0 .. Size
    BY <1>4 DEF AddCount, TypeOK, RoomChecked
  <2> QED
    BY <1>4, <2>1, <2>2 DEF AddCount, TypeOK, RoomChecked
<1>5. CASE Get
  <2>1. out' \in Slot
    BY <1>5, AtSlot DEF Get, TypeOK, Slot
  <2>2. count' \in 0 .. Size /\ count' < count
    BY <1>5 DEF Get, TypeOK
  <2>3. RoomChecked'
    BY <1>5, <2>2 DEF Get, TypeOK, RoomChecked
  <2> QED
    BY <1>5, <2>1, <2>2, <2>3 DEF Get, TypeOK
<1>6. CASE IoExit \/ ParseEnd \/ WorkerExit \/ SetDirReload \/ WorkerZeroReloads \/ SetDone
  BY <1>6 DEF IoExit, ParseEnd, WorkerExit, SetDirReload, WorkerZeroReloads, SetDone,
              TypeOK, RoomChecked
<1>7. CASE UNCHANGED vars
  BY <1>7 DEF vars, TypeOK, RoomChecked
<1> QED
  BY <1>1, <1>2, <1>3, <1>4, <1>5, <1>6, <1>7 DEF Next, IoThread, WorkerThread

(* The contents of the ring, step by step. *)
LEMMA OrderStep == TypeOK /\ Order /\ [Next]_vars => Order'
<1> SUFFICES ASSUME TypeOK, Order, [Next]_vars
             PROVE  IndicesAgree' /\ QueueInOrder' /\ CopyComplete'
  BY TypeStep DEF Order
<1>0. /\ in \in Slot /\ out \in Slot /\ count \in 0 .. Size /\ taken \in Nat
      /\ pkt \in [Slot -> Nat]
      /\ in = At(out + count)
      /\ io \in {"copy", "torn", "add"} => count \in 0 .. Size - 1
  BY DEF TypeOK, Order, IndicesAgree, RoomChecked
<1>1. CASE PcapNext \/ IoExit
  BY <1>1 DEF PcapNext, IoExit, Order, IndicesAgree, QueueInOrder, CopyComplete, Accepted
<1>2. CASE CopyBegin
  <2>1. IndicesAgree' /\ CopyComplete'
    BY <1>2 DEF CopyBegin, Order, IndicesAgree, CopyComplete
  <2>2. ASSUME NEW i \in 0 .. Size - 1, i < count
        PROVE  pkt'[At(out + i)] = taken + i + 1
    <3>1. At(out + i) # in /\ At(out + i) \in Slot
      <4>1. count \in 0 .. Size - 1 /\ i # count
        BY <1>0, <1>2, <2>2 DEF CopyBegin
      <4>2. At(out + i) # At(out + count)
        BY <1>0, <4>1, AtInjective
      <4>3. out + i \in 0 .. 2 * Size - 1
        BY <1>0 DEF Slot
      <4> QED
        BY <1>0, <4>2, <4>3, AtSlot
    <3> QED
      BY <1>0, <1>2, <2>2, <3>1 DEF CopyBegin, Order, QueueInOrder
  <2> QED
    BY <1>2, <2>1, <2>2 DEF CopyBegin, QueueInOrder
<1>3. CASE CopyEnd
  <2>1. IndicesAgree' /\ CopyComplete'
    BY <1>0, <1>3 DEF CopyEnd, Order, IndicesAgree, CopyComplete, Accepted
  <2>2. ASSUME NEW i \in 0 .. Size - 1, i < count
        PROVE  pkt'[At(out + i)] = taken + i + 1
    <3>1. At(out + i) # in /\ At(out + i) \in Slot
      <4>1. count \in 0 .. Size - 1 /\ i # count
        BY <1>0, <1>3, <2>2 DEF CopyEnd
      <4>2. At(out + i) # At(out + count)
        BY <1>0, <4>1, AtInjective
      <4>3. out + i \in 0 .. 2 * Size - 1
        BY <1>0 DEF Slot
      <4> QED
        BY <1>0, <4>2, <4>3, AtSlot
    <3> QED
      BY <1>0, <1>3, <2>2, <3>1 DEF CopyEnd, Order, QueueInOrder
  <2> QED
    BY <1>3, <2>1, <2>2 DEF CopyEnd, QueueInOrder
<1>4. CASE AddCount
  <2>1. in' = At(out + (count + 1)) /\ count' = count + 1 /\ out' = out
    BY <1>0, <1>4, AtNext DEF AddCount
  <2>2. IndicesAgree' /\ CopyComplete'
    BY <1>4, <2>1 DEF AddCount, IndicesAgree, CopyComplete
  <2>3. ASSUME NEW i \in 0 .. Size - 1, i < count + 1
        PROVE  pkt[At(out + i)] = taken + i + 1
    <3>1. CASE i < count
      BY <3>1 DEF Order, QueueInOrder
    <3>2. CASE i = count
      <4>1. pkt[in] = (taken + count) + 1
        BY <1>4 DEF AddCount, Order, CopyComplete, Accepted
      <4> QED
        BY <1>0, <3>2, <4>1
    <3> QED
      BY <1>0, <2>3, <3>1, <3>2
  <2> QED
    BY <1>4, <2>1, <2>2, <2>3 DEF AddCount, QueueInOrder
<1>5. CASE Get
  <2>1. /\ out' = At(out + 1) /\ count' = count - 1 /\ taken' = taken + 1
        /\ in' = in /\ pkt' = pkt /\ io' = io /\ count > 0
    BY <1>5 DEF Get
  <2>2. IndicesAgree'
    <3>1. At(At(out + 1) + (count - 1)) = At(out + ((count - 1) + 1))
      BY <1>0, <2>1, AtNext
    <3> QED
      BY <1>0, <2>1, <3>1 DEF IndicesAgree
  <2>3. CopyComplete'
    BY <1>0, <2>1 DEF Order, CopyComplete, Accepted
  <2>4. ASSUME NEW i \in 0 .. Size - 1, i < count - 1
        PROVE  pkt[At(At(out + 1) + i)] = (taken + 1) + i + 1
    <3>1. At(At(out + 1) + i) = At(out + (i + 1))
      BY <1>0, AtNext
    <3>2. i + 1 \in 0 .. Size - 1 /\ i + 1 < count
      BY <1>0, <2>4
    <3>3. pkt[At(out + (i + 1))] = taken + (i + 1) + 1
      BY <3>2 DEF Order, QueueInOrder
    <3> QED
      BY <1>0, <3>1, <3>3
  <2> QED
    BY <2>1, <2>2, <2>3, <2>4 DEF QueueInOrder
<1>6. CASE ParseEnd \/ WorkerExit \/ SetDirReload \/ WorkerZeroReloads \/ SetDone
  BY <1>6 DEF ParseEnd, WorkerExit, SetDirReload, WorkerZeroReloads, SetDone,
              Order, IndicesAgree, QueueInOrder, CopyComplete, Accepted
<1>7. CASE UNCHANGED vars
  BY <1>7 DEF vars, Order, IndicesAgree, QueueInOrder, CopyComplete, Accepted
<1> QED
  BY <1>1, <1>2, <1>3, <1>4, <1>5, <1>6, <1>7 DEF Next, IoThread, WorkerThread

(* What the parser sees through its pointer, step by step. *)
LEMMA ParseStep == FifoInv /\ [Next]_vars => BehindOut' /\ ParsedIntact'
<1> SUFFICES ASSUME FifoInv, [Next]_vars PROVE BehindOut' /\ ParsedIntact'
  OBVIOUS
<1>0. /\ in \in Slot /\ out \in Slot /\ node \in Slot /\ count \in 0 .. Size
      /\ taken \in Nat /\ pkt \in [Slot -> Nat] /\ in = At(out + count)
      /\ io \in {"copy", "torn", "add"} => count \in 0 .. Size - 1
  BY DEF FifoInv, TypeOK, Order, IndicesAgree, RoomChecked
(* The io thread writes the parser's slot only when it has filled the rest. *)
<1>a. ASSUME worker = "parse", in = node, count \in 0 .. Size - 1 PROVE count = Size - 1
  <2>1. At(node + 1) = out /\ At(out + count) = node
    BY <1>0, <1>a DEF FifoInv, BehindOut
  <2> QED
    BY <1>0, <1>a, <2>1 DEF At, Slot
<1>1. CASE PcapNext \/ IoExit
  BY <1>1 DEF PcapNext, IoExit, FifoInv, BehindOut, ParsedIntact, CaughtUp
<1>2. CASE CopyBegin
  <2>1. BehindOut'
    BY <1>2 DEF CopyBegin, FifoInv, BehindOut
  <2>2. ASSUME worker = "parse", count # Size - 1 PROVE pkt'[node] = taken
    <3>1. count \in 0 .. Size - 1 /\ io = "copy"
      BY <1>0, <1>2 DEF CopyBegin
    <3>2. in # node
      BY <1>a, <2>2, <3>1
    <3>3. pkt[node] = taken
      BY <1>0, <2>2, <3>1 DEF FifoInv, ParsedIntact, CaughtUp
    <3> QED
      BY <1>0, <1>2, <3>2, <3>3 DEF CopyBegin
  <2> QED
    BY <1>2, <2>1, <2>2 DEF CopyBegin, ParsedIntact, CaughtUp
<1>3. CASE CopyEnd
  <2>1. BehindOut'
    BY <1>3 DEF CopyEnd, FifoInv, BehindOut
  <2>2. ASSUME worker = "parse", count # Size - 1 PROVE pkt'[node] = taken
    <3>1. count \in 0 .. Size - 1 /\ io = "torn"
      BY <1>0, <1>3 DEF CopyEnd
    <3>2. in # node
      BY <1>a, <2>2, <3>1
    <3>3. pkt[node] = taken
      BY <1>0, <2>2, <3>1 DEF FifoInv, ParsedIntact, CaughtUp
    <3> QED
      BY <1>0, <1>3, <3>2, <3>3 DEF CopyEnd
  <2> QED
    BY <1>3, <2>1, <2>2 DEF CopyEnd, ParsedIntact, CaughtUp
<1>4. CASE AddCount
  <2>1. BehindOut'
    BY <1>4 DEF AddCount, FifoInv, BehindOut
  <2>2. ASSUME worker = "parse", count + 1 # Size PROVE pkt[node] = taken
    <3>1. count # Size /\ count # Size - 1
      BY <1>0, <1>4, <2>2 DEF AddCount
    <3> QED
      BY <2>2, <3>1 DEF FifoInv, ParsedIntact, CaughtUp
  <2> QED
    BY <1>4, <2>1, <2>2 DEF AddCount, ParsedIntact, CaughtUp
<1>5. CASE Get
  <2>1. pkt[At(out + 0)] = taken + 0 + 1
    BY <1>0, <1>5 DEF Get, FifoInv, Order, QueueInOrder
  <2>2. At(out + 0) = out
    BY <1>0 DEF At, Slot
  <2>3. pkt[out] = taken + 1
    BY <1>0, <2>1, <2>2
  <2> QED
    BY <1>5, <2>3 DEF Get, BehindOut, ParsedIntact
<1>6. CASE ParseEnd \/ WorkerExit \/ SetDirReload \/ WorkerZeroReloads \/ SetDone
  BY <1>6 DEF ParseEnd, WorkerExit, SetDirReload, WorkerZeroReloads, SetDone,
              FifoInv, BehindOut, ParsedIntact, CaughtUp
<1>7. CASE UNCHANGED vars
  BY <1>7 DEF vars, FifoInv, BehindOut, ParsedIntact, CaughtUp
<1> QED
  BY <1>1, <1>2, <1>3, <1>4, <1>5, <1>6, <1>7 DEF Next, IoThread, WorkerThread

LEMMA FifoInvariant == Spec => []FifoInv
<1>1. FifoInv /\ [Next]_vars => FifoInv'
  BY TypeStep, OrderStep, ParseStep DEF FifoInv, Order
<1> QED
  BY <1>1, InvInit, PTL DEF Spec

(* The indices stay inside the ring and count never exceeds its size, though *)
(* pkt_fifo_put tests count and adds to it in two steps.                     *)
THEOREM FifoTypeCorrect == Spec => []TypeOK
BY FifoInvariant, PTL DEF FifoInv

(* The worker gets the accepted packets whole, in order, none twice. *)
THEOREM FifoOrder == Spec => [](IndicesAgree /\ QueueInOrder)
BY FifoInvariant, PTL DEF FifoInv, Order

(* The packet being parsed is overwritten only by an io thread that has       *)
(* filled all other slots since it was taken.                                 *)
THEOREM ParserSeesItsPacket == Spec => []ParsedIntact
BY FifoInvariant, PTL DEF FifoInv

-----------------------------------------------------------------------------
(* The refinement of PktQueue *)

(* The counted slots, oldest first. *)
Counted == [i \in 1 .. count |-> pkt[At(out + (i - 1))]]

CountedIs ==
    /\ Counted \in Seq(Nat) /\ Len(Counted) = count
    /\ \A i \in 1 .. count : Counted[i] = taken + i

LEMMA CountedSeq == FifoInv => CountedIs
<1> SUFFICES ASSUME FifoInv PROVE CountedIs
  OBVIOUS
<1>0. count \in 0 .. Size /\ count \in Nat /\ taken \in Nat
  BY DEF FifoInv, TypeOK
<1>1. ASSUME NEW i \in 1 .. count PROVE Counted[i] = taken + i
  <2>1. i - 1 \in 0 .. Size - 1 /\ i - 1 < count
    BY <1>0
  <2>2. pkt[At(out + (i - 1))] = taken + (i - 1) + 1
    BY <2>1 DEF FifoInv, Order, QueueInOrder
  <2> QED
    BY <1>0, <2>2 DEF Counted
<1>2. Counted \in [1 .. count -> Nat]
  BY <1>0, <1>1 DEF Counted
<1>3. Counted \in Seq(Nat) /\ Len(Counted) = count
  BY <1>0, <1>2
<1> QED
  BY <1>1, <1>3 DEF CountedIs

LEMMA CountedSeqNext == FifoInv' => CountedIs'
BY CountedSeq, PTL

(* Two rings with the same counted packets, told by their numbers. *)
LEMMA SameCounted ==
    ASSUME NEW s \in Seq(Nat), NEW t \in Seq(Nat), Len(s) = Len(t), NEW k \in Nat,
           \A i \in 1 .. Len(s) : s[i] = k + i,
           \A i \in 1 .. Len(t) : t[i] = k + i
    PROVE  s = t
BY SeqEqual

LEMMA CountedAdded ==
    ASSUME FifoInv, FifoInv', AddCount
    PROVE  Counted' = Append(Counted, Accepted + 1)
<1>0. count \in Nat /\ taken \in Nat /\ count' = count + 1 /\ taken' = taken
  BY DEF AddCount, FifoInv, TypeOK
<1>1. /\ Counted \in Seq(Nat) /\ Len(Counted) = count
      /\ \A i \in 1 .. count : Counted[i] = taken + i
  BY CountedSeq DEF CountedIs
<1>2. /\ Counted' \in Seq(Nat) /\ Len(Counted') = count + 1
      /\ \A i \in 1 .. count + 1 : Counted'[i] = taken + i
  BY <1>0, CountedSeqNext DEF CountedIs
<1> DEFINE t == Append(Counted, taken + count + 1)
<1>3. /\ t \in Seq(Nat) /\ Len(t) = count + 1
      /\ \A i \in 1 .. count : t[i] = Counted[i]
      /\ t[count + 1] = taken + count + 1
  BY <1>0, <1>1, AppendProperties
<1>4. ASSUME NEW i \in 1 .. count + 1 PROVE t[i] = taken + i
  <2>1. i \in 1 .. count \/ i = count + 1
    BY <1>0
  <2> QED
    BY <1>0, <1>1, <1>3, <2>1
<1> HIDE DEF t
<1>5. Counted' = t
  BY <1>0, <1>2, <1>3, <1>4, SameCounted
<1> QED
  BY <1>0, <1>5 DEF t, Accepted

LEMMA CountedTaken ==
    ASSUME FifoInv, FifoInv', Get
    PROVE  /\ Counted # <<>> /\ Head(Counted) = taken + 1 /\ Counted' = Tail(Counted)
<1>0. count \in Nat /\ count > 0 /\ taken \in Nat /\ count' = count - 1 /\ taken' = taken + 1
  BY DEF Get, FifoInv, TypeOK
<1>1. /\ Counted \in Seq(Nat) /\ Len(Counted) = count
      /\ \A i \in 1 .. count : Counted[i] = taken + i
  BY CountedSeq DEF CountedIs
<1>2. /\ Counted' \in Seq(Nat) /\ Len(Counted') = count - 1
      /\ \A i \in 1 .. count - 1 : Counted'[i] = (taken + 1) + i
  BY <1>0, CountedSeqNext DEF CountedIs
<1>3. Counted # <<>>
  BY <1>0, <1>1, EmptySeq
<1>4. /\ Head(Counted) = Counted[1]
      /\ Tail(Counted) \in Seq(Nat) /\ Len(Tail(Counted)) = count - 1
      /\ \A i \in 1 .. count - 1 : Tail(Counted)[i] = Counted[i + 1]
  BY <1>0, <1>1, <1>3, HeadTailProperties
<1>5. \A i \in 1 .. count - 1 : Tail(Counted)[i] = (taken + 1) + i
  <2> SUFFICES ASSUME NEW i \in 1 .. count - 1 PROVE Tail(Counted)[i] = (taken + 1) + i
    OBVIOUS
  <2>1. i + 1 \in 1 .. count
    BY <1>0
  <2> QED
    BY <1>0, <1>1, <1>4, <2>1
<1>6. Counted' = Tail(Counted)
  <2>1. taken + 1 \in Nat
    BY <1>0
  <2> QED
    BY <1>2, <1>4, <1>5, <2>1, SameCounted
<1> QED
  BY <1>0, <1>1, <1>3, <1>4, <1>6

(* A step that leaves indices, count and history alone, and at most fills    *)
(* the slot behind the counted ones.                                         *)
LEMMA CountedSame ==
    ASSUME FifoInv, FifoInv', UNCHANGED <<count, taken>>
    PROVE  Counted' = Counted
<1>0. count \in Nat /\ taken \in Nat
  BY DEF FifoInv, TypeOK
<1>1. /\ Counted \in Seq(Nat) /\ Len(Counted) = count
      /\ \A i \in 1 .. count : Counted[i] = taken + i
  BY CountedSeq DEF CountedIs
<1>2. /\ Counted' \in Seq(Nat) /\ Len(Counted') = count
      /\ \A i \in 1 .. count : Counted'[i] = taken + i
  BY CountedSeqNext DEF CountedIs
<1> QED
  BY <1>0, <1>1, <1>2, SameCounted

LEMMA QueueStep == FifoInv /\ FifoInv' /\ [Next]_vars => [Queue!Next]_Queue!vars
<1> SUFFICES ASSUME FifoInv, FifoInv', [Next]_vars PROVE Queue!Next \/ UNCHANGED Queue!vars
  OBVIOUS
<1>0. count \in 0 .. Size /\ taken \in Nat /\ Len(Counted) = count
  BY CountedSeq DEF CountedIs, FifoInv, TypeOK
<1> USE DEF Accepted
<1>1. CASE AddCount
  <2>1. Len(Counted) < Size /\ Counted' = Append(Counted, Accepted + 1)
    BY <1>0, <1>1, CountedAdded DEF AddCount, FifoInv, Order, RoomChecked
  <2>2. Accepted' = Accepted + 1 /\ UNCHANGED <<taken, lost_pkts>>
    BY <1>0, <1>1 DEF AddCount
  <2>3. Queue!Put
    BY <2>1, <2>2 DEF Queue!Put, Counted
  <2> QED
    BY <2>3 DEF Queue!Next
<1>2. CASE Get
  <2>1. Counted # <<>> /\ Head(Counted) = taken + 1 /\ Counted' = Tail(Counted)
    BY <1>2, CountedTaken
  <2>2. taken' = taken + 1 /\ Accepted' = Accepted /\ UNCHANGED lost_pkts
    BY <1>0, <1>2 DEF Get
  <2>3. Queue!Take
    BY <2>1, <2>2 DEF Queue!Take, Counted
  <2> QED
    BY <2>3 DEF Queue!Next
<1>3. CASE PcapNext
  <2>1. Counted' = Counted /\ UNCHANGED <<count, taken>>
    BY <1>3, CountedSame DEF PcapNext
  <2>2. CASE count >= Size
    <3>1. Len(Counted) = Size /\ lost_pkts' = lost_pkts + 1 /\ Accepted' = Accepted
      BY <1>0, <1>3, <2>1, <2>2 DEF PcapNext
    <3>2. Queue!Refuse
      BY <2>1, <3>1 DEF Queue!Refuse, Counted
    <3> QED
      BY <3>2 DEF Queue!Next
  <2>3. CASE ~(count >= Size)
    BY <1>3, <2>1, <2>3 DEF PcapNext, Queue!vars, Counted
  <2> QED
    BY <2>2, <2>3
<1>4. CASE \/ CopyBegin \/ CopyEnd \/ IoExit \/ ParseEnd \/ WorkerExit
           \/ SetDirReload \/ WorkerZeroReloads \/ SetDone \/ UNCHANGED vars
  <2>1. UNCHANGED <<count, taken, lost_pkts>>
    BY <1>4 DEF CopyBegin, CopyEnd, IoExit, ParseEnd, WorkerExit, SetDirReload, WorkerZeroReloads,
                SetDone, vars
  <2>2. Counted' = Counted
    BY <2>1, CountedSame
  <2> QED
    BY <2>1, <2>2 DEF Queue!vars, Counted
<1> QED
  BY <1>1, <1>2, <1>3, <1>4 DEF Next, IoThread, WorkerThread

(* For every size the ring implements a bounded fifo queue: each accepted    *)
(* packet is taken once, whole and in order, and one is refused only by a    *)
(* full ring.                                                                *)
THEOREM FifoImplementsQueue == Spec => RefinesQueue
<1>1. Init => Queue!Init
  <2> SUFFICES ASSUME Init PROVE Queue!Init
    OBVIOUS
  <2>1. Counted = <<>>
    <3>1. Counted \in Seq(Nat) /\ Len(Counted) = 0
      BY InvInit, CountedSeq DEF Init, CountedIs
    <3> QED
      BY <3>1, EmptySeq
  <2> QED
    BY <2>1 DEF Init, Queue!Init, Counted, Accepted
<1> QED
  BY <1>1, FifoInvariant, QueueStep, PTL DEF Spec, RefinesQueue, Queue!Spec
=============================================================================
