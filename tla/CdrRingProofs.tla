---------------------------- MODULE CdrRingProofs ----------------------------
(***************************************************************************)
(* Theorems about CdrRing for every ring size N >= 2, every batch size and *)
(* every environment bound: the types, the order and the contents of the   *)
(* window, that the ring with its 16-bit arithmetic implements the plain   *)
(* window of CdrWindow, and that acknowledgements can be believed.         *)
(***************************************************************************)
EXTENDS CdrRing, TLAPS

USE RingAssumption, EnvAssumption

(* The batch cdr_send takes is not empty, at most N, and ends inside cdr_buf. *)
LEMMA BatchFits ==
    ASSUME NEW s \in Index, NEW w \in Index, s # w
    PROVE  /\ batch_size(s, w) \in 1 .. N
           /\ batch_size(s, w) \in 1 .. Batch
           /\ s + batch_size(s, w) <= N
           /\ batch_size(s, w) <= USub(w, s)
BY DEF batch_size, Index, USub

(* An accepted acknowledgement stays an index. *)
LEMMA AckIndex ==
    ASSUME NEW a \in Index, TypeOK
    PROVE  cdr_update_ack(a) \in Index
BY DEF cdr_update_ack, TypeOK

(* The message cdr_send builds is well formed. *)
LEMMA MessageBuilt ==
    ASSUME TypeOK, send # wait
    PROVE  [idx |-> send,
            recs |-> [j \in 1 .. batch_size(send, wait) |-> ring[send + j - 1]]] \in Message
<1> DEFINE num == batch_size(send, wait)
           recs == [j \in 1 .. num |-> ring[send + j - 1]]
<1>1. num \in 1 .. N /\ send + num <= N
  BY BatchFits DEF TypeOK
<1>2. \A j \in 1 .. num : ring[send + j - 1] \in Nat
  BY <1>1, SMTT(20) DEF TypeOK, Index
<1>3. recs \in Seq(Nat) /\ Len(recs) = num
  BY <1>1, <1>2
<1> QED
  BY <1>1, <1>3 DEF Message, TypeOK

(* A head and a tail of a non-empty sequence, as ServerRecv and Recv use them. *)
LEMMA HeadTail ==
    ASSUME NEW S, NEW q \in Seq(S), q # <<>>
    PROVE  Head(q) \in S /\ Tail(q) \in Seq(S)
OBVIOUS

(* What the server acknowledges for a message is an index and a record. *)
LEMMA AckOfMessage ==
    ASSUME NEW f \in Message
    PROVE  /\ UAdd(f.idx, Len(f.recs) - 1) \in Index
           /\ f.recs[Len(f.recs)] \in Nat
<1>1. f.idx \in Index /\ f.recs \in Seq(Nat) /\ Len(f.recs) \in 1 .. N
  BY DEF Message
<1>2. f.recs[Len(f.recs)] \in Nat
  BY <1>1
<1>3. UAdd(f.idx, Len(f.recs) - 1) \in Index
  BY <1>1, SMTT(20) DEF UAdd, Index
<1> QED
  BY <1>2, <1>3

LEMMA TypeInit == Init => TypeOK
BY DEF Init, TypeOK, Index, Message, NoFrame, Links, PCs, AckLen

LEMMA CloseTypes ==
    ASSUME Close
    PROVE  link' \in Links /\ out' \in Seq(Message) /\ off' \in 0 .. AckLen - 1
           /\ back' \in Seq([idx : Index, rec : Nat])
BY DEF Close, Links, AckLen

(* Every step keeps the types. *)
LEMMA TypeStep == TypeOK /\ [Next]_vars => TypeOK'
<1> SUFFICES ASSUME TypeOK, [Next]_vars PROVE TypeOK'
  OBVIOUS
<1> USE DEF ringVars, threadVars, netVars, flagVars
<1>1. CASE cdr_insert
  <2>1. ring' \in [Index -> Nat] /\ inserted' \in Nat
    BY <1>1 DEF cdr_insert, TypeOK
  <2>2. ack' \in Index /\ send' \in Index /\ wait' \in Index
    <3>1. \A i \in Index : UInc(i) \in Index
      BY DEF UInc, Index
    <3> QED
      BY <1>1, <3>1 DEF cdr_insert, TypeOK
  <2> QED
    BY <1>1, <2>1, <2>2 DEF cdr_insert, TypeOK
<1>2. CASE cdr_init
  BY <1>2 DEF cdr_init, TypeOK, Index, PCs
<1>3. CASE Exit
  BY <1>3, CloseTypes DEF Exit, TypeOK, PCs
<1>4. CASE Reload
  BY <1>4, CloseTypes DEF Reload, TypeOK, PCs
<1>5. CASE LoopTop
  BY <1>5 DEF LoopTop, TypeOK, PCs
<1>6. CASE ConnectFail
  BY <1>6 DEF ConnectFail, TypeOK, PCs
<1>7. CASE connect2cdr
  BY <1>7 DEF connect2cdr, TypeOK, PCs, Links
<1>8. CASE cdr_reset_send
  BY <1>8 DEF cdr_reset_send, TypeOK, PCs, UInc, Index
<1>9. CASE SelectTimeout
  BY <1>9 DEF SelectTimeout, TypeOK, PCs
<1>10. CASE RecvSome
  <2>1. PICK b \in 1 .. AckLen - recv_len : Recv(b)
    BY <1>10 DEF RecvSome
  <2>2. Head(back) \in [idx : Index, rec : Nat] /\ Tail(back) \in Seq([idx : Index, rec : Nat])
    BY <2>1, HeadTail DEF Recv, TypeOK
  <2>3. ack' \in Index
    BY <2>1, <2>2, AckIndex DEF Recv, TypeOK
  <2>4. back' \in Seq([idx : Index, rec : Nat])
    BY <2>1, <2>2 DEF Recv, TypeOK
  <2>5. recv_len' \in 0 .. AckLen - 1 /\ off' \in 0 .. AckLen - 1
    <3>1. recv_len \in 0 .. 3 /\ off \in 0 .. 3 /\ b \in 1 .. 4 - recv_len
      BY <2>1 DEF TypeOK, AckLen
    <3>2. /\ recv_len' = IF recv_len + b = 4 THEN 0 ELSE recv_len + b
          /\ off' = IF off + b >= 4 THEN off + b - 4 ELSE off + b
      BY <2>1, <3>1 DEF Recv, AckLen
    <3> QED
      BY <3>1, <3>2 DEF AckLen
  <2> QED
    BY <2>1, <2>3, <2>4, <2>5 DEF Recv, TypeOK, PCs
<1>11. CASE RecvEof
  BY <1>11, CloseTypes DEF RecvEof, TypeOK, PCs
<1>12. CASE cdr_send
  <2>1. CASE send = wait
    BY <1>12, <2>1 DEF cdr_send, TypeOK, PCs
  <2>2. CASE send # wait
    <3>1. frame' \in Message
      BY <1>12, <2>2, MessageBuilt DEF cdr_send
    <3>2. send' \in Index
      <4>1. send' = UAdd(send, batch_size(send, wait))
        BY <1>12, <2>2 DEF cdr_send
      <4>2. batch_size(send, wait) \in 1 .. N /\ send \in Index
        BY <2>2, BatchFits DEF TypeOK
      <4> QED
        BY <4>1, <4>2 DEF UAdd, Index
    <3> QED
      BY <1>12, <2>2, <3>1, <3>2 DEF cdr_send, TypeOK, PCs
  <2> QED
    BY <2>1, <2>2
<1>13. CASE WriteOk
  BY <1>13 DEF WriteOk, TypeOK, PCs
<1>14. CASE WriteFail
  BY <1>14, CloseTypes DEF WriteFail, TypeOK, PCs
<1>15. CASE RequestReload
  BY <1>15 DEF RequestReload, TypeOK
<1>16. CASE SetDone
  BY <1>16 DEF SetDone, TypeOK
<1>17. CASE CutLink
  BY <1>17 DEF CutLink, TypeOK, Links
<1>18. CASE ServerRecv
  <2>1. Head(out) \in Message /\ Tail(out) \in Seq(Message)
    BY <1>18, HeadTail DEF ServerRecv, TypeOK
  <2>2. /\ UAdd(Head(out).idx, Len(Head(out).recs) - 1) \in Index
        /\ Head(out).recs[Len(Head(out).recs)] \in Nat
    BY <2>1, AckOfMessage
  <2> QED
    BY <1>18, <2>1, <2>2 DEF ServerRecv, TypeOK
<1>19. CASE UNCHANGED vars
  BY <1>19 DEF vars, TypeOK
<1> QED
  BY <1>1, <1>2, <1>3, <1>4, <1>5, <1>6, <1>7, <1>8, <1>9, <1>10, <1>11, <1>12, <1>13,
     <1>14, <1>15, <1>16, <1>17, <1>18, <1>19 DEF Next, Thread, Environment

(* Types hold in every state: the indices stay inside cdr_buf, a message is *)
(* never empty, never larger than the ring and never runs past its end.     *)
THEOREM TypeCorrect == Spec => []TypeOK
BY TypeInit, TypeStep, PTL DEF Spec

-----------------------------------------------------------------------------
(* What a step can do to the ring: the five operations on it, and the rest,  *)
(* which leaves it alone.                                                    *)
RingReset == /\ ready /\ ready'
             /\ send' = UInc(ack)
             /\ UNCHANGED <<ring, ack, wait, inserted>>

RingAck == /\ ready /\ ready'
           /\ \E a \in Index : ack' = cdr_update_ack(a)
           /\ UNCHANGED <<ring, send, wait, inserted>>

RingSend == /\ ready /\ ready'
            /\ send # wait
            /\ send' = UAdd(send, batch_size(send, wait))
            /\ UNCHANGED <<ring, ack, wait, inserted>>

RingIdle == UNCHANGED ringVars /\ (ready' <=> ready)

LEMMA RecvKind ==
    ASSUME TypeOK, NEW b \in 1 .. AckLen - recv_len, Recv(b)
    PROVE  ready /\ (RingAck \/ RingIdle)
<1>1. Head(back).idx \in Index
  <2>1. back # <<>>
    BY DEF Recv
  <2>2. Head(back) \in [idx : Index, rec : Nat]
    BY <2>1, HeadTail DEF TypeOK
  <2> QED
    BY <2>2
<1>2. (\E a \in Index : ack' = cdr_update_ack(a)) \/ ack' = ack
  BY <1>1 DEF Recv
<1> QED
  BY <1>2 DEF Recv, RingAck, RingIdle, ready, ringVars

LEMMA StepKinds ==
    ASSUME TypeOK, [Next]_vars
    PROVE  cdr_insert \/ cdr_init \/ RingReset \/ RingAck \/ RingSend \/ RingIdle
<1> USE DEF ringVars, threadVars, netVars, flagVars, ready
<1>1. CASE cdr_insert \/ cdr_init
  BY <1>1
<1>2. CASE Exit \/ Reload \/ LoopTop \/ ConnectFail \/ connect2cdr
  BY <1>2 DEF Exit, Reload, LoopTop, ConnectFail, connect2cdr, RingIdle
<1>3. CASE SelectTimeout \/ RecvEof \/ WriteOk \/ WriteFail
  BY <1>3 DEF SelectTimeout, RecvEof, WriteOk, WriteFail, RingIdle
<1>4. CASE RequestReload \/ SetDone \/ CutLink \/ ServerRecv
  BY <1>4 DEF RequestReload, SetDone, CutLink, ServerRecv, RingIdle
<1>5. CASE cdr_reset_send
  BY <1>5 DEF cdr_reset_send, RingReset
<1>6. CASE RecvSome
  BY <1>6, RecvKind DEF RecvSome
<1>7. CASE cdr_send
  BY <1>7 DEF cdr_send, RingSend, RingIdle
<1>8. CASE UNCHANGED vars
  BY <1>8 DEF vars, RingIdle
<1> QED
  BY <1>1, <1>2, <1>3, <1>4, <1>5, <1>6, <1>7, <1>8 DEF Next, Thread, Environment

(* The positions of the marks after each operation, read as numbers.  The    *)
(* wrap-around arithmetic of the ring is used here and nowhere else.         *)
LEMMA InsertMarks ==
    ASSUME TypeOK, unsent <= pending, cdr_insert
    PROVE  /\ pending' = IF pending = N - 1 THEN pending ELSE pending + 1
           /\ unsent' = IF pending = N - 1 /\ unsent = N - 1 THEN unsent ELSE unsent + 1
           /\ wait = ack <=> pending = N - 1
<1>1. /\ wait' = UInc(wait)
      /\ ack' = IF wait = ack THEN UInc(ack) ELSE ack
      /\ send' = IF wait = ack /\ UInc(ack) = send THEN UInc(send) ELSE send
  BY DEF cdr_insert
<1>2. ack \in 0 .. N - 1 /\ send \in 0 .. N - 1 /\ wait \in 0 .. N - 1
  BY DEF TypeOK, Index
<1>3. wait = ack <=> pending = N - 1
  BY <1>2 DEF pending, USub
<1>4. pending' = IF wait = ack THEN pending ELSE pending + 1
  BY <1>1, <1>2 DEF pending, USub, UInc
<1>5. unsent' = IF wait = ack /\ unsent = N - 1 THEN unsent ELSE unsent + 1
  BY <1>1, <1>2 DEF pending, unsent, USub, UInc
<1> QED
  BY <1>3, <1>4, <1>5

LEMMA AckMarks ==
    ASSUME TypeOK, unsent <= pending, RingAck
    PROVE  /\ unsent' = unsent
           /\ pending' \in unsent .. pending
BY DEF TypeOK, Index, RingAck, cdr_update_ack, pending, unsent, USub

LEMMA ResetMarks ==
    ASSUME TypeOK, RingReset
    PROVE  pending' = pending /\ unsent' = pending
BY DEF TypeOK, Index, RingReset, pending, unsent, USub, UInc

LEMMA SendMarks ==
    ASSUME TypeOK, unsent <= pending, RingSend
    PROVE  \E n \in 1 .. Batch :
              n <= unsent /\ pending' = pending /\ unsent' = unsent - n
<1>1. PICK n \in 1 .. Batch : n <= unsent /\ send + n <= N /\ send' = UAdd(send, n)
  BY BatchFits DEF TypeOK, RingSend, unsent
<1>2. pending' = pending /\ wait' = wait
  BY DEF RingSend, pending
<1>3. unsent' = unsent - n
  BY <1>1, <1>2 DEF TypeOK, Index, unsent, USub, UAdd
<1> QED
  BY <1>1, <1>2, <1>3

LEMMA MarksInRange ==
    ASSUME TypeOK
    PROVE  pending \in 0 .. N - 1 /\ unsent \in 0 .. N - 1
BY DEF TypeOK, Index, pending, unsent, USub

LEMMA InitMarks ==
    ASSUME cdr_init
    PROVE  ready' /\ pending' = 0 /\ unsent' = 0 /\ inserted' = 0
BY DEF cdr_init, ready, pending, unsent, USub

-----------------------------------------------------------------------------
LEMMA OrderStep == TypeOK /\ WindowOrder /\ [Next]_vars => WindowOrder'
<1> SUFFICES ASSUME TypeOK, WindowOrder, [Next]_vars, ready'
             PROVE  unsent' <= pending' /\ pending' <= inserted'
  BY DEF WindowOrder
<1>0. pending \in 0 .. N - 1 /\ unsent \in 0 .. N - 1 /\ inserted \in Nat
  BY MarksInRange DEF TypeOK
<1>1. CASE cdr_insert
  <2>1. ready /\ inserted' = inserted + 1
    BY <1>1 DEF cdr_insert, ready, threadVars
  <2> QED
    BY <1>0, <1>1, <2>1, InsertMarks DEF WindowOrder
<1>2. CASE cdr_init
  BY <1>2, InitMarks
<1>3. CASE RingReset
  BY <1>0, <1>3, ResetMarks DEF WindowOrder, RingReset
<1>4. CASE RingAck
  BY <1>0, <1>4, AckMarks DEF WindowOrder, RingAck
<1>5. CASE RingSend
  BY <1>0, <1>5, SendMarks DEF WindowOrder, RingSend
<1>6. CASE RingIdle
  BY <1>6 DEF RingIdle, ringVars, WindowOrder, pending, unsent
<1> QED
  BY <1>1, <1>2, <1>3, <1>4, <1>5, <1>6, StepKinds

(* The send mark is never before the ack mark nor after the wait mark of the *)
(* ring, through every overflow, reset and acknowledgement.                  *)
THEOREM WindowOrdered == Spec => []WindowOrder
<1>1. Init => WindowOrder
  BY DEF Init, WindowOrder, ready
<1> QED
  BY <1>1, TypeCorrect, OrderStep, PTL DEF Spec

-----------------------------------------------------------------------------
(* wait is one slot past the newest pending record. *)
LEMMA WaitPosition ==
    ASSUME NEW a \in Index, NEW w \in Index
    PROVE  w = UAdd(a, USub(USub(w, a), 1) + 1)
BY DEF Index, USub, UAdd

(* Two windows that end in the same slot share their slots. *)
LEMMA SharedSlots ==
    ASSUME NEW a \in Index, NEW b \in Index, NEW p \in 0 .. N - 1, NEW q \in 0 .. p,
           UAdd(a, p + 1) = UAdd(b, q + 1), NEW j \in 1 .. q
    PROVE  UAdd(b, j) = UAdd(a, j + (p - q))
BY DEF Index, UAdd

(* An acknowledgement moves ack forward by as many slots as records leave.   *)
LEMMA AckMoves ==
    ASSUME TypeOK, unsent <= pending, RingAck, NEW j \in 1 .. N - 1, j <= pending'
    PROVE  UAdd(ack', j) = UAdd(ack, j + (pending - pending'))
<1>1. pending \in 0 .. N - 1 /\ pending' \in 0 .. pending
  BY AckMarks, MarksInRange
<1>2. ack \in Index /\ ack' \in Index /\ wait \in Index /\ wait' = wait
  BY AckIndex DEF RingAck, TypeOK
<1>3. wait = UAdd(ack, pending + 1)
  BY <1>2, WaitPosition DEF pending
<1>4. wait' = UAdd(ack', pending' + 1)
  BY <1>2, WaitPosition DEF pending
<1>5. j \in 1 .. pending'
  BY <1>1
<1> QED
  BY <1>1, <1>2, <1>3, <1>4, <1>5, SharedSlots

LEMMA IntactStep == TypeOK /\ WindowOrder /\ WindowIntact /\ [Next]_vars => WindowIntact'
<1> SUFFICES ASSUME TypeOK, WindowOrder, WindowIntact, [Next]_vars, ready',
                    NEW j \in 1 .. N - 1, j <= pending'
             PROVE  ring'[UAdd(ack', j)] = acked' + j
  BY DEF WindowIntact
<1>0. pending \in 0 .. N - 1 /\ unsent \in 0 .. N - 1 /\ inserted \in Nat
  BY MarksInRange DEF TypeOK
<1>1. CASE cdr_insert
  <2>1. ready /\ inserted' = inserted + 1 /\ ring' = [ring EXCEPT ![wait] = inserted + 1]
    BY <1>1 DEF cdr_insert, ready, threadVars
  <2>2. /\ pending' = IF wait = ack THEN pending ELSE pending + 1
        /\ wait = ack <=> pending = N - 1
    BY <1>1, <2>1, InsertMarks DEF WindowOrder
  <2>3. ack' = IF wait = ack THEN UInc(ack) ELSE ack
    BY <1>1 DEF cdr_insert
  <2>a. wait = UAdd(ack, pending + 1) /\ ack \in Index /\ wait \in Index
    BY WaitPosition DEF pending, TypeOK
  <2>7. pending' \in 1 .. N - 1
    BY <1>0, <2>2
  <2>4. wait = UAdd(ack', pending') /\ UAdd(ack', j) \in Index
    BY <1>0, <2>2, <2>3, <2>7, <2>a DEF Index, UAdd, UInc
  <2>5. CASE j = pending'
    <3>1. ring'[wait] = inserted + 1
      BY <2>1, <2>a DEF TypeOK
    <3>2. acked' = (inserted + 1) - j
      BY <2>1, <2>5 DEF acked
    <3>3. ((inserted + 1) - j) + j = inserted + 1
      BY <1>0
    <3> QED
      BY <2>4, <2>5, <3>1, <3>2, <3>3
  <2>6. CASE j < pending'
    <3>1. UAdd(ack', j) # wait
      <4>1. PICK a \in Index, p \in 1 .. N - 1 : a = ack' /\ p = pending'
        BY <2>3, <2>7, <2>a DEF Index, UInc
      <4> QED
        <5>1. wait = UAdd(a, p) /\ j < p /\ UAdd(ack', j) = UAdd(a, j)
          BY <2>4, <2>6, <4>1
        <5>2. UAdd(a, j) # UAdd(a, p)
          BY <5>1 DEF Index, UAdd
        <5> QED
          BY <5>1, <5>2
    <3>2. ring'[UAdd(ack', j)] = ring[UAdd(ack', j)]
      BY <2>1, <2>4, <3>1 DEF TypeOK
    <3>3. CASE wait = ack
      <4>1. UAdd(ack', j) = UAdd(ack, j + 1)
        BY <2>3, <3>3 DEF TypeOK, Index, UAdd, UInc
      <4>2. j + 1 \in 1 .. N - 1 /\ j + 1 <= pending
        BY <1>0, <2>2, <2>6, <3>3
      <4>3. ring[UAdd(ack, j + 1)] = acked + (j + 1)
        BY <2>1, <4>2 DEF WindowIntact
      <4> QED
        BY <1>0, <2>1, <2>2, <3>2, <3>3, <4>1, <4>3 DEF acked
    <3>4. CASE wait # ack
      <4>1. ring[UAdd(ack, j)] = acked + j
        BY <1>0, <2>1, <2>2, <2>6, <3>4 DEF WindowIntact
      <4> QED
        BY <1>0, <2>1, <2>2, <2>3, <3>2, <3>4, <4>1 DEF acked
    <3> QED
      BY <3>3, <3>4
  <2> QED
    BY <2>5, <2>6, <2>7
<1>2. CASE cdr_init
  BY <1>2, InitMarks
<1>3. CASE RingReset
  BY <1>3, ResetMarks DEF WindowIntact, RingReset, acked
<1>4. CASE RingAck
  <2>1. ready /\ ring' = ring /\ inserted' = inserted
    BY <1>4 DEF RingAck
  <2>5. pending' \in 0 .. pending
    BY <1>0, <1>4, <2>1, AckMarks DEF WindowOrder
  <2>6. PICK q \in 0 .. N - 1 : q = pending'
    BY <1>0, <2>5
  <2>7. q <= pending /\ j <= q
    BY <1>0, <2>5, <2>6
  <2>2. UAdd(ack', j) = UAdd(ack, j + (pending - q))
    BY <1>4, <2>6, AckMoves DEF WindowOrder, RingAck
  <2>3. j + (pending - q) \in 1 .. N - 1 /\ j + (pending - q) <= pending
    BY <1>0, <2>7
  <2>4. ring[UAdd(ack, j + (pending - q))] = acked + (j + (pending - q))
    BY <2>1, <2>3 DEF WindowIntact
  <2>8. acked' = inserted - q /\ acked = inserted - pending
    BY <2>1, <2>6 DEF acked
  <2>9. (inserted - pending) + (j + (pending - q)) = (inserted - q) + j
    BY <1>0
  <2> QED
    BY <2>1, <2>2, <2>4, <2>8, <2>9
<1>5. CASE RingSend
  BY <1>5, SendMarks DEF WindowOrder, WindowIntact, RingSend, acked
<1>6. CASE RingIdle
  BY <1>6 DEF RingIdle, ringVars, WindowIntact, pending, acked
<1> QED
  BY <1>1, <1>2, <1>3, <1>4, <1>5, <1>6, StepKinds

(* Every record that is neither acknowledged nor pushed out is in its slot,  *)
(* for every ring size: cdr_insert never overwrites one of them.             *)
THEOREM WindowContents == Spec => []WindowIntact
<1>1. Init => WindowIntact
  BY DEF Init, WindowIntact, ready
<1> QED
  BY <1>1, TypeCorrect, WindowOrdered, IntactStep, PTL DEF Spec

-----------------------------------------------------------------------------
LEMMA RefineStep ==
    TypeOK /\ WindowOrder /\ [Next]_vars => [Window!Next]_(Window!windowVars)
<1> SUFFICES ASSUME TypeOK, WindowOrder, [Next]_vars
             PROVE  Window!Next \/ UNCHANGED Window!windowVars
  OBVIOUS
<1>0. pending \in 0 .. N - 1 /\ unsent \in 0 .. N - 1 /\ inserted \in Nat
  BY MarksInRange DEF TypeOK
<1>1. CASE cdr_insert
  <2>1. (ready' <=> ready) /\ inserted' = inserted + 1
    BY <1>1 DEF cdr_insert, ready, threadVars
  <2>2. CASE ready
    <3>1. /\ acked' = IF inserted - acked = N - 1 THEN acked + 1 ELSE acked
          /\ sent' = IF sent < acked' THEN acked' ELSE sent
      BY <1>0, <1>1, <2>1, <2>2, InsertMarks DEF WindowOrder, acked, sent
    <3> QED
      BY <2>1, <2>2, <3>1 DEF Window!Next, Window!Submit
  <2>3. CASE ~ready
    BY <2>1, <2>3 DEF Window!windowVars
  <2> QED
    BY <2>2, <2>3
<1>2. CASE cdr_init
  <2>1. ~ready /\ acked' = 0 /\ sent' = 0
    BY <1>2, InitMarks DEF cdr_init, ready, acked, sent
  <2> QED
    BY <1>2, <2>1, InitMarks DEF Window!windowVars
<1>3. CASE RingReset
  <2>1. ready /\ ready' /\ inserted' = inserted /\ acked' = acked /\ sent' = acked
    BY <1>3, ResetMarks DEF RingReset, acked, sent
  <2> QED
    BY <2>1 DEF Window!Next, Window!Rewind
<1>4. CASE RingAck
  <2>1. ready /\ ready' /\ inserted' = inserted /\ sent' = sent /\ acked' \in acked .. sent
    BY <1>0, <1>4, AckMarks DEF WindowOrder, RingAck, acked, sent
  <2> QED
    BY <2>1 DEF Window!Next, Window!Acknowledge
<1>5. CASE RingSend
  <2>1. ready /\ ready' /\ inserted' = inserted
    BY <1>5 DEF RingSend
  <2>2. PICK n \in 1 .. Batch : n <= unsent /\ pending' = pending /\ unsent' = unsent - n
    BY <1>5, <2>1, SendMarks DEF WindowOrder
  <2>3. acked' = acked /\ sent' = sent + n /\ sent + n <= inserted
    BY <1>0, <2>1, <2>2 DEF acked, sent
  <2> QED
    BY <2>1, <2>3 DEF Window!Next, Window!Transmit
<1>6. CASE RingIdle
  BY <1>6 DEF RingIdle, ringVars, Window!windowVars, acked, sent, pending, unsent
<1> QED
  BY <1>1, <1>2, <1>3, <1>4, <1>5, <1>6, StepKinds

(* The ring with its 16-bit indices implements the window of CdrWindow: it   *)
(* keeps the newest N - 1 records, sends them in order with none skipped,    *)
(* moves over none that was not sent, and starts again at the oldest one.    *)
THEOREM RingImplementsWindow == Spec => RefinesWindow
<1>1. Init => Window!Init
  BY DEF Init, Window!Init, ready
<1> QED
  BY <1>1, TypeCorrect, WindowOrdered, RefineStep, PTL DEF Spec, RefinesWindow, Window!Spec

-----------------------------------------------------------------------------
(* The records in the sockets.  Why an acknowledgement can be believed: what *)
(* is on its way was sent since the last connect, in the order of the        *)
(* records, and the send mark has only moved forward meanwhile.              *)

Records(f) == {f.recs[j] : j \in 1 .. Len(f.recs)}
LastIdx(f) == UAdd(f.idx, Len(f.recs) - 1)
LastRec(f) == f.recs[Len(f.recs)]

(* Index x is the slot of record r, seen from the send mark, or r is a whole *)
(* ring or more behind it.                                                   *)
InStep(x, r) == sent - r >= N \/ sent - r = USub(USub(send, 1), x)

(* Record k is in the first n messages of the socket buffer. *)
Queued(k, n) == \E j \in 1 .. n : k \in Records(out[j])

(* A new connection starts with empty buffers, and nothing is left of an old *)
(* one.                                                                      *)
LinkInv ==
    /\ pc \in {"init", "connect", "exit"} => link = "none"
    /\ pc \in {"reset", "select", "send", "write"} => link # "none"
    /\ link = "none" \/ pc = "reset" => out = <<>> /\ back = <<>>

(* The server has every record up to an acknowledged one that is still in    *)
(* the window.                                                               *)
AckGood(b) ==
    /\ InStep(b.idx, b.rec)
    /\ \A k \in Nat : acked < k /\ k <= b.rec => k \in got

(* It has them, too, once it has read the n-th message and those before. *)
MsgGood(n) ==
    /\ InStep(LastIdx(out[n]), LastRec(out[n]))
    /\ \A k \in Nat : acked < k /\ k <= LastRec(out[n]) => k \in got \/ Queued(k, n)

(* Every record that was sent is with the server or on its way. *)
AllSent ==
    \A k \in Nat : acked < k /\ k <= sent =>
        k \in got \/ Queued(k, Len(out)) \/ (pc = "write" /\ k \in Records(frame))

StreamInv ==
    /\ \A n \in 1 .. Len(back) : AckGood(back[n])
    /\ \A n \in 1 .. Len(out) : MsgGood(n)
    /\ pc = "write" => InStep(LastIdx(frame), LastRec(frame))
    /\ link # "none" /\ pc # "reset" => AllSent

LEMMA FewerPending ==
    ASSUME NEW t \in Int, NEW p \in Int, NEW q \in Int, q <= p
    PROVE  t - q \in Int /\ t - q >= t - p
OBVIOUS

(* The send mark moves forward by as many slots as records are sent or       *)
(* pushed out unsent, except by a reset.                                     *)
LEMMA MarksGrow ==
    ASSUME TypeOK, WindowOrder, ready, cdr_insert \/ RingAck \/ RingSend \/ RingIdle
    PROVE  /\ acked \in Int /\ acked' \in Int /\ acked' >= acked
           /\ sent \in Int /\ acked <= sent
           /\ \E n \in 0 .. N : sent' = sent + n /\ send' = UAdd(send, n)
<1>1. pending \in 0 .. N - 1 /\ unsent \in 0 .. N - 1 /\ inserted \in Nat /\ unsent <= pending
  BY MarksInRange DEF TypeOK, WindowOrder
<1>2. acked \in Int /\ sent \in Int /\ acked <= sent
  BY <1>1 DEF acked, sent
<1>3. UAdd(send, 0) = send /\ UAdd(send, 1) = UInc(send) /\ 0 \in 0 .. N /\ 1 \in 0 .. N
  BY DEF TypeOK, Index, UAdd, UInc
<1>4. CASE cdr_insert
  <2>1. /\ pending' = IF pending = N - 1 THEN pending ELSE pending + 1
        /\ unsent' = IF pending = N - 1 /\ unsent = N - 1 THEN unsent ELSE unsent + 1
        /\ wait = ack <=> pending = N - 1
        /\ inserted' = inserted + 1
    BY <1>1, <1>4, InsertMarks DEF cdr_insert
  <2>2. acked' \in Int /\ acked' >= acked
    BY <1>1, <2>1 DEF acked
  <2>3. CASE pending = N - 1 /\ unsent = N - 1
    <3>1. UInc(ack) = send /\ wait = ack
      BY <2>1, <2>3 DEF TypeOK, Index, unsent, pending, USub, UInc
    <3>2. send' = UInc(send)
      BY <1>4, <3>1 DEF cdr_insert
    <3>3. sent' = sent + 1
      BY <1>1, <2>1, <2>3 DEF sent
    <3> QED
      BY <1>2, <1>3, <2>2, <3>2, <3>3
  <2>4. CASE ~(pending = N - 1 /\ unsent = N - 1)
    <3>1. ~(wait = ack /\ UInc(ack) = send)
      BY <2>1, <2>4 DEF TypeOK, Index, unsent, pending, USub, UInc
    <3>2. send' = send
      BY <1>4, <3>1 DEF cdr_insert
    <3>3. sent' = sent
      BY <1>1, <2>1, <2>4 DEF sent
    <3>4. sent' = sent + 0
      BY <1>2, <3>3
    <3> QED
      BY <1>2, <1>3, <2>2, <3>2, <3>4
  <2> QED
    BY <2>3, <2>4
<1>5. CASE RingAck
  <2>1. unsent' = unsent /\ pending' \in unsent .. pending /\ inserted' = inserted /\ send' = send
    BY <1>1, <1>5, AckMarks DEF RingAck
  <2>2. acked' \in Int /\ acked' >= acked
    <3>1. pending \in Int /\ pending' \in Int /\ pending' <= pending
      BY <1>1, <2>1
    <3>2. acked = inserted - pending /\ acked' = inserted - pending'
      BY <2>1 DEF acked
    <3> HIDE DEF acked, pending
    <3>3. inserted \in Int
      BY <1>1
    <3>4. inserted - pending' \in Int /\ inserted - pending' >= inserted - pending
      BY <3>1, <3>3, FewerPending
    <3> QED
      BY <3>2, <3>4, Zenon
  <2>3. sent' = sent + 0
    BY <1>1, <2>1 DEF sent
  <2> QED
    BY <1>2, <1>3, <2>1, <2>2, <2>3
<1>6. CASE RingSend
  <2>1. PICK n \in 1 .. Batch : n <= unsent /\ send + n <= N /\ send' = UAdd(send, n)
    BY <1>6, BatchFits DEF TypeOK, RingSend, unsent
  <2>2. pending' = pending /\ wait' = wait /\ inserted' = inserted
    BY <1>6 DEF RingSend, pending
  <2>3. unsent' = unsent - n
    BY <2>1, <2>2 DEF TypeOK, Index, unsent, USub, UAdd
  <2>4. acked' = acked /\ sent' = sent + n /\ n \in 0 .. N
    BY <1>1, <2>1, <2>2, <2>3 DEF acked, sent
  <2> QED
    BY <1>2, <2>1, <2>4
<1>7. CASE RingIdle
  <2>1. acked' = acked /\ sent' = sent /\ send' = send
    BY <1>7 DEF RingIdle, ringVars, acked, sent, pending, unsent
  <2>2. sent' = sent + 0
    BY <1>2, <2>1
  <2> QED
    BY <1>2, <1>3, <2>1, <2>2
<1> QED
  BY <1>4, <1>5, <1>6, <1>7

(* An insert that moves the send mark moves it with the ack mark: a record   *)
(* that was not sent is not skipped, unless it is pushed out.                *)
LEMMA PushedMarks ==
    ASSUME TypeOK, WindowOrder, ready, cdr_insert
    PROVE  sent' \in Int /\ (sent' <= sent \/ sent' <= acked')
<1>1. pending \in 0 .. N - 1 /\ unsent \in 0 .. N - 1 /\ inserted \in Nat /\ unsent <= pending
  BY MarksInRange DEF TypeOK, WindowOrder
<1>2. /\ pending' = IF pending = N - 1 THEN pending ELSE pending + 1
      /\ unsent' = IF pending = N - 1 /\ unsent = N - 1 THEN unsent ELSE unsent + 1
      /\ inserted' = inserted + 1
  BY <1>1, InsertMarks DEF cdr_insert
<1>3. sent' \in Int /\ (sent' = sent \/ sent' = acked')
  BY <1>1, <1>2 DEF sent, acked
<1>4. sent \in Int /\ acked' \in Int
  BY <1>1, <1>2 DEF sent, acked
<1> QED
  BY <1>3, <1>4

(* A slot seen from the send mark as the mark moves on. *)
LEMMA SlotRecedes ==
    ASSUME NEW s \in Index, NEW x \in Index, NEW n \in 0 .. N, NEW d \in Int,
           d >= N \/ d = USub(USub(s, 1), x)
    PROVE  d + n >= N \/ d + n = USub(USub(UAdd(s, n), 1), x)
BY DEF Index, USub, UAdd

LEMMA StaysInStep ==
    ASSUME TypeOK, WindowOrder, ready, cdr_insert \/ RingAck \/ RingSend \/ RingIdle,
           NEW x \in Index, NEW r \in Nat, InStep(x, r)
    PROVE  InStep(x, r)'
<1>1. PICK n \in 0 .. N : sent' = sent + n /\ send' = UAdd(send, n)
  BY MarksGrow
<1>2. sent \in Int /\ send \in Index
  BY MarksGrow DEF TypeOK
<1>3. (sent - r) + n >= N \/ (sent - r) + n = USub(USub(UAdd(send, n), 1), x)
  BY <1>2, SlotRecedes DEF InStep
<1>4. sent' - r = (sent - r) + n
  BY <1>1, <1>2
<1> QED
  BY <1>1, <1>3, <1>4 DEF InStep

(* What is in step is not ahead of the send mark. *)
LEMMA InStepSent ==
    ASSUME NEW x \in Index, NEW r \in Nat, TypeOK, sent \in Int, InStep(x, r)
    PROVE  r <= sent
<1>1. USub(USub(send, 1), x) \in Nat
  BY DEF TypeOK, Index, USub
<1> QED
  BY <1>1 DEF InStep

LEMMA LinkInit == Init => LinkInv
BY DEF Init, LinkInv

LEMMA LinkStep == TypeOK /\ LinkInv /\ [Next]_vars => LinkInv'
<1> SUFFICES ASSUME TypeOK, LinkInv, [Next]_vars PROVE LinkInv'
  OBVIOUS
<1> USE DEF LinkInv, threadVars, netVars
<1>1. CASE cdr_insert \/ cdr_init \/ LoopTop \/ ConnectFail \/ SelectTimeout
  BY <1>1 DEF cdr_insert, cdr_init, LoopTop, ConnectFail, SelectTimeout
<1>2. CASE Exit \/ Reload \/ RecvEof \/ WriteFail
  BY <1>2 DEF Exit, Reload, RecvEof, WriteFail, Close
<1>3. CASE connect2cdr \/ cdr_reset_send \/ cdr_send
  BY <1>3 DEF connect2cdr, cdr_reset_send, cdr_send
<1>4. CASE RecvSome
  BY <1>4 DEF RecvSome, Recv
<1>5. CASE WriteOk
  BY <1>5 DEF WriteOk
<1>6. CASE RequestReload \/ SetDone \/ CutLink
  BY <1>6 DEF RequestReload, SetDone, CutLink
<1>7. CASE ServerRecv
  BY <1>7 DEF ServerRecv
<1>8. CASE UNCHANGED vars
  BY <1>8 DEF vars
<1> QED
  BY <1>1, <1>2, <1>3, <1>4, <1>5, <1>6, <1>7, <1>8 DEF Next, Thread, Environment

(* The record and the index that ServerRecv acknowledges for a message. *)
LEMMA LastTyped ==
    ASSUME NEW f \in Message
    PROVE  LastIdx(f) \in Index /\ LastRec(f) \in Nat
BY AckOfMessage DEF LastIdx, LastRec

(* cdr_send: the message holds the records after the send mark, and its last *)
(* one is then in step.                                                      *)
LEMMA SentMessage ==
    ASSUME TypeOK, WindowOrder, WindowIntact, ready, cdr_send, send # wait
    PROVE  /\ acked' = acked /\ sent' \in Int
           /\ InStep(LastIdx(frame), LastRec(frame))'
           /\ \A k \in Nat : sent < k /\ k <= sent' => k \in Records(frame')
<1> DEFINE num == batch_size(send, wait)
<1>1. /\ num \in 1 .. N /\ send + num <= N /\ num <= unsent
      /\ send' = UAdd(send, num) /\ UNCHANGED <<ring, ack, wait, inserted>>
      /\ frame' = [idx |-> send, recs |-> [j \in 1 .. num |-> ring[send + j - 1]]]
  BY BatchFits DEF cdr_send, TypeOK, unsent
<1>2. /\ pending \in 0 .. N - 1 /\ unsent \in 0 .. N - 1 /\ inserted \in Nat /\ unsent <= pending
      /\ ack \in Index /\ send \in Index /\ wait \in Index
  BY MarksInRange DEF TypeOK, WindowOrder
<1> HIDE DEF num
<1>3. acked' = acked
  BY <1>1 DEF acked, pending
<1>4. sent \in Int /\ sent' = sent + num
  <2>1. unsent' = unsent - num
    BY <1>1, <1>2 DEF unsent, USub, UAdd, Index
  <2> QED
    BY <1>1, <1>2, <2>1 DEF sent
<1>5. ASSUME NEW j \in 1 .. num PROVE ring[send + j - 1] = sent + j
  <2> DEFINE d == pending - unsent + j
  <2>1. d \in 1 .. N - 1 /\ d <= pending
    BY <1>1, <1>2
  <2>2. UAdd(ack, d) = send + j - 1
    BY <1>1, <1>2 DEF Index, UAdd, USub, pending, unsent
  <2>3. ring[UAdd(ack, d)] = acked + d
    BY <2>1 DEF WindowIntact
  <2>4. acked + d = sent + j
    BY <1>1, <1>2 DEF acked, sent
  <2> QED
    BY <2>2, <2>3, <2>4
<1>6. frame'.idx = send /\ Len(frame'.recs) = num /\ \A j \in 1 .. num : frame'.recs[j] = sent + j
  <2>1. frame'.idx = send /\ frame'.recs = [j \in 1 .. num |-> ring[send + j - 1]]
    BY <1>1
  <2>2. Len([j \in 1 .. num |-> ring[send + j - 1]]) = num
    BY <1>1
  <2> QED
    BY <1>1, <1>5, <2>1, <2>2
<1>7. LastRec(frame') = sent' /\ LastIdx(frame') = USub(send', 1)
  <2>1. UAdd(send, num - 1) = USub(UAdd(send, num), 1)
    BY <1>1, <1>2 DEF Index, UAdd, USub
  <2> QED
    BY <1>1, <1>4, <1>6, <2>1 DEF LastRec, LastIdx
<1>8. InStep(LastIdx(frame), LastRec(frame))'
  <2>1. USub(USub(send', 1), USub(send', 1)) = 0
    BY <1>1, <1>2 DEF Index, UAdd, USub
  <2>2. sent' - sent' = 0
    BY <1>1, <1>4
  <2> QED
    BY <1>7, <2>1, <2>2 DEF InStep, LastRec, LastIdx
<1>9. ASSUME NEW k \in Nat, sent < k, k <= sent' PROVE k \in Records(frame')
  <2>1. k - sent \in 1 .. num /\ sent + (k - sent) = k
    BY <1>1, <1>4, <1>9
  <2> QED
    BY <1>6, <2>1 DEF Records
<1> QED
  BY <1>1, <1>3, <1>4, <1>8, <1>9

LEMMA EntryOf ==
    ASSUME NEW S, NEW q \in Seq(S)
    PROVE  \A n \in 1 .. Len(q) : q[n] \in S
OBVIOUS

LEMMA StreamInit == Init => StreamInv
BY DEF Init, StreamInv

LEMMA StreamStep ==
    TypeOK /\ TypeOK' /\ WindowOrder /\ WindowIntact /\ LinkInv /\ LinkInv' /\ StreamInv /\ [Next]_vars
        => StreamInv'
<1> SUFFICES ASSUME TypeOK, TypeOK', WindowOrder, WindowIntact, LinkInv, LinkInv', StreamInv, [Next]_vars
             PROVE  StreamInv'
  OBVIOUS
(* Before cdr_init and on a new or a closed connection the buffers are empty. *)
<1>1. CASE link' = "none" \/ pc' = "reset"
  <2>1. out' = <<>> /\ back' = <<>> /\ pc' # "write"
    BY <1>1 DEF LinkInv
  <2> QED
    BY <1>1, <2>1 DEF StreamInv
<1> SUFFICES ASSUME link' # "none", pc' # "reset" PROVE StreamInv'
  BY <1>1
<1>2. /\ \A n \in 1 .. Len(back) : back[n] \in [idx : Index, rec : Nat] /\ AckGood(back[n])
      /\ \A n \in 1 .. Len(out) : out[n] \in Message /\ MsgGood(n)
  <2>1. back \in Seq([idx : Index, rec : Nat]) /\ out \in Seq(Message)
    BY DEF TypeOK
  <2>2. /\ \A n \in 1 .. Len(back) : back[n] \in [idx : Index, rec : Nat]
        /\ \A n \in 1 .. Len(out) : out[n] \in Message
    BY <2>1, EntryOf
  <2>3. (\A n \in 1 .. Len(back) : AckGood(back[n])) /\ (\A n \in 1 .. Len(out) : MsgGood(n))
    BY Zenon DEF StreamInv
  <2> QED
    BY <2>2, <2>3, Zenon
(* As long as the mark is not reset, what was in step stays so. *)
<1>3. ASSUME ready, cdr_insert \/ RingAck \/ RingSend \/ RingIdle
      PROVE  /\ acked \in Int /\ acked' \in Int /\ acked' >= acked
             /\ \A x \in Index, r \in Nat : InStep(x, r) => InStep(x, r)'
  BY <1>3, MarksGrow, StaysInStep
<1>4. ASSUME ready, cdr_insert \/ RingAck \/ RingSend \/ RingIdle, got \subseteq got',
             NEW b \in [idx : Index, rec : Nat], AckGood(b)
      PROVE  AckGood(b)'
  <2>1. b.idx \in Index /\ b.rec \in Nat
    OBVIOUS
  <2>2. InStep(b.idx, b.rec)'
    BY <1>3, <1>4, <2>1 DEF AckGood
  <2>3. ASSUME NEW k \in Nat, acked' < k, k <= b.rec PROVE k \in got'
    <3>1. acked < k
      BY <1>3, <1>4, <2>3
    <3> QED
      BY <1>4, <2>3, <3>1 DEF AckGood
  <2> QED
    BY <2>2, <2>3 DEF AckGood
<1>5. ASSUME ready, cdr_insert \/ RingAck \/ RingSend \/ RingIdle, got \subseteq got', out' = out
      PROVE  \A n \in 1 .. Len(out') : MsgGood(n)'
  <2> SUFFICES ASSUME NEW n \in 1 .. Len(out) PROVE MsgGood(n)'
    BY <1>5
  <2>1. LastIdx(out[n]) \in Index /\ LastRec(out[n]) \in Nat /\ out'[n] = out[n]
    BY <1>2, <1>5, LastTyped
  <2>2. \A x, r : x = LastIdx(out[n]) /\ r = LastRec(out[n]) => InStep(x, r)'
    BY <1>2, <1>3, <1>5, <2>1 DEF MsgGood
  <2>3. ASSUME NEW k \in Nat, acked' < k, k <= LastRec(out[n])
        PROVE  k \in got' \/ Queued(k, n)'
    <3>1. acked < k
      BY <1>3, <1>5, <2>3
    <3>2. k \in got \/ Queued(k, n)
      BY <1>2, <2>3, <3>1 DEF MsgGood
    <3> QED
      BY <1>5, <3>2 DEF Queued
  <2> QED
    BY <1>5, <2>1, <2>2, <2>3 DEF MsgGood, LastIdx, LastRec, InStep
<1>6. ASSUME ready, cdr_insert \/ RingAck \/ RingSend \/ RingIdle,
             pc = "write", pc' = "write", frame' = frame
      PROVE  InStep(LastIdx(frame), LastRec(frame))'
  <2>1. LastIdx(frame) \in Index /\ LastRec(frame) \in Nat
    BY <1>6, LastTyped DEF TypeOK
  <2>2. \A x, r : x = LastIdx(frame) /\ r = LastRec(frame) => InStep(x, r)'
    BY <1>3, <1>6, <2>1 DEF StreamInv
  <2> QED
    BY <1>6, <2>2 DEF LastIdx, LastRec, InStep
<1>7. ASSUME AllSent, acked \in Int, acked' \in Int, acked' >= acked, sent' <= sent \/ sent' <= acked',
             sent \in Int, sent' \in Int, out' = out, got' = got,
             pc = "write" => pc' = "write" /\ frame' = frame
      PROVE  AllSent'
  <2> SUFFICES ASSUME NEW k \in Nat, acked' < k, k <= sent'
               PROVE  k \in got \/ Queued(k, Len(out)) \/ (pc' = "write" /\ k \in Records(frame'))
    BY <1>7 DEF AllSent, Queued
  <2>1. acked < k /\ k <= sent
    BY <1>7
  <2> QED
    BY <1>7, <2>1 DEF AllSent
<1>8. CASE cdr_reset_send
  <2>1. RingReset /\ out' = out /\ back' = back /\ pc = "reset" /\ pc' = "select"
    BY <1>8 DEF cdr_reset_send, RingReset, ready, netVars
  <2>2. out' = <<>> /\ back' = <<>>
    BY <2>1 DEF LinkInv
  <2>3. acked' = sent' /\ acked' \in Int
    <3>1. pending' = pending /\ unsent' = pending /\ inserted' = inserted
      BY <2>1, ResetMarks DEF RingReset
    <3>2. pending \in Int /\ inserted \in Int
      BY MarksInRange DEF TypeOK
    <3> QED
      BY <3>1, <3>2 DEF acked, sent
  <2>4. AllSent'
    BY <2>3 DEF AllSent
  <2> QED
    BY <2>1, <2>2, <2>4 DEF StreamInv
(* Steps that leave the buffers alone. *)
<1>9. CASE cdr_insert \/ LoopTop \/ SelectTimeout \/ RequestReload \/ SetDone \/ CutLink \/ UNCHANGED vars
  <2>1. /\ out' = out /\ back' = back /\ got' = got /\ frame' = frame
        /\ link # "none" /\ pc # "reset" /\ (pc = "write" <=> pc' = "write")
    BY <1>9 DEF cdr_insert, LoopTop, SelectTimeout, RequestReload, SetDone, CutLink, vars, threadVars, netVars
  <2>2. ready
    BY <2>1 DEF LinkInv, ready
  <2>3. cdr_insert \/ RingIdle
    BY <1>9 DEF LoopTop, SelectTimeout, RequestReload, SetDone, CutLink, vars, threadVars, RingIdle, ready
  <2>4. \A n \in 1 .. Len(back') : AckGood(back[n])'
    BY <1>2, <1>4, <2>1, <2>2, <2>3 DEF AckGood, InStep
  <2>5. \A n \in 1 .. Len(out') : MsgGood(n)'
    BY <1>5, <2>1, <2>2, <2>3
  <2>6. pc' = "write" => InStep(LastIdx(frame), LastRec(frame))'
    BY <1>6, <2>1, <2>2, <2>3
  <2>7. AllSent'
    <3>1. AllSent
      BY <2>1 DEF StreamInv
    <3>2. acked \in Int /\ acked' \in Int /\ acked' >= acked /\ sent \in Int
      BY <2>2, <2>3, MarksGrow
    <3>3. sent' \in Int /\ (sent' <= sent \/ sent' <= acked')
      <4>1. CASE cdr_insert
        BY <2>2, <4>1, PushedMarks
      <4>2. CASE RingIdle
        BY <3>2, <4>2 DEF RingIdle, ringVars, sent, unsent
      <4> QED
        BY <2>3, <4>1, <4>2
    <3> QED
      BY <1>7, <2>1, <3>1, <3>2, <3>3
  <2> QED
    BY <2>1, <2>4, <2>5, <2>6, <2>7 DEF StreamInv
<1>10. CASE RecvSome
  <2>1. PICK b \in 1 .. AckLen - recv_len : Recv(b)
    BY <1>10 DEF RecvSome
  <2>2. /\ back # <<>> /\ (back' = Tail(back) \/ back' = back) /\ out' = out /\ got' = got
        /\ pc = "select" /\ pc' = "send" /\ link # "none" /\ send' = send /\ wait' = wait /\ inserted' = inserted
    BY <2>1 DEF Recv
  <2>3. ready /\ (RingAck \/ RingIdle)
    BY <2>1, RecvKind
  <2>4. \A n \in 1 .. Len(back') : AckGood(back[n])'
    <3>1. \A b1 \in [idx : Index, rec : Nat] : AckGood(b1) => AckGood(b1)'
      BY <1>4, <2>2, <2>3
    <3>2. ASSUME NEW n \in 1 .. Len(back')
          PROVE  \E l \in 1 .. Len(back) : back'[n] = back[l]
      <4>1. CASE back' = back
        BY <3>2, <4>1
      <4>2. CASE back' = Tail(back)
        <5>1. back \in Seq([idx : Index, rec : Nat])
          BY DEF TypeOK
        <5>2. n + 1 \in 1 .. Len(back) /\ back'[n] = back[n + 1]
          BY <2>2, <3>2, <4>2, <5>1
        <5> QED
          BY <5>2
      <4> QED
        BY <2>2, <4>1, <4>2
    <3>3. \A n \in 1 .. Len(back') : \A b1 : b1 = back'[n] => AckGood(b1)'
      BY <1>2, <3>1, <3>2
    <3> QED
      BY <3>3 DEF AckGood, InStep
  <2>5. \A n \in 1 .. Len(out') : MsgGood(n)'
    BY <1>5, <2>2, <2>3
  <2>6. AllSent'
    <3>1. AllSent
      BY <2>2 DEF StreamInv
    <3>2. acked \in Int /\ acked' \in Int /\ acked' >= acked /\ sent \in Int
      BY <2>3, MarksGrow
    <3>3. sent' = sent
      BY <2>2 DEF sent, unsent
    <3> QED
      BY <1>7, <2>2, <3>1, <3>2, <3>3
  <2> QED
    BY <2>2, <2>4, <2>5, <2>6 DEF StreamInv
<1>11. CASE cdr_send
  <2>1. /\ out' = out /\ back' = back /\ got' = got /\ pc = "send" /\ link # "none" /\ ready
    BY <1>11 DEF cdr_send, netVars, LinkInv, ready
  <2>2. RingSend \/ RingIdle
    BY <1>11, <2>1 DEF cdr_send, RingSend, RingIdle, ringVars, ready
  <2>3. \A n \in 1 .. Len(back') : AckGood(back[n])'
    BY <1>2, <1>4, <2>1, <2>2 DEF AckGood, InStep
  <2>4. \A n \in 1 .. Len(out') : MsgGood(n)'
    BY <1>5, <2>1, <2>2
  <2>5. AllSent /\ acked \in Int /\ sent \in Int
    BY <2>1, <2>2, MarksGrow DEF StreamInv
  <2>6. CASE send = wait
    <3>1. pc' = "top" /\ UNCHANGED <<send, ack, wait, inserted>>
      BY <1>11, <2>6 DEF cdr_send
    <3>2. acked' = acked /\ sent' = sent
      BY <3>1 DEF acked, sent, pending, unsent
    <3>3. AllSent'
      BY <1>7, <2>1, <2>5, <3>2
    <3> QED
      BY <2>1, <2>3, <2>4, <3>1, <3>3 DEF StreamInv
  <2>7. CASE send # wait
    <3>1. /\ acked' = acked /\ sent' \in Int
          /\ InStep(LastIdx(frame), LastRec(frame))'
          /\ \A k \in Nat : sent < k /\ k <= sent' => k \in Records(frame')
      BY <1>11, <2>1, <2>7, SentMessage
    <3>2. pc' = "write"
      BY <1>11, <2>7 DEF cdr_send
    <3>3. AllSent'
      <4> SUFFICES ASSUME NEW k \in Nat, acked' < k, k <= sent'
                   PROVE  k \in got \/ Queued(k, Len(out)) \/ k \in Records(frame')
        BY <2>1, <3>2 DEF AllSent, Queued
      <4>1. CASE k <= sent
        BY <2>1, <2>5, <3>1, <4>1 DEF AllSent
      <4>2. CASE sent < k
        BY <3>1, <4>2
      <4> QED
        BY <2>5, <4>1, <4>2
    <3> QED
      BY <2>1, <2>3, <2>4, <3>1, <3>3 DEF StreamInv
  <2> QED
    BY <2>6, <2>7
<1>12. CASE WriteOk
  <2>1. /\ out' = Append(out, frame) /\ back' = back /\ got' = got
        /\ pc = "write" /\ pc' = "top" /\ link # "none" /\ ready
    BY <1>12 DEF WriteOk, LinkInv, ready
  <2>2. RingIdle
    BY <1>12 DEF WriteOk, RingIdle, ready
  <2>3. acked' = acked /\ sent' = sent /\ send' = send /\ sent \in Int
    BY <2>1, <2>2, MarksGrow DEF RingIdle, ringVars, acked, sent, pending, unsent
  <2>4. \A n \in 1 .. Len(back') : AckGood(back[n])'
    BY <1>2, <1>4, <2>1, <2>2 DEF AckGood, InStep
  <2>5. out \in Seq(Message) /\ frame \in Message
    BY <2>1 DEF TypeOK
  <2>6. /\ Len(out) \in Nat /\ Len(out') = Len(out) + 1
        /\ out'[Len(out) + 1] = frame /\ \A n \in 1 .. Len(out) : out'[n] = out[n]
    BY <2>1, <2>5
  <2>7. \A k : \A n \in 1 .. Len(out) : Queued(k, n) => Queued(k, n)'
    BY <2>6 DEF Queued
  <2>8. ASSUME NEW k \in Nat, acked < k, k <= sent
        PROVE  k \in got \/ \A n : n = Len(out) + 1 => Queued(k, n)'
    <3>1. k \in got \/ Queued(k, Len(out)) \/ k \in Records(frame)
      BY <2>1, <2>8 DEF StreamInv, AllSent
    <3>2. CASE Queued(k, Len(out))
      <4>1. PICK j \in 1 .. Len(out) : k \in Records(out[j])
        BY <3>2 DEF Queued
      <4>2. j \in 1 .. Len(out) + 1 /\ out'[j] = out[j]
        BY <2>6
      <4> QED
        BY <4>1, <4>2 DEF Queued
    <3>3. CASE k \in Records(frame)
      <4>1. Len(out) + 1 \in 1 .. Len(out) + 1
        BY <2>6
      <4> QED
        BY <2>6, <3>3, <4>1 DEF Queued
    <3> QED
      BY <3>1, <3>2, <3>3
  <2>9. AllSent'
    BY <2>1, <2>3, <2>6, <2>8 DEF AllSent
  <2>10. ASSUME NEW n \in 1 .. Len(out') PROVE MsgGood(n)'
    <3>1. CASE n \in 1 .. Len(out)
      <4>1. MsgGood(n) /\ out'[n] = out[n]
        BY <1>2, <2>6, <3>1
      <4> QED
        BY <2>1, <2>3, <2>7, <3>1, <4>1 DEF MsgGood, InStep
    <3>2. CASE n = Len(out) + 1
      <4>1. out'[n] = frame /\ InStep(LastIdx(frame), LastRec(frame))
        BY <2>1, <2>6, <3>2 DEF StreamInv
      <4>2. LastIdx(frame) \in Index /\ LastRec(frame) \in Nat
        BY <2>5, LastTyped
      <4>3. LastRec(frame) <= sent
        BY <2>3, <4>1, <4>2, InStepSent
      <4>4. ASSUME NEW k \in Nat, acked < k, k <= LastRec(frame) PROVE k \in got \/ Queued(k, n)'
        <5>1. k <= sent
          BY <2>3, <4>2, <4>3, <4>4
        <5> QED
          BY <2>8, <3>2, <4>4, <5>1
      <4> QED
        BY <2>1, <2>3, <4>1, <4>4 DEF MsgGood, InStep
    <3> QED
      BY <2>6, <2>10, <3>1, <3>2
  <2> QED
    BY <2>1, <2>4, <2>9, <2>10 DEF StreamInv
<1>13. CASE ServerRecv
  <2>1. /\ out # <<>> /\ out' = Tail(out) /\ got' = got \cup Records(Head(out))
        /\ back' = Append(back, [idx |-> LastIdx(Head(out)), rec |-> LastRec(Head(out))])
        /\ pc' = pc /\ frame' = frame /\ link # "none" /\ pc # "reset"
    BY <1>13 DEF ServerRecv, Records, LastIdx, LastRec, threadVars
  <2>2. ready /\ RingIdle
    BY <1>13, <2>1 DEF ServerRecv, threadVars, RingIdle, ready, LinkInv
  <2>3. acked' = acked /\ sent' = sent /\ send' = send
    BY <2>2 DEF RingIdle, ringVars, acked, sent, pending, unsent
  <2>4. /\ out \in Seq(Message) /\ back \in Seq([idx : Index, rec : Nat])
    BY DEF TypeOK
  <2>5. /\ Len(out) \in Nat \ {0} /\ Len(out') = Len(out) - 1 /\ Head(out) = out[1]
        /\ \A n \in 1 .. Len(out) - 1 : out'[n] = out[n + 1]
    BY <2>1, <2>4
  <2>6. LastIdx(out[1]) \in Index /\ LastRec(out[1]) \in Nat /\ MsgGood(1)
    <3>1. 1 \in 1 .. Len(out)
      BY <2>5
    <3> QED
      BY <1>2, <3>1, LastTyped
  <2> DEFINE b == [idx |-> LastIdx(out[1]), rec |-> LastRec(out[1])]
  <2>7. b \in [idx : Index, rec : Nat] /\ b.idx = LastIdx(out[1]) /\ b.rec = LastRec(out[1])
    BY <2>6
  <2>8. back' = Append(back, b)
    BY <2>1, <2>5
  <2> HIDE DEF b
  <2>9. /\ Len(back) \in Nat /\ Len(back') = Len(back) + 1 /\ back'[Len(back) + 1] = b
        /\ \A n \in 1 .. Len(back) : back'[n] = back[n]
    BY <2>4, <2>7, <2>8
  <2>10. \A k \in Nat : acked < k /\ k <= LastRec(out[1]) => k \in got'
    <3>1. \A k : Queued(k, 1) => k \in Records(out[1])
      BY DEF Queued
    <3> QED
      BY <2>1, <2>5, <2>6, <3>1 DEF MsgGood
  <2>11. InStep(b.idx, b.rec) /\ \A k \in Nat : acked < k /\ k <= b.rec => k \in got'
    BY <2>6, <2>7, <2>10 DEF MsgGood
  <2>12. ASSUME NEW n \in 1 .. Len(back') PROVE \A c : c = back'[n] => AckGood(c)'
    <3>1. CASE n \in 1 .. Len(back)
      BY <1>2, <2>1, <2>3, <2>9, <3>1 DEF AckGood, InStep
    <3>2. CASE n = Len(back) + 1
      BY <2>3, <2>9, <2>11, <3>2 DEF AckGood, InStep
    <3> QED
      BY <2>9, <2>12, <3>1, <3>2
  <2>13. \A n \in 1 .. Len(back') : AckGood(back[n])'
    BY <2>12 DEF AckGood, InStep
  <2>14. ASSUME NEW k, NEW n \in 1 .. Len(out), Queued(k, n)
         PROVE  k \in got' \/ \A l : l = n - 1 => Queued(k, l)'
    <3>1. PICK j \in 1 .. n : k \in Records(out[j])
      BY <2>14 DEF Queued
    <3>2. CASE j = 1
      BY <2>1, <2>5, <3>1, <3>2
    <3>3. CASE j # 1
      <4>1. j - 1 \in 1 .. n - 1 /\ j - 1 \in 1 .. Len(out) - 1 /\ (j - 1) + 1 = j
        BY <2>5, <3>3
      <4>2. out'[j - 1] = out[j]
        BY <2>5, <4>1
      <4> QED
        BY <3>1, <4>1, <4>2 DEF Queued
    <3> QED
      BY <3>2, <3>3
  <2>15. ASSUME NEW n \in 1 .. Len(out') PROVE MsgGood(n)'
    <3>1. n + 1 \in 1 .. Len(out) /\ out'[n] = out[n + 1] /\ (n + 1) - 1 = n
      BY <2>5, <2>15
    <3>2. MsgGood(n + 1)
      BY <1>2, <3>1
    <3>3. \A k \in Nat : acked < k /\ k <= LastRec(out[n + 1]) => k \in got' \/ Queued(k, n)'
      BY <2>1, <2>14, <3>1, <3>2 DEF MsgGood
    <3> QED
      BY <2>3, <3>1, <3>2, <3>3 DEF MsgGood, InStep
  <2>16. AllSent'
    <3> SUFFICES ASSUME NEW k \in Nat, acked < k, k <= sent
                 PROVE  k \in got' \/ Queued(k, Len(out))' \/ (pc = "write" /\ k \in Records(frame))
      BY <2>1, <2>3 DEF AllSent
    <3>1. k \in got \/ Queued(k, Len(out)) \/ (pc = "write" /\ k \in Records(frame))
      BY <2>1 DEF StreamInv, AllSent
    <3>2. Len(out) \in 1 .. Len(out)
      BY <2>5
    <3> QED
      BY <2>1, <2>5, <2>14, <3>1, <3>2
  <2>17. pc' = "write" => InStep(LastIdx(frame), LastRec(frame))'
    BY <1>6, <2>1, <2>2
  <2> QED
    BY <2>1, <2>13, <2>15, <2>16, <2>17 DEF StreamInv
<1>14. CASE cdr_init \/ ConnectFail \/ connect2cdr
  BY <1>14 DEF cdr_init, ConnectFail, connect2cdr, LinkInv, netVars
<1>15. CASE Exit \/ Reload \/ RecvEof \/ WriteFail
  BY <1>15 DEF Exit, Reload, RecvEof, WriteFail, Close
<1> QED
  BY <1>8, <1>9, <1>10, <1>11, <1>12, <1>13, <1>14, <1>15 DEF Next, Thread, Environment

-----------------------------------------------------------------------------
(* The distances from the ack and the send mark to a slot between them add   *)
(* up.                                                                       *)
LEMMA BetweenMarks ==
    ASSUME NEW w \in Index, NEW s \in Index, NEW k \in Index, NEW a \in Index,
           USub(w, s) <= USub(USub(w, k), 1), USub(a, k) <= USub(USub(s, 1), k)
    PROVE  USub(USub(w, a), 1) = USub(w, s) + USub(USub(s, 1), a)
BY DEF Index, USub

(* An acknowledgement in step moves the ack mark to the very record it is    *)
(* for, which the server has with all before it.                             *)
LEMMA AckBelieved ==
    ASSUME TypeOK, WindowOrder, StreamInv, ready, Trusted, acked' # acked,
           NEW b \in 1 .. AckLen - recv_len, Recv(b)
    PROVE  acked' > acked /\ (acked + 1) .. acked' \subseteq got
<1> DEFINE a == Head(back).idx
           r == Head(back).rec
<1>1. /\ back # <<>> /\ recv_len = off /\ sent - r < N
      /\ UNCHANGED <<send, wait, inserted>>
      /\ ack' = ack \/ ack' = cdr_update_ack(a)
  BY DEF Trusted, Recv
<1>2. Head(back) \in [idx : Index, rec : Nat] /\ AckGood(Head(back))
  <2>1. back \in Seq([idx : Index, rec : Nat])
    BY DEF TypeOK
  <2>2. 1 \in 1 .. Len(back) /\ Head(back) = back[1]
    BY <1>1, <2>1
  <2>3. AckGood(back[1])
    BY <2>2, Zenon DEF StreamInv
  <2> QED
    BY <1>1, <2>1, <2>2, <2>3, HeadTail
<1>3. a \in Index /\ r \in Nat /\ InStep(a, r) /\ \A k \in Nat : acked < k /\ k <= r => k \in got
  BY <1>2 DEF AckGood
<1> HIDE DEF a, r
<1>4. /\ pending \in 0 .. N - 1 /\ unsent \in 0 .. N - 1 /\ inserted \in Nat
      /\ unsent <= pending /\ pending <= inserted
      /\ ack \in Index /\ send \in Index /\ wait \in Index
  BY MarksInRange DEF TypeOK, WindowOrder
<1>5. acked \in Nat /\ sent \in Int
  BY <1>4 DEF acked, sent
<1>6. ack' # ack
  BY <1>1 DEF acked, pending
<1>7. ack' = a /\ USub(a, ack) <= USub(USub(send, 1), ack)
  BY <1>1, <1>6 DEF cdr_update_ack
<1>8. sent - r = USub(USub(send, 1), a)
  <2>1. ~(sent - r >= N)
    BY <1>1, <1>3, <1>5
  <2> QED
    BY <1>3, <2>1 DEF InStep
<1>9. pending' = unsent + (sent - r)
  <2>1. USub(wait, send) <= USub(USub(wait, ack), 1)
    BY <1>4 DEF unsent, pending
  <2>2. USub(USub(wait, a), 1) = USub(wait, send) + USub(USub(send, 1), a)
    BY <1>3, <1>4, <1>7, <2>1, BetweenMarks
  <2> QED
    BY <1>1, <1>7, <1>8, <2>2 DEF pending, unsent
<1>10. acked' = r
  <2>1. acked' = inserted - pending' /\ sent = inserted - unsent
    BY <1>1 DEF acked, sent
  <2>2. unsent \in Int /\ inserted \in Int /\ r \in Int
    BY <1>3, <1>4
  <2> QED
    BY <1>9, <2>1, <2>2
<1>11. acked' >= acked
  <2>1. RingAck \/ RingIdle
    BY RecvKind
  <2> QED
    BY <2>1, MarksGrow
<1>12. acked' > acked
  BY <1>3, <1>5, <1>10, <1>11
<1>13. ASSUME NEW k \in (acked + 1) .. acked' PROVE k \in got
  <2>1. k \in Nat /\ acked < k /\ k <= r
    BY <1>3, <1>5, <1>10, <1>13
  <2> QED
    BY <1>3, <2>1
<1> QED
  BY <1>12, <1>13

(* Only an acknowledgement and a push move the ack mark. *)
LEMMA AckStands ==
    ASSUME [Next]_vars, ready, inserted' = inserted, inserted \in Nat
    PROVE  RecvSome \/ acked' = acked
<1> USE DEF ringVars, threadVars, netVars, flagVars
<1>1. CASE UNCHANGED <<ack, wait>>
  BY <1>1 DEF acked, pending
<1>2. CASE cdr_insert \/ cdr_init
  BY <1>2 DEF cdr_insert, cdr_init, ready
<1>3. CASE Exit \/ Reload \/ LoopTop \/ ConnectFail \/ connect2cdr \/ cdr_reset_send \/ SelectTimeout
  BY <1>1, <1>3 DEF Exit, Reload, LoopTop, ConnectFail, connect2cdr, cdr_reset_send, SelectTimeout
<1>4. CASE RecvEof \/ cdr_send \/ WriteOk \/ WriteFail
  BY <1>1, <1>4 DEF RecvEof, cdr_send, WriteOk, WriteFail
<1>5. CASE RequestReload \/ SetDone \/ CutLink \/ ServerRecv \/ UNCHANGED vars
  BY <1>1, <1>5 DEF RequestReload, SetDone, CutLink, ServerRecv, vars
<1> QED
  BY <1>2, <1>3, <1>4, <1>5 DEF Next, Thread, Environment

LEMMA StreamInvariant == Spec => [](LinkInv /\ StreamInv)
<1>1. LinkInv /\ TypeOK /\ [Next]_vars => LinkInv'
  BY LinkStep
<1> QED
  BY <1>1, LinkInit, StreamInit, StreamStep, TypeCorrect, WindowOrdered, WindowContents, PTL DEF Spec

(* cdr_update_ack takes no record out of the window that the server does not *)
(* have, through every reconnect, overflow and late acknowledgement, if the  *)
(* acknowledgement is read in step with the stream and is less than a ring   *)
(* behind.                                                                   *)
THEOREM AckedAreReceived == Spec => AckedWereReceived
<1>1. TypeOK /\ WindowOrder /\ StreamInv /\ [Next]_vars
        => [ready /\ inserted' = inserted /\ acked' # acked /\ Trusted
              => acked' > acked /\ (acked + 1) .. acked' \subseteq got]_vars
  <2> SUFFICES ASSUME TypeOK, WindowOrder, StreamInv, [Next]_vars,
                      ready, inserted' = inserted, acked' # acked, Trusted
               PROVE  acked' > acked /\ (acked + 1) .. acked' \subseteq got
    OBVIOUS
  <2>1. RecvSome
    BY AckStands DEF TypeOK
  <2> QED
    BY <2>1, AckBelieved DEF RecvSome
<1> QED
  BY <1>1, TypeCorrect, WindowOrdered, StreamInvariant, PTL DEF Spec, AckedWereReceived

(* For every ring size and whatever faults: while conn_cdr_thread has a       *)
(* connection, each record between the ack and the send mark is with the     *)
(* server or in what was sent, or is being sent, on this connection.         *)
THEOREM NothingSkipped == Spec => []NoneSkipped
<1>1. TypeOK /\ WindowOrder /\ LinkInv /\ StreamInv => NoneSkipped
  <2> SUFFICES ASSUME TypeOK, WindowOrder, LinkInv, StreamInv, link # "none", pc # "reset",
                      NEW k \in (acked + 1) .. sent
               PROVE  \/ k \in got
                      \/ \E i \in 1 .. Len(out) : Carries(out[i], k)
                      \/ pc = "write" /\ Carries(frame, k)
    BY DEF NoneSkipped
  <2>1. acked \in Nat /\ sent \in Int
    <3>1. ready
      BY DEF LinkInv, ready
    <3> QED
      BY <3>1, RingAssumption DEF TypeOK, WindowOrder, acked, sent, pending, unsent, USub, Index
  <2>2. k \in Nat /\ acked < k /\ k <= sent
    BY <2>1
  <2>3. k \in got \/ Queued(k, Len(out)) \/ (pc = "write" /\ k \in Records(frame))
    BY <2>2 DEF StreamInv, AllSent
  <2> QED
    BY <2>3 DEF Queued, Records, Carries
<1> QED
  BY <1>1, TypeCorrect, WindowOrdered, StreamInvariant, PTL
=============================================================================
