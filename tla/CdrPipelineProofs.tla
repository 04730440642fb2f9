-------------------------- MODULE CdrPipelineProofs --------------------------
(***************************************************************************)
(* The invariants of the nodes and of the records they carry, for any      *)
(* number of slots, fax threads, nodes and calls, with the late stores of  *)
(* FETCH_PHEAD wherever they fall.                                         *)
(***************************************************************************)
EXTENDS CdrPipeline, SequenceTheorems, FiniteSetTheorems, TLAPS

USE PipelineAssumption

Has(list, n) == \E i \in 1 .. Len(list) : list[i] = n

NoDup(list) == \A i, j \in 1 .. Len(list) : list[i] = list[j] => i = j

(* A node is in one queue, at one place, or with one slot or fax thread. *)
OnePlace ==
    /\ NoDup(eq.list) /\ NoDup(fq.list)
    /\ \A n \in Nodes : ~(Has(eq.list, n) /\ Has(fq.list, n))
    /\ \A s \in Slots : cdr_node[s] # None =>
           /\ ~Has(eq.list, cdr_node[s]) /\ ~Has(fq.list, cdr_node[s])
           /\ \A t \in Slots : cdr_node[t] = cdr_node[s] => t = s
           /\ \A f \in FaxThreads : p[f] # cdr_node[s]
    /\ \A f \in FaxThreads : p[f] # None =>
           /\ ~Has(eq.list, p[f]) /\ ~Has(fq.list, p[f])
           /\ \A g \in FaxThreads : p[g] = p[f] => g = f

(* Where in their code the threads hold a node. *)
HeldWhere ==
    /\ \A s \in Slots : cdr_node[s] # None => spc[s] = "call"
    /\ \A f \in FaxThreads : fpc[f] \in {"insert", "return"} <=> p[f] # None

(* As long as every late len = 0 met an empty list, len is the number of     *)
(* nodes, EN_QUEUE hangs its node behind the last one, and every node is     *)
(* somewhere.                                                                *)
NoLeak ==
    ~raced =>
        /\ eq.len = Len(eq.list) /\ fq.len = Len(fq.list)
        /\ \A n \in Nodes : \/ Has(eq.list, n) \/ Has(fq.list, n)
                            \/ \E s \in Slots : cdr_node[s] = n
                            \/ \E f \in FaxThreads : p[f] = n

NodeInv == TypeOK /\ NoNullWalk /\ OnePlace /\ HeldWhere /\ NoLeak

(* The nodes whose record is still to be inserted. *)
Waiting(n) == Has(fq.list, n) \/ \E f \in FaxThreads : fpc[f] = "insert" /\ p[f] = n

(* A record that may still be inserted: its call started, its files opened,  *)
(* and it was not inserted before.                                           *)
Due(c) == c \in 1 .. started /\ c \notin noRecord /\ ~Has(inserted, c)

(* What was inserted is the records of recorded calls, each once. *)
InsertedOnce ==
    /\ noRecord \subseteq 1 .. started
    /\ \A i \in 1 .. Len(inserted) : inserted[i] \in 1 .. started /\ inserted[i] \notin noRecord
    /\ NoDup(inserted)

SlotCalls ==
    \A s \in Slots :
        /\ call[s] # 0 => call[s] \in 1 .. started
        /\ spc[s] = "idle" <=> call[s] = 0
        /\ \A t \in Slots : call[s] = call[t] /\ call[s] # 0 => s = t
        /\ spc[s] \in {"clear", "direct"} \/ cdr_node[s] # None => Due(call[s])

WaitingCalls ==
    \A n \in Nodes : Waiting(n) =>
        /\ Due(cdrOf[n])
        /\ \A m \in Nodes : Waiting(m) /\ cdrOf[m] = cdrOf[n] => m = n
        /\ \A s \in Slots : call[s] # cdrOf[n]

CallInv == InsertedOnce /\ SlotCalls /\ WaitingCalls

-----------------------------------------------------------------------------
(* The queue operations *)

(* HangAt keeps the first k nodes and puts the new one behind them. *)
LEMMA HungList ==
    ASSUME NEW q \in Queues, NEW n \in Nodes, NEW k \in 1 .. Reached(q), LenWithin(q),
           q.list # <<>>
    PROVE  /\ k <= Len(q.list)
           /\ HangAt(q, k, n) \in Seq(Nodes) /\ Len(HangAt(q, k, n)) = k + 1
           /\ \A i \in 1 .. k : HangAt(q, k, n)[i] = q.list[i]
           /\ HangAt(q, k, n)[k + 1] = n
<1>1. q.list \in Seq(Nodes) /\ q.len \in Int /\ Len(q.list) \in Nat /\ Len(q.list) > 0
  BY EmptySeq, LenProperties DEF Queues
<1>2. k \in Nat /\ 1 <= k /\ k <= Len(q.list)
  BY <1>1 DEF Reached, LenWithin
<1>3. /\ SubSeq(q.list, 1, k) \in Seq(Nodes) /\ Len(SubSeq(q.list, 1, k)) = k
      /\ \A i \in 1 .. k : SubSeq(q.list, 1, k)[i] = q.list[i]
  BY <1>1, <1>2, SubSeqProperties
<1> QED
  BY <1>2, <1>3, AppendProperties DEF HangAt

(* Whatever the late store does to EN_QUEUE, the node is added to a part of  *)
(* the list and len stays within it.                                         *)
LEMMA Enqueued ==
    ASSUME NEW q \in Queues, NEW n \in Nodes, LenWithin(q), NoDup(q.list), ~Has(q.list, n),
           NEW r \in EN_QUEUE_overlapped(q, n)
    PROVE  /\ r \in Queues /\ LenWithin(r) /\ NoDup(r.list)
           /\ \A m : Has(r.list, m) => Has(q.list, m) \/ m = n
<1>1. q.list \in Seq(Nodes) /\ q.len \in Int /\ Len(q.list) \in Nat
  BY LenProperties DEF Queues
<1>2. Reached(q) \in Nat /\ Reached(q) >= 1 /\ Reached(q) >= q.len
  BY <1>1 DEF Reached
<1>3. PICK k \in 1 .. Reached(q) :
         /\ r.list = HangAt(q, k, n) /\ r = [list |-> HangAt(q, k, n), len |-> r.len]
         /\ r.len = 1 \/ (r.len = q.len + 1 /\ k = Reached(q))
  BY <1>2 DEF EN_QUEUE_overlapped, EN_QUEUE
<1>4. CASE q.list = <<>>
  <2>1. r.list = <<n>> /\ Len(r.list) = 1 /\ r.list[1] = n /\ r.list \in Seq(Nodes)
    BY <1>3, <1>4 DEF HangAt
  <2>2. Len(q.list) = 0
    BY <1>1, <1>4, EmptySeq
  <2>3. r.len \in Int /\ r.len <= 1
    BY <1>1, <1>3, <2>2 DEF LenWithin
  <2> QED
    <3>1. NoDup(r.list)
      BY <2>1 DEF NoDup
    <3>2. ASSUME NEW m, Has(r.list, m) PROVE m = n
      BY <2>1, <3>2 DEF Has
    <3>3. r \in Queues /\ LenWithin(r)
      BY <1>3, <2>1, <2>3 DEF Queues, LenWithin
    <3> QED
      BY <3>1, <3>2, <3>3
<1>5. CASE q.list # <<>>
  <2>1. /\ k <= Len(q.list) /\ r.list \in Seq(Nodes) /\ Len(r.list) = k + 1
        /\ \A i \in 1 .. k : r.list[i] = q.list[i]
        /\ r.list[k + 1] = n
    BY <1>3, <1>5, HungList
  <2>2. r.len \in Int /\ r.len <= k + 1
    BY <1>1, <1>2, <1>3
  <2>3. NoDup(r.list)
    <3> SUFFICES ASSUME NEW i \in 1 .. k + 1, NEW j \in 1 .. k + 1, r.list[i] = r.list[j]
                 PROVE  i = j
      BY <2>1 DEF NoDup
    <3>1. CASE i <= k /\ j <= k
      BY <3>1, <2>1, <1>1 DEF NoDup
    <3>2. CASE i = k + 1 \/ j = k + 1
      BY <3>2, <2>1, <1>1, SMTT(20) DEF Has
    <3> QED
      BY <3>1, <3>2
  <2>4. ASSUME NEW m, Has(r.list, m) PROVE Has(q.list, m) \/ m = n
    <3>1. PICK i \in 1 .. k + 1 : r.list[i] = m
      BY <2>1, <2>4 DEF Has
    <3> QED
      BY <3>1, <2>1, <1>1 DEF Has
  <2> QED
    BY <1>3, <2>1, <2>2, <2>3, <2>4 DEF Queues, LenWithin
<1> QED
  BY <1>4, <1>5

LEMMA NormalEnqueue ==
    ASSUME NEW q, NEW n PROVE EN_QUEUE(q, n) \in EN_QUEUE_overlapped(q, n)
BY DEF EN_QUEUE_overlapped

(* With a len that is right, EN_QUEUE loses nothing. *)
LEMMA EnqueuedExact ==
    ASSUME NEW q \in Queues, NEW n \in Nodes, q.len = Len(q.list)
    PROVE  /\ EN_QUEUE(q, n).len = Len(EN_QUEUE(q, n).list)
           /\ Has(EN_QUEUE(q, n).list, n)
           /\ \A m : Has(q.list, m) => Has(EN_QUEUE(q, n).list, m)
<1> DEFINE h == HangAt(q, Reached(q), n)
<1>1. q.list \in Seq(Nodes) /\ Len(q.list) \in Nat
  BY LenProperties DEF Queues
<1>2. EN_QUEUE(q, n).list = h /\ EN_QUEUE(q, n).len = q.len + 1
  BY DEF EN_QUEUE
<1>3. CASE q.list = <<>>
  <2>1. Len(q.list) = 0 /\ h = <<n>>
    BY <1>1, <1>3, EmptySeq DEF HangAt
  <2> QED
    BY <1>2, <2>1 DEF Has
<1>4. CASE q.list # <<>>
  <2>1. Len(q.list) > 0
    BY <1>1, <1>4, EmptySeq
  <2>2. Reached(q) = Len(q.list) /\ Reached(q) \in 1 .. Reached(q)
    BY <1>1, <2>1 DEF Reached
  <2>3. /\ Len(h) = Len(q.list) + 1 /\ h[Len(q.list) + 1] = n
        /\ \A i \in 1 .. Len(q.list) : h[i] = q.list[i]
    BY <1>1, <1>4, <2>2, HungList DEF LenWithin
  <2> HIDE DEF h
  <2> QED
    BY <1>1, <1>2, <2>3 DEF Has
<1> QED
  BY <1>3, <1>4

(* FETCH_PHEAD takes the head, and only the head. *)
LEMMA Fetched ==
    ASSUME NEW q \in Queues, q.list # <<>>, NoDup(q.list), LenWithin(q)
    PROVE  /\ Head(q.list) \in Nodes /\ Has(q.list, Head(q.list))
           /\ FETCH_PHEAD(q) \in Queues /\ LenWithin(FETCH_PHEAD(q))
           /\ NoDup(FETCH_PHEAD(q).list)
           /\ \A m : Has(FETCH_PHEAD(q).list, m) <=> Has(q.list, m) /\ m # Head(q.list)
           /\ q.len = Len(q.list) => FETCH_PHEAD(q).len = Len(FETCH_PHEAD(q).list)
<1> DEFINE t == Tail(q.list)
<1>1. q.list \in Seq(Nodes) /\ q.len \in Int /\ Len(q.list) \in Nat /\ Len(q.list) > 0
  BY EmptySeq, LenProperties DEF Queues
<1>2. /\ Head(q.list) \in Nodes /\ Head(q.list) = q.list[1]
      /\ t \in Seq(Nodes) /\ Len(t) = Len(q.list) - 1
      /\ \A i \in 1 .. Len(t) : t[i] = q.list[i + 1]
  BY <1>1, HeadTailProperties
<1>3. FETCH_PHEAD(q).list = t /\ FETCH_PHEAD(q).len = q.len - 1
  BY DEF FETCH_PHEAD
<1> HIDE DEF t
<1>4. FETCH_PHEAD(q) \in Queues
  BY <1>1, <1>2 DEF FETCH_PHEAD, Queues, t
<1>5. NoDup(t)
  <2> SUFFICES ASSUME NEW i \in 1 .. Len(t), NEW j \in 1 .. Len(t), t[i] = t[j] PROVE i = j
    BY DEF NoDup
  <2>1. i + 1 \in 1 .. Len(q.list) /\ j + 1 \in 1 .. Len(q.list) /\ q.list[i + 1] = q.list[j + 1]
    BY <1>1, <1>2, SMTT(20)
  <2> QED
    BY <2>1 DEF NoDup
<1>6. ASSUME NEW m, Has(t, m) PROVE Has(q.list, m) /\ m # Head(q.list)
  <2>1. PICK i \in 1 .. Len(t) : t[i] = m
    BY <1>6 DEF Has
  <2>2. i + 1 \in 1 .. Len(q.list) /\ q.list[i + 1] = m /\ i + 1 # 1 /\ 1 \in 1 .. Len(q.list)
    BY <1>1, <1>2, <2>1
  <2> QED
    BY <1>2, <2>2 DEF Has, NoDup
<1>7. ASSUME NEW m, Has(q.list, m), m # Head(q.list) PROVE Has(t, m)
  <2>1. PICK i \in 1 .. Len(q.list) : q.list[i] = m
    BY <1>7 DEF Has
  <2>2. i # 1
    BY <1>2, <1>7, <2>1
  <2>3. i - 1 \in 1 .. Len(t) /\ t[i - 1] = m
    BY <1>1, <1>2, <2>1, <2>2
  <2> QED
    BY <2>3 DEF Has
<1>8. Has(q.list, Head(q.list))
  BY <1>1, <1>2 DEF Has
<1> QED
  BY <1>1, <1>2, <1>3, <1>4, <1>5, <1>6, <1>7, <1>8 DEF LenWithin

LEMMA Cleared ==
    ASSUME NEW q \in Queues, LenWithin(q)
    PROVE  /\ ClearLen(q) \in Queues /\ LenWithin(ClearLen(q)) /\ ClearLen(q).list = q.list
           /\ q.list = <<>> => ClearLen(q).len = Len(q.list)
BY EmptySeq, LenProperties DEF ClearLen, Queues, LenWithin

-----------------------------------------------------------------------------
(* The nodes *)

LEMMA NodeInvInit == Init => NodeInv
<1> SUFFICES ASSUME Init PROVE NodeInv
  OBVIOUS
<1> DEFINE pool == [i \in Nodes |-> i]
<1>1. pool \in Seq(Nodes) /\ Len(pool) = PoolSize
  BY DEF Nodes
<1>2. eq \in Queues /\ eq.list = pool /\ eq.len = Len(eq.list)
  BY <1>1 DEF Init, PoolOf, Queues, Nodes
<1>3. fq \in Queues /\ fq.list = <<>> /\ fq.len = 0 /\ Len(fq.list) = 0
  BY EmptySeq DEF Init, EmptyQueue, Queues
<1>4. NoDup(eq.list) /\ NoDup(fq.list) /\ \A n : ~Has(fq.list, n)
  BY <1>1, <1>2, <1>3 DEF NoDup, Has, Nodes
<1>5. \A n \in Nodes : Has(eq.list, n)
  BY <1>1, <1>2 DEF Has, Nodes
<1>6. TypeOK
  <2>1. done \in BOOLEAN /\ raced \in BOOLEAN
    BY Zenon DEF Init
  <2>2. /\ inserted \in Seq(Calls) /\ started \in 0 .. MaxCalls
        /\ cdr_node \in [Slots -> Nodes \cup {None}] /\ call \in [Slots -> Calls \cup {0}]
        /\ p \in [FaxThreads -> Nodes \cup {None}] /\ cdrOf \in [Nodes -> Calls \cup {0}]
    BY EmptySeq DEF Init, None
  <2> QED
    BY <1>2, <1>3, <2>1, <2>2 DEF Init, TypeOK
<1>7. NoNullWalk
  BY <1>1, <1>2, <1>3 DEF NoNullWalk, LenWithin
<1>8. OnePlace /\ HeldWhere
  BY <1>4 DEF Init, OnePlace, HeldWhere
<1>9. NoLeak
  BY <1>2, <1>3, <1>5 DEF NoLeak
<1> QED
  BY <1>6, <1>7, <1>8, <1>9 DEF NodeInv

LEMMA NodeInvStep == NodeInv /\ CallInv /\ [Next]_vars => NodeInv'
<1> SUFFICES ASSUME NodeInv, CallInv, [Next]_vars PROVE NodeInv'
  OBVIOUS
<1>0. None \notin Nodes
  BY DEF None, Nodes
<1> USE <1>0 DEF NodeInv, TypeOK, NoNullWalk, OnePlace, HeldWhere, NoLeak
<1>1. ASSUME NEW s \in Slots, StartCall(s) PROVE NodeInv'
  <2>0. /\ started + 1 \in Calls /\ started + 1 \in 0 .. MaxCalls
        /\ spc[s] = "idle" /\ cdr_node[s] = None
        /\ started' = started + 1 /\ call' = [call EXCEPT ![s] = started + 1]
        /\ UNCHANGED <<fq, p, fpc, cdrOf, inserted, done, raced>>
    BY <1>1 DEF StartCall, Calls
  <2>1. CASE /\ eq.list # <<>> /\ eq' = FETCH_PHEAD(eq)
             /\ cdr_node' = [cdr_node EXCEPT ![s] = Head(eq.list)]
             /\ spc' = [spc EXCEPT ![s] = "call"] /\ noRecord' = noRecord
    <3>1. /\ Head(eq.list) \in Nodes /\ Has(eq.list, Head(eq.list))
          /\ eq' \in Queues /\ LenWithin(eq') /\ NoDup(eq'.list)
          /\ \A m : Has(eq'.list, m) <=> Has(eq.list, m) /\ m # Head(eq.list)
          /\ eq.len = Len(eq.list) => eq'.len = Len(eq'.list)
      BY <2>1, Fetched
    <3>2. TypeOK'
      BY <2>0, <2>1, <3>1
    <3>3. NoNullWalk' /\ HeldWhere'
      BY <2>0, <2>1, <3>1
    <3>4. OnePlace'
      BY <2>0, <2>1, <3>1
    <3>5. NoLeak'
      BY <2>0, <2>1, <3>1
    <3> QED
      BY <3>2, <3>3, <3>4, <3>5
  <2>2. CASE spc' = [spc EXCEPT ![s] = "clear"] /\ UNCHANGED <<eq, cdr_node, noRecord>>
    BY <2>0, <2>2
  <2>3. CASE /\ spc' = [spc EXCEPT ![s] = "call"] /\ noRecord' = noRecord \cup {started + 1}
             /\ UNCHANGED <<eq, cdr_node>>
    BY <2>0, <2>3
  <2> QED
    BY <1>1, <2>1, <2>2, <2>3 DEF StartCall
<1>2. ASSUME NEW s \in Slots, ClearEq(s) PROVE NodeInv'
  <2>1. /\ eq' \in Queues /\ LenWithin(eq') /\ eq'.list = eq.list
        /\ eq.list = <<>> => eq'.len = Len(eq'.list)
    BY <1>2, Cleared DEF ClearEq
  <2>2. raced' \in BOOLEAN /\ (~raced' => ~raced /\ eq.list = <<>>)
    BY <1>2 DEF ClearEq
  <2> QED
    BY <1>2, <2>1, <2>2 DEF ClearEq
<1>3. ASSUME NEW s \in Slots, DirectInsert(s) PROVE NodeInv'
  <2>1. call[s] \in Calls
    BY <1>3 DEF DirectInsert, CallInv, SlotCalls, Due, Calls
  <2>2. inserted' \in Seq(Calls)
    BY <1>3, <2>1, AppendProperties DEF DirectInsert
  <2> QED
    BY <1>3, <2>2 DEF DirectInsert
<1>4. ASSUME NEW s \in Slots, EndCall(s) PROVE NodeInv'
  <2>1. CASE cdr_node[s] = None
    BY <1>4, <2>1 DEF EndCall
  <2>2. CASE cdr_node[s] # None
    <3> DEFINE n == cdr_node[s]
    <3>1. /\ n \in Nodes /\ spc[s] = "call"
          /\ cdrOf' = [cdrOf EXCEPT ![n] = call[s]] /\ fq' = EN_QUEUE(fq, n)
          /\ cdr_node' = [cdr_node EXCEPT ![s] = None]
          /\ call' = [call EXCEPT ![s] = 0] /\ spc' = [spc EXCEPT ![s] = "idle"]
          /\ UNCHANGED <<eq, p, fpc, inserted, started, noRecord, done, raced>>
      BY <1>4, <2>2 DEF EndCall
    <3>2. /\ fq' \in Queues /\ LenWithin(fq') /\ NoDup(fq'.list)
          /\ \A m : Has(fq'.list, m) => Has(fq.list, m) \/ m = n
      <4>1. fq' \in EN_QUEUE_overlapped(fq, n) /\ ~Has(fq.list, n) /\ n \in Nodes
        BY <2>2, <3>1, NormalEnqueue
      <4> QED
        BY <4>1, Enqueued
    <3>3. fq.len = Len(fq.list) => /\ fq'.len = Len(fq'.list) /\ Has(fq'.list, n)
                                   /\ \A m : Has(fq.list, m) => Has(fq'.list, m)
      BY <3>1, EnqueuedExact
    <3>4. TypeOK' /\ NoNullWalk' /\ HeldWhere'
      BY <3>1, <3>2
    <3>5. OnePlace'
      BY <2>2, <3>1, <3>2
    <3>6. NoLeak'
      BY <3>1, <3>3
    <3> QED
      BY <3>4, <3>5, <3>6
  <2> QED
    BY <2>1, <2>2
<1>5. ASSUME NEW s \in Slots, NEW f \in FaxThreads, EndCallOverlapped(s, f) PROVE NodeInv'
  <2> DEFINE n == cdr_node[s]
  <2>1. /\ n \in Nodes /\ n # None /\ spc[s] = "call" /\ fpc[f] = "clear"
        /\ cdrOf' = [cdrOf EXCEPT ![n] = call[s]] /\ fq' \in EN_QUEUE_overlapped(fq, n)
        /\ cdr_node' = [cdr_node EXCEPT ![s] = None] /\ fpc' = [fpc EXCEPT ![f] = "fetch"]
        /\ call' = [call EXCEPT ![s] = 0] /\ spc' = [spc EXCEPT ![s] = "idle"]
        /\ raced' = TRUE /\ UNCHANGED <<eq, p, inserted, started, noRecord, done>>
    BY <1>5 DEF EndCallOverlapped
  <2>2. /\ fq' \in Queues /\ LenWithin(fq') /\ NoDup(fq'.list)
        /\ \A m : Has(fq'.list, m) => Has(fq.list, m) \/ m = n
    BY <2>1, Enqueued, ZenonT(30)
  <2>3. TypeOK' /\ NoNullWalk' /\ HeldWhere' /\ NoLeak'
    BY <2>1, <2>2
  <2>4. OnePlace'
    BY <2>1, <2>2
  <2> QED
    BY <2>3, <2>4
<1>6. ASSUME NEW f \in FaxThreads, FaxFetch(f) PROVE NodeInv'
  <2>1. CASE fq.list = <<>>
    BY <1>6, <2>1 DEF FaxFetch
  <2>2. CASE fq.list # <<>>
    <3>1. /\ fpc[f] = "fetch" /\ p[f] = None
          /\ p' = [p EXCEPT ![f] = Head(fq.list)] /\ fq' = FETCH_PHEAD(fq)
          /\ fpc' = [fpc EXCEPT ![f] = "insert"]
          /\ UNCHANGED <<eq, cdr_node, call, spc, cdrOf, inserted, started, noRecord, done, raced>>
      BY <1>6, <2>2 DEF FaxFetch
    <3>2. /\ Head(fq.list) \in Nodes /\ Has(fq.list, Head(fq.list))
          /\ fq' \in Queues /\ LenWithin(fq') /\ NoDup(fq'.list)
          /\ \A m : Has(fq'.list, m) <=> Has(fq.list, m) /\ m # Head(fq.list)
          /\ fq.len = Len(fq.list) => fq'.len = Len(fq'.list)
      BY <2>2, <3>1, Fetched
    <3>3. TypeOK' /\ NoNullWalk' /\ HeldWhere'
      BY <3>1, <3>2
    <3>4. OnePlace'
      BY <3>1, <3>2
    <3>5. NoLeak'
      BY <3>1, <3>2
    <3> QED
      BY <3>3, <3>4, <3>5
  <2> QED
    BY <2>1, <2>2
<1>7. ASSUME NEW f \in FaxThreads, ClearFq(f) PROVE NodeInv'
  <2>1. /\ fq' \in Queues /\ LenWithin(fq') /\ fq'.list = fq.list
        /\ fq.list = <<>> => fq'.len = Len(fq'.list)
    BY <1>7, Cleared DEF ClearFq
  <2>2. raced' \in BOOLEAN /\ (~raced' => ~raced /\ fq.list = <<>>)
    BY <1>7 DEF ClearFq
  <2> QED
    BY <1>7, <2>1, <2>2 DEF ClearFq
<1>8. ASSUME NEW f \in FaxThreads, FaxInsert(f) PROVE NodeInv'
  <2>1. p[f] \in Nodes /\ cdrOf[p[f]] \in Calls
    BY <1>8 DEF FaxInsert, CallInv, WaitingCalls, Waiting, Due, Calls
  <2>2. inserted' \in Seq(Calls)
    BY <1>8, <2>1, AppendProperties DEF FaxInsert
  <2> QED
    BY <1>8, <2>2 DEF FaxInsert
<1>9. ASSUME NEW f \in FaxThreads, FaxReturn(f) PROVE NodeInv'
  <2>1. /\ p[f] \in Nodes /\ p[f] # None /\ eq' = EN_QUEUE(eq, p[f])
        /\ p' = [p EXCEPT ![f] = None] /\ fpc' = [fpc EXCEPT ![f] = "fetch"]
        /\ UNCHANGED <<fq, cdr_node, call, spc, cdrOf, inserted, started, noRecord, done, raced>>
    BY <1>9 DEF FaxReturn
  <2>2. /\ eq' \in Queues /\ LenWithin(eq') /\ NoDup(eq'.list)
        /\ \A m : Has(eq'.list, m) => Has(eq.list, m) \/ m = p[f]
    <3>1. /\ eq' \in EN_QUEUE_overlapped(eq, p[f])
          /\ ~Has(eq.list, p[f]) /\ p[f] \in Nodes
      BY <2>1, NormalEnqueue
    <3> QED
      BY <3>1, Enqueued
  <2>3. eq.len = Len(eq.list) => /\ eq'.len = Len(eq'.list) /\ Has(eq'.list, p[f])
                                 /\ \A m : Has(eq.list, m) => Has(eq'.list, m)
    BY <2>1, EnqueuedExact
  <2>4. TypeOK' /\ NoNullWalk' /\ HeldWhere'
    BY <2>1, <2>2
  <2>5. OnePlace'
    BY <2>1, <2>2
  <2>6. NoLeak'
    BY <2>1, <2>3
  <2> QED
    BY <2>4, <2>5, <2>6
<1>10. ASSUME NEW f \in FaxThreads, NEW s \in Slots, FaxReturnOverlapped(f, s) PROVE NodeInv'
  <2>1. /\ p[f] \in Nodes /\ p[f] # None /\ eq' \in EN_QUEUE_overlapped(eq, p[f])
        /\ p' = [p EXCEPT ![f] = None] /\ fpc' = [fpc EXCEPT ![f] = "fetch"]
        /\ spc[s] = "clear" /\ spc' = [spc EXCEPT ![s] = "direct"] /\ raced' = TRUE
        /\ UNCHANGED <<fq, cdr_node, call, cdrOf, inserted, started, noRecord, done>>
    BY <1>10 DEF FaxReturnOverlapped
  <2>2. /\ eq' \in Queues /\ LenWithin(eq') /\ NoDup(eq'.list)
        /\ \A m : Has(eq'.list, m) => Has(eq.list, m) \/ m = p[f]
    BY <2>1, Enqueued, ZenonT(30)
  <2>3. TypeOK' /\ NoNullWalk' /\ HeldWhere' /\ NoLeak'
    BY <2>1, <2>2
  <2>4. OnePlace'
    BY <2>1, <2>2
  <2> QED
    BY <2>3, <2>4
<1>11. ASSUME NEW f \in FaxThreads, FaxExit(f) PROVE NodeInv'
  BY <1>11 DEF FaxExit
<1>12. CASE SetDone
  BY <1>12 DEF SetDone
<1>13. CASE UNCHANGED vars
  BY <1>13 DEF vars
<1> QED
  BY <1>1, <1>2, <1>3, <1>4, <1>5, <1>6, <1>7, <1>8, <1>9, <1>10, <1>11, <1>12, <1>13
  DEF Next, SlotStep, FaxStep

-----------------------------------------------------------------------------
(* The records *)

LEMMA Appended ==
    ASSUME NEW c \in Calls, inserted \in Seq(Calls)
    PROVE  /\ Len(Append(inserted, c)) = Len(inserted) + 1 /\ Len(inserted) \in Nat
           /\ \A i \in 1 .. Len(inserted) : Append(inserted, c)[i] = inserted[i]
           /\ Append(inserted, c)[Len(inserted) + 1] = c
           /\ \A d : Has(Append(inserted, c), d) <=> Has(inserted, d) \/ d = c
           /\ NoDup(inserted) /\ ~Has(inserted, c) => NoDup(Append(inserted, c))
<1> DEFINE r == Append(inserted, c)
<1>1. /\ Len(r) = Len(inserted) + 1 /\ Len(inserted) \in Nat
      /\ \A i \in 1 .. Len(inserted) : r[i] = inserted[i]
      /\ r[Len(inserted) + 1] = c
  BY AppendProperties, LenProperties
<1> HIDE DEF r
<1>2. ASSUME NEW d PROVE Has(r, d) <=> Has(inserted, d) \/ d = c
  <2>1. ASSUME Has(r, d) PROVE Has(inserted, d) \/ d = c
    <3>1. PICK i \in 1 .. Len(inserted) + 1 : r[i] = d
      BY <1>1, <2>1 DEF Has
    <3>2. i \in 1 .. Len(inserted) \/ i = Len(inserted) + 1
      BY <1>1
    <3> QED
      BY <1>1, <3>1, <3>2 DEF Has
  <2>2. ASSUME Has(inserted, d) PROVE Has(r, d)
    BY <1>1, <2>2 DEF Has
  <2>3. ASSUME d = c PROVE Has(r, d)
    BY <1>1, <2>3 DEF Has
  <2> QED
    BY <2>1, <2>2, <2>3
<1>3. ASSUME NoDup(inserted), ~Has(inserted, c) PROVE NoDup(r)
  <2> SUFFICES ASSUME NEW i \in 1 .. Len(inserted) + 1, NEW j \in 1 .. Len(inserted) + 1,
                      r[i] = r[j]
               PROVE  i = j
    BY <1>1 DEF NoDup
  <2>1. CASE i <= Len(inserted) /\ j <= Len(inserted)
    BY <1>1, <1>3, <2>1 DEF NoDup
  <2>2. CASE i = Len(inserted) + 1 \/ j = Len(inserted) + 1
    BY <1>1, <1>3, <2>2 DEF Has
  <2> QED
    BY <1>1, <2>1, <2>2
<1> QED
  BY <1>1, <1>2, <1>3 DEF r

LEMMA CallInvInit == Init => CallInv
<1> SUFFICES ASSUME Init PROVE CallInv
  OBVIOUS
<1>1. Len(fq.list) = 0 /\ Len(inserted) = 0
  BY EmptySeq DEF Init, EmptyQueue
<1>2. InsertedOnce
  BY <1>1 DEF Init, InsertedOnce, NoDup
<1>3. SlotCalls
  BY DEF Init, SlotCalls
<1>4. WaitingCalls
  BY <1>1 DEF Init, WaitingCalls, Waiting, Has
<1> QED
  BY <1>2, <1>3, <1>4 DEF CallInv

(* A record leaves the ones that are due when it is inserted. *)
LEMMA InsertStep ==
    ASSUME TypeOK, InsertedOnce, NEW c, Due(c), inserted' = Append(inserted, c),
           UNCHANGED <<started, noRecord>>
    PROVE  InsertedOnce' /\ \A d : Due(d)' <=> Due(d) /\ d # c
<1>1. c \in Calls /\ started \in Nat
  BY DEF TypeOK, Due, Calls
<1>2. /\ Len(inserted') = Len(inserted) + 1 /\ Len(inserted) \in Nat
      /\ \A i \in 1 .. Len(inserted) : inserted'[i] = inserted[i]
      /\ inserted'[Len(inserted) + 1] = c
      /\ \A d : Has(inserted', d) <=> Has(inserted, d) \/ d = c
      /\ NoDup(inserted')
  BY <1>1, Appended DEF TypeOK, Due, InsertedOnce
<1>3. \A d : Due(d)' <=> Due(d) /\ d # c
  BY <1>2 DEF Due
<1>4. ASSUME NEW i \in 1 .. Len(inserted')
      PROVE  inserted'[i] \in 1 .. started /\ inserted'[i] \notin noRecord
  <2>1. i \in 1 .. Len(inserted) \/ i = Len(inserted) + 1
    BY <1>2
  <2> QED
    BY <1>2, <2>1 DEF Due, InsertedOnce
<1> QED
  BY <1>2, <1>3, <1>4 DEF InsertedOnce

LEMMA CallInvStep == NodeInv /\ CallInv /\ [Next]_vars => CallInv'
<1> SUFFICES ASSUME NodeInv, CallInv, [Next]_vars PROVE CallInv'
  OBVIOUS
<1>0. None \notin Nodes
  BY DEF None, Nodes
<1>t. started \in Nat
  BY DEF NodeInv, TypeOK
<1> USE <1>0, <1>t DEF NodeInv, TypeOK, NoNullWalk, OnePlace, HeldWhere, CallInv
<1>1. ASSUME NEW s \in Slots, StartCall(s) PROVE CallInv'
  <2>0. /\ spc[s] = "idle" /\ cdr_node[s] = None /\ started' = started + 1
        /\ call' = [call EXCEPT ![s] = started + 1]
        /\ UNCHANGED <<fq, p, fpc, cdrOf, inserted, done, raced>>
        /\ noRecord' \in {noRecord, noRecord \cup {started + 1}}
    BY <1>1 DEF StartCall
  <2>1. \A c : Due(c) => Due(c)'
    BY <2>0 DEF Due
  <2>2. InsertedOnce'
    BY <2>0 DEF InsertedOnce
  <2>3. \A c : c = started + 1 /\ noRecord' = noRecord => Due(c)'
    <3>1. started + 1 \notin noRecord /\ started + 1 \in 1 .. started'
      BY <2>0 DEF InsertedOnce
    <3>2. ~Has(inserted, started + 1)
      BY DEF InsertedOnce, Has
    <3> QED
      BY <2>0, <3>1, <3>2 DEF Due
  <2>4. /\ spc' \in {[spc EXCEPT ![s] = "call"], [spc EXCEPT ![s] = "clear"]}
        /\ \A t \in Slots : t # s => cdr_node'[t] = cdr_node[t]
        /\ noRecord' # noRecord => cdr_node'[s] = None /\ spc'[s] = "call"
    BY <1>1, <2>0 DEF StartCall
  <2>5. SlotCalls'
    <3>1. ASSUME NEW t \in Slots, t # s
          PROVE  /\ call'[t] = call[t] /\ spc'[t] = spc[t] /\ cdr_node'[t] = cdr_node[t]
                 /\ call[t] # started + 1
      BY <2>0, <2>4, <3>1 DEF SlotCalls
    <3>2. /\ call'[s] = started + 1 /\ started + 1 # 0 /\ spc'[s] # "idle"
          /\ started + 1 \in 1 .. started'
          /\ spc'[s] \in {"clear", "direct"} \/ cdr_node'[s] # None => noRecord' = noRecord
      BY <2>0, <2>4
    <3>3. \A c : c \in 1 .. started => c \in 1 .. started'
      BY <2>0
    <3> QED
      BY <2>1, <2>3, <3>1, <3>2, <3>3 DEF SlotCalls, Due
  <2>6. \A n : Waiting(n)' <=> Waiting(n)
    BY <2>0 DEF Waiting
  <2>7. WaitingCalls'
    BY <2>0, <2>1, <2>6 DEF WaitingCalls, Due
  <2> QED
    BY <2>2, <2>5, <2>7
<1>2. ASSUME NEW s \in Slots, ClearEq(s) PROVE CallInv'
  BY <1>2 DEF ClearEq, InsertedOnce, SlotCalls, WaitingCalls, Waiting, Due
<1>3. ASSUME NEW s \in Slots, DirectInsert(s) PROVE CallInv'
  <2>1. Due(call[s]) /\ spc[s] = "direct"
    BY <1>3 DEF DirectInsert, SlotCalls
  <2>2. InsertedOnce' /\ \A d : Due(d)' <=> Due(d) /\ d # call[s]
    BY <1>3, <2>1, InsertStep DEF DirectInsert
  <2>3. SlotCalls'
    BY <1>3, <2>1, <2>2 DEF DirectInsert, SlotCalls, Due
  <2>4. \A n : Waiting(n)' <=> Waiting(n)
    BY <1>3 DEF DirectInsert, Waiting
  <2>5. WaitingCalls'
    BY <1>3, <2>2, <2>4 DEF DirectInsert, WaitingCalls
  <2> QED
    BY <2>2, <2>3, <2>5
<1>4. ASSUME NEW s \in Slots, spc[s] = "call", call' = [call EXCEPT ![s] = 0],
             spc' = [spc EXCEPT ![s] = "idle"], cdr_node' = [cdr_node EXCEPT ![s] = None],
             UNCHANGED <<p, inserted, started, noRecord>>,
             \A f \in FaxThreads : fpc'[f] = "insert" <=> fpc[f] = "insert",
             \/ cdr_node[s] = None /\ UNCHANGED <<cdrOf, fq>>
             \/ /\ cdr_node[s] # None /\ cdrOf' = [cdrOf EXCEPT ![cdr_node[s]] = call[s]]
                /\ \A m : Has(fq'.list, m) => Has(fq.list, m) \/ m = cdr_node[s]
      PROVE  CallInv'
  <2>1. \A c : Due(c)' <=> Due(c)
    BY <1>4 DEF Due
  <2>2. InsertedOnce'
    BY <1>4 DEF InsertedOnce
  <2>3. SlotCalls'
    BY <1>4, <2>1 DEF SlotCalls
  <2>4. CASE cdr_node[s] = None
    <3>1. \A n : Waiting(n)' <=> Waiting(n)
      BY <1>4, <2>4 DEF Waiting
    <3>2. WaitingCalls'
      BY <1>4, <2>1, <2>4, <3>1 DEF WaitingCalls, Due
    <3> QED
      BY <2>2, <2>3, <3>2
  <2>5. CASE cdr_node[s] # None
    <3>1. /\ ~Waiting(cdr_node[s]) /\ Due(call[s]) /\ cdr_node[s] \in Nodes
          /\ \A t \in Slots : t # s => call[t] # call[s]
      BY <1>4, <2>5 DEF Waiting, SlotCalls, Due
    <3>2. \A n : Waiting(n)' => Waiting(n) \/ n = cdr_node[s]
      BY <1>4, <2>5 DEF Waiting
    <3>3. WaitingCalls'
      BY <1>4, <2>1, <2>5, <3>1, <3>2 DEF WaitingCalls, Due
    <3> QED
      BY <2>2, <2>3, <3>3
  <2> QED
    BY <2>4, <2>5
<1>5. ASSUME NEW s \in Slots, EndCall(s) PROVE CallInv'
  <2>1. CASE cdr_node[s] = None
    <3>1. cdr_node' = [cdr_node EXCEPT ![s] = None]
      BY <1>5, <2>1 DEF EndCall
    <3> QED
      BY <1>4, <1>5, <2>1, <3>1 DEF EndCall
  <2>2. CASE cdr_node[s] # None
    <3>1. fq' \in EN_QUEUE_overlapped(fq, cdr_node[s]) /\ cdr_node[s] \in Nodes
      BY <1>5, <2>2, NormalEnqueue DEF EndCall
    <3>2. \A m : Has(fq'.list, m) => Has(fq.list, m) \/ m = cdr_node[s]
      BY <2>2, <3>1, Enqueued
    <3> QED
      BY <1>4, <1>5, <2>2, <3>2 DEF EndCall
  <2> QED
    BY <2>1, <2>2
<1>6. ASSUME NEW s \in Slots, NEW f \in FaxThreads, EndCallOverlapped(s, f) PROVE CallInv'
  <2>1. fq' \in EN_QUEUE_overlapped(fq, cdr_node[s]) /\ cdr_node[s] \in Nodes
    BY <1>6 DEF EndCallOverlapped
  <2>2. \A m : Has(fq'.list, m) => Has(fq.list, m) \/ m = cdr_node[s]
    BY <2>1, Enqueued, ZenonT(30)
  <2>3. \A g \in FaxThreads : fpc'[g] = "insert" <=> fpc[g] = "insert"
    BY <1>6 DEF EndCallOverlapped
  <2> QED
    BY <1>4, <1>6, <2>2, <2>3 DEF EndCallOverlapped
(* The steps that change neither what is due nor where the calls are. *)
<1>7. ASSUME UNCHANGED <<cdr_node, call, cdrOf, inserted, started, noRecord>>,
             \A s \in Slots : spc'[s] = spc[s] \/ (spc[s] = "clear" /\ spc'[s] = "direct"),
             \A n \in Nodes : Waiting(n)' => Waiting(n)
      PROVE  CallInv'
  <2>1. \A c : Due(c)' <=> Due(c)
    BY <1>7 DEF Due
  <2>2. InsertedOnce'
    BY <1>7 DEF InsertedOnce
  <2>3. SlotCalls'
    BY <1>7, <2>1 DEF SlotCalls
  <2>4. WaitingCalls'
    BY <1>7, <2>1 DEF WaitingCalls
  <2> QED
    BY <2>2, <2>3, <2>4
<1>8. ASSUME NEW f \in FaxThreads, FaxFetch(f) PROVE CallInv'
  <2>1. CASE fq.list = <<>>
    <3>1. \A n \in Nodes : Waiting(n)' => Waiting(n)
      BY <1>8, <2>1 DEF FaxFetch, Waiting
    <3> QED
      BY <1>7, <1>8, <3>1 DEF FaxFetch
  <2>2. CASE fq.list # <<>>
    <3>1. /\ Has(fq.list, Head(fq.list))
          /\ \A m : Has(fq'.list, m) => Has(fq.list, m)
      BY <1>8, <2>2, Fetched DEF FaxFetch
    <3>2. \A n \in Nodes : Waiting(n)' => Waiting(n)
      BY <1>8, <2>2, <3>1 DEF FaxFetch, Waiting
    <3> QED
      BY <1>7, <1>8, <3>2 DEF FaxFetch
  <2> QED
    BY <2>1, <2>2
<1>9. ASSUME NEW f \in FaxThreads, ClearFq(f) PROVE CallInv'
  <2>1. fq'.list = fq.list
    BY <1>9, Cleared DEF ClearFq
  <2>2. \A n \in Nodes : Waiting(n)' => Waiting(n)
    BY <1>9, <2>1 DEF ClearFq, Waiting
  <2> QED
    BY <1>7, <1>9, <2>2 DEF ClearFq
<1>10. ASSUME NEW f \in FaxThreads, FaxInsert(f) PROVE CallInv'
  <2>1. p[f] \in Nodes /\ Waiting(p[f]) /\ Due(cdrOf[p[f]])
    BY <1>10 DEF FaxInsert, Waiting, WaitingCalls
  <2>2. InsertedOnce' /\ \A d : Due(d)' <=> Due(d) /\ d # cdrOf[p[f]]
    BY <1>10, <2>1, InsertStep DEF FaxInsert
  <2>3. SlotCalls'
    BY <1>10, <2>1, <2>2 DEF FaxInsert, SlotCalls, WaitingCalls
  <2>4. \A n \in Nodes : Waiting(n)' => Waiting(n) /\ n # p[f]
    BY <1>10, <2>1 DEF FaxInsert, Waiting
  <2>5. WaitingCalls'
    BY <1>10, <2>1, <2>2, <2>4 DEF FaxInsert, WaitingCalls
  <2> QED
    BY <2>2, <2>3, <2>5
<1>11. ASSUME NEW f \in FaxThreads, FaxReturn(f) PROVE CallInv'
  <2>1. \A n \in Nodes : Waiting(n)' => Waiting(n)
    BY <1>11 DEF FaxReturn, Waiting
  <2> QED
    BY <1>7, <1>11, <2>1 DEF FaxReturn
<1>12. ASSUME NEW f \in FaxThreads, NEW s \in Slots, FaxReturnOverlapped(f, s) PROVE CallInv'
  <2>1. \A n \in Nodes : Waiting(n)' => Waiting(n)
    BY <1>12 DEF FaxReturnOverlapped, Waiting
  <2> QED
    BY <1>7, <1>12, <2>1 DEF FaxReturnOverlapped
<1>13. ASSUME NEW f \in FaxThreads, FaxExit(f) PROVE CallInv'
  <2>1. \A n \in Nodes : Waiting(n)' => Waiting(n)
    BY <1>13 DEF FaxExit, Waiting
  <2> QED
    BY <1>7, <1>13, <2>1 DEF FaxExit
<1>14. CASE SetDone \/ UNCHANGED vars
  <2>1. \A n \in Nodes : Waiting(n)' => Waiting(n)
    BY <1>14 DEF SetDone, vars, Waiting
  <2> QED
    BY <1>7, <1>14, <2>1 DEF SetDone, vars
<1> QED
  BY <1>1, <1>2, <1>3, <1>5, <1>6, <1>8, <1>9, <1>10, <1>11, <1>12, <1>13, <1>14
  DEF Next, SlotStep, FaxStep

-----------------------------------------------------------------------------
PipelineInv == NodeInv /\ CallInv

LEMMA PipelineInvariant == Spec => []PipelineInv
<1>1. Init => PipelineInv
  BY NodeInvInit, CallInvInit DEF PipelineInv
<1>2. PipelineInv /\ [Next]_vars => PipelineInv'
  BY NodeInvStep, CallInvStep DEF PipelineInv
<1> QED
  BY <1>1, <1>2, PTL DEF Spec

(* The types of the queues, the nodes and the records. *)
THEOREM PipelineTypes == Spec => []TypeOK
BY PipelineInvariant, PTL DEF PipelineInv, NodeInv

(* EN_QUEUE never follows a NULL link in either queue, although len is       *)
(* written without the lock.                                                 *)
THEOREM NeverWalksNull == Spec => []NoNullWalk
BY PipelineInvariant, PTL DEF PipelineInv, NodeInv

(* No call's record is inserted twice, and none of an unrecorded call. *)
CdrAtMostOnce ==
    /\ \A i, j \in DOMAIN inserted : inserted[i] = inserted[j] => i = j
    /\ \A i \in DOMAIN inserted : inserted[i] \in 1 .. started /\ inserted[i] \notin noRecord

(* Whatever the race on len does, no record is inserted twice, and none of a *)
(* call whose files were never opened.                                       *)
THEOREM InsertsAtMostOnce == Spec => []CdrAtMostOnce
<1>1. PipelineInv => CdrAtMostOnce
  <2> SUFFICES ASSUME PipelineInv PROVE CdrAtMostOnce
    OBVIOUS
  <2>1. DOMAIN inserted = 1 .. Len(inserted)
    BY LenProperties DEF PipelineInv, NodeInv, TypeOK
  <2> QED
    BY <2>1 DEF PipelineInv, CallInv, InsertedOnce, NoDup, CdrAtMostOnce
<1> QED
  BY <1>1, PipelineInvariant, PTL

(* No node is ever in two places, and only the late len = 0 of FETCH_PHEAD,  *)
(* when it hits a queue in use, can lose one.                                *)
THEOREM NodesAreConserved == Spec => []NodesConserved
<1>1. PipelineInv => NodesConserved
  <2> SUFFICES ASSUME PipelineInv, NEW n \in Nodes
               PROVE  Cardinality(Holders(n)) <= 1 /\ (raced \/ Holders(n) # {})
    BY DEF NodesConserved
  <2>0. DOMAIN eq.list = 1 .. Len(eq.list) /\ DOMAIN fq.list = 1 .. Len(fq.list) /\ n # None
    BY LenProperties DEF PipelineInv, NodeInv, TypeOK, Queues, None, Nodes
  <2>1. ASSUME NEW x \in Holders(n), NEW y \in Holders(n) PROVE x = y
    BY <2>0, SMTT(20) DEF Holders, PipelineInv, NodeInv, OnePlace, Has, NoDup
  <2>2. Cardinality(Holders(n)) <= 1
    <3>1. CASE Holders(n) = {}
      BY <3>1, FS_EmptySet
    <3>2. CASE Holders(n) # {}
      <4>1. PICK x : Holders(n) = {x}
        BY <2>1, <3>2
      <4> QED
        BY <4>1, FS_Singleton
    <3> QED
      BY <3>1, <3>2
  <2>3. ASSUME ~raced PROVE Holders(n) # {}
    <3>1. CASE Has(eq.list, n)
      <4>1. PICK i \in DOMAIN eq.list : eq.list[i] = n
        BY <2>0, <3>1 DEF Has
      <4> QED
        BY <4>1 DEF Holders
    <3>2. CASE Has(fq.list, n)
      <4>1. PICK i \in DOMAIN fq.list : fq.list[i] = n
        BY <2>0, <3>2 DEF Has
      <4> QED
        BY <4>1 DEF Holders
    <3>3. CASE (\E s \in Slots : cdr_node[s] = n) \/ (\E f \in FaxThreads : p[f] = n)
      BY <3>3 DEF Holders
    <3> QED
      BY <2>3, <3>1, <3>2, <3>3 DEF PipelineInv, NodeInv, NoLeak
  <2> QED
    BY <2>2, <2>3
<1> QED
  BY <1>1, PipelineInvariant, PTL

-----------------------------------------------------------------------------
(* No record is lost *)

InSlot(c) == \E s \in Slots : call[s] = c /\ (spc[s] \in {"clear", "direct"} \/ cdr_node[s] # None)

InNode(c) == \E n \in Nodes : Waiting(n) /\ cdrOf[n] = c

Kept(c) == c \in noRecord \/ Has(inserted, c) \/ InSlot(c) \/ InNode(c)

NoneLost == ~raced => \A c \in 1 .. started : Kept(c)

LEMMA NoneLostStep == NodeInv /\ CallInv /\ NoneLost /\ [Next]_vars => NoneLost'
<1> SUFFICES ASSUME NodeInv, CallInv, NoneLost, [Next]_vars, ~raced' PROVE \A c \in 1 .. started' : Kept(c)'
  BY DEF NoneLost
<1>0. None \notin Nodes /\ started \in Nat
  BY DEF None, Nodes, NodeInv, TypeOK
<1>r. ~raced
  BY DEF Next, SlotStep, FaxStep, StartCall, ClearEq, DirectInsert, EndCall, EndCallOverlapped,
         FaxFetch, ClearFq, FaxInsert, FaxReturn, FaxReturnOverlapped, FaxExit, SetDone, vars
<1>k. \A c \in 1 .. started : Kept(c)
  BY <1>r DEF NoneLost
<1> USE <1>0, <1>k DEF NodeInv, TypeOK, OnePlace, HeldWhere
<1>1. ASSUME NEW s \in Slots, StartCall(s) PROVE \A c \in 1 .. started' : Kept(c)'
  <2>0. /\ spc[s] = "idle" /\ cdr_node[s] = None /\ started' = started + 1 /\ call[s] = 0
        /\ call' = [call EXCEPT ![s] = started + 1]
        /\ UNCHANGED <<fq, p, fpc, cdrOf, inserted>>
        /\ noRecord \subseteq noRecord'
    BY <1>1 DEF StartCall, CallInv, SlotCalls
  <2>1. ASSUME NEW c, c = started + 1 PROVE Kept(c)'
    <3>1. CASE eq.list # <<>> /\ cdr_node' = [cdr_node EXCEPT ![s] = Head(eq.list)]
      <4>1. Head(eq.list) \in Nodes
        BY <3>1, Fetched DEF NoNullWalk
      <4>2. InSlot(c)'
        BY <2>0, <2>1, <3>1, <4>1 DEF InSlot
      <4> QED
        BY <2>0, <4>2 DEF Kept
    <3>2. CASE spc' = [spc EXCEPT ![s] = "clear"]
      <4>1. InSlot(c)'
        BY <2>0, <2>1, <3>2 DEF InSlot
      <4> QED
        BY <2>0, <4>1 DEF Kept
    <3>3. CASE noRecord' = noRecord \cup {started + 1}
      BY <2>0, <2>1, <3>3 DEF Kept
    <3> QED
      BY <1>1, <3>1, <3>2, <3>3 DEF StartCall
  <2>2. ASSUME NEW c \in 1 .. started PROVE Kept(c)'
    <3>1. CASE InSlot(c)
      <4>1. PICK t \in Slots : call[t] = c /\ (spc[t] \in {"clear", "direct"} \/ cdr_node[t] # None)
        BY <3>1 DEF InSlot
      <4>2. t # s
        BY <2>0, <4>1
      <4>3. spc'[t] = spc[t] /\ cdr_node'[t] = cdr_node[t] /\ call'[t] = call[t]
        BY <1>1, <4>2 DEF StartCall
      <4> QED
        BY <4>1, <4>3 DEF InSlot, Kept
    <3>2. CASE InNode(c)
      BY <2>0, <3>2 DEF InNode, Waiting, Kept
    <3> QED
      BY <2>0, <3>1, <3>2 DEF Kept
  <2>3. \A c \in 1 .. started' : c \in 1 .. started \/ c = started + 1
    BY <2>0
  <2> QED
    BY <2>1, <2>2, <2>3
(* The steps that insert nothing, end no call and move no record. *)
<1>2. ASSUME UNCHANGED <<cdr_node, call, cdrOf, inserted, started, noRecord>>,
             \A s \in Slots : spc'[s] = spc[s] \/ (spc[s] = "clear" /\ spc'[s] = "direct"),
             \A n \in Nodes : Waiting(n) => Waiting(n)'
      PROVE  \A c \in 1 .. started' : Kept(c)'
  <2>1. \A c : InSlot(c) => InSlot(c)'
    BY <1>2 DEF InSlot
  <2>2. \A c : InNode(c) => InNode(c)'
    BY <1>2 DEF InNode
  <2> QED
    BY <1>2, <2>1, <2>2 DEF Kept
<1>3. ASSUME NEW s \in Slots, ClearEq(s) PROVE \A c \in 1 .. started' : Kept(c)'
  <2>1. \A n \in Nodes : Waiting(n) => Waiting(n)'
    BY <1>3 DEF ClearEq, Waiting
  <2> QED
    BY <1>2, <1>3, <2>1 DEF ClearEq
<1>4. ASSUME NEW s \in Slots, DirectInsert(s) PROVE \A c \in 1 .. started' : Kept(c)'
  <2>1. Due(call[s]) /\ spc[s] = "direct"
    BY <1>4 DEF DirectInsert, CallInv, SlotCalls
  <2>2. \A d : Has(inserted', d) <=> Has(inserted, d) \/ d = call[s]
    <3>1. call[s] \in Calls
      BY <2>1 DEF Due, Calls
    <3> QED
      BY <1>4, <3>1, Appended DEF DirectInsert
  <2>3. \A c : InSlot(c) => InSlot(c)' \/ c = call[s]
    BY <1>4 DEF DirectInsert, InSlot
  <2>4. \A c : InNode(c) => InNode(c)'
    BY <1>4 DEF DirectInsert, InNode, Waiting
  <2> QED
    BY <1>4, <2>2, <2>3, <2>4 DEF DirectInsert, Kept
<1>5. ASSUME NEW s \in Slots, EndCall(s) PROVE \A c \in 1 .. started' : Kept(c)'
  <2>0. /\ spc[s] = "call" /\ call' = [call EXCEPT ![s] = 0] /\ spc' = [spc EXCEPT ![s] = "idle"]
        /\ UNCHANGED <<p, fpc, inserted, started, noRecord>>
    BY <1>5 DEF EndCall
  <2>1. ASSUME NEW c \in 1 .. started, InSlot(c) PROVE InSlot(c)' \/ InNode(c)'
    <3>1. PICK t \in Slots : call[t] = c /\ (spc[t] \in {"clear", "direct"} \/ cdr_node[t] # None)
      BY <2>1 DEF InSlot
    <3>2. CASE t # s
      <4>1. spc'[t] = spc[t] /\ cdr_node'[t] = cdr_node[t] /\ call'[t] = call[t]
        BY <1>5, <3>2 DEF EndCall
      <4> QED
        BY <3>1, <4>1 DEF InSlot
    <3>3. CASE t = s
      <4>1. cdr_node[s] \in Nodes /\ fq' = EN_QUEUE(fq, cdr_node[s])
            /\ cdrOf' = [cdrOf EXCEPT ![cdr_node[s]] = c]
        BY <1>5, <2>0, <3>1, <3>3 DEF EndCall
      <4>2. Has(fq'.list, cdr_node[s])
        BY <1>r, <4>1, EnqueuedExact DEF NoLeak
      <4> QED
        BY <4>1, <4>2 DEF InNode, Waiting
    <3> QED
      BY <3>2, <3>3
  <2>2. ASSUME NEW c, InNode(c) PROVE InNode(c)'
    <3>1. PICK n \in Nodes : Waiting(n) /\ cdrOf[n] = c
      BY <2>2 DEF InNode
    <3>2. n # cdr_node[s]
      BY <3>1 DEF Waiting
    <3>3. cdrOf'[n] = cdrOf[n]
      BY <1>5, <3>2 DEF EndCall
    <3>4. Has(fq.list, n) => Has(fq'.list, n)
      <4>1. CASE cdr_node[s] = None
        BY <1>5, <4>1 DEF EndCall
      <4>2. CASE cdr_node[s] # None
        <5>1. fq' = EN_QUEUE(fq, cdr_node[s]) /\ cdr_node[s] \in Nodes /\ fq.len = Len(fq.list)
          BY <1>r, <1>5, <4>2 DEF EndCall, NoLeak
        <5> QED
          BY <5>1, EnqueuedExact
      <4> QED
        BY <4>1, <4>2
    <3> QED
      BY <2>0, <3>1, <3>3, <3>4 DEF InNode, Waiting
  <2> QED
    BY <2>0, <2>1, <2>2 DEF Kept
<1>6. ASSUME NEW f \in FaxThreads, FaxFetch(f) PROVE \A c \in 1 .. started' : Kept(c)'
  <2>1. CASE fq.list = <<>>
    <3>1. \A n \in Nodes : Waiting(n) => Waiting(n)'
      BY <1>6, <2>1 DEF FaxFetch, Waiting
    <3> QED
      BY <1>2, <1>6, <3>1 DEF FaxFetch
  <2>2. CASE fq.list # <<>>
    <3>1. /\ p'[f] = Head(fq.list) /\ fpc'[f] = "insert"
          /\ \A g \in FaxThreads : fpc[g] = "insert" => g # f /\ fpc'[g] = fpc[g] /\ p'[g] = p[g]
      BY <1>6, <2>2 DEF FaxFetch
    <3>2. \A m : Has(fq'.list, m) <=> Has(fq.list, m) /\ m # Head(fq.list)
      BY <1>6, <2>2, Fetched DEF FaxFetch, NoNullWalk
    <3>3. \A n \in Nodes : Waiting(n) => Waiting(n)'
      BY <3>1, <3>2 DEF Waiting
    <3> QED
      BY <1>2, <1>6, <3>3 DEF FaxFetch
  <2> QED
    BY <2>1, <2>2
<1>7. ASSUME NEW f \in FaxThreads, ClearFq(f) PROVE \A c \in 1 .. started' : Kept(c)'
  <2>1. fq'.list = fq.list
    BY <1>7, Cleared DEF ClearFq, NoNullWalk
  <2>2. \A n \in Nodes : Waiting(n) => Waiting(n)'
    BY <1>7, <2>1 DEF ClearFq, Waiting
  <2> QED
    BY <1>2, <1>7, <2>2 DEF ClearFq
<1>8. ASSUME NEW f \in FaxThreads, FaxInsert(f) PROVE \A c \in 1 .. started' : Kept(c)'
  <2>1. p[f] \in Nodes /\ Due(cdrOf[p[f]])
    BY <1>8 DEF FaxInsert, Waiting, CallInv, WaitingCalls
  <2>2. \A d : Has(inserted', d) <=> Has(inserted, d) \/ d = cdrOf[p[f]]
    <3>1. cdrOf[p[f]] \in Calls
      BY <2>1 DEF Due, Calls
    <3> QED
      BY <1>8, <3>1, Appended DEF FaxInsert
  <2>3. \A n \in Nodes : Waiting(n) => Waiting(n)' \/ n = p[f]
    BY <1>8 DEF FaxInsert, Waiting
  <2>4. \A c : InNode(c) => InNode(c)' \/ c = cdrOf[p[f]]
    BY <1>8, <2>3 DEF FaxInsert, InNode
  <2>5. \A c : InSlot(c) => InSlot(c)'
    BY <1>8 DEF FaxInsert, InSlot
  <2> QED
    BY <1>8, <2>2, <2>4, <2>5 DEF FaxInsert, Kept
<1>9. ASSUME NEW f \in FaxThreads, FaxReturn(f) \/ FaxExit(f) PROVE \A c \in 1 .. started' : Kept(c)'
  <2>1. \A n \in Nodes : Waiting(n) => Waiting(n)'
    BY <1>9 DEF FaxReturn, FaxExit, Waiting
  <2> QED
    BY <1>2, <1>9, <2>1 DEF FaxReturn, FaxExit
<1>10. CASE SetDone \/ UNCHANGED vars
  <2>1. \A n \in Nodes : Waiting(n) => Waiting(n)'
    BY <1>10 DEF SetDone, vars, Waiting
  <2> QED
    BY <1>2, <1>10, <2>1 DEF SetDone, vars
<1>11. \A s \in Slots, f \in FaxThreads : ~EndCallOverlapped(s, f) /\ ~FaxReturnOverlapped(f, s)
  BY DEF EndCallOverlapped, FaxReturnOverlapped
<1> QED
  BY <1>1, <1>3, <1>4, <1>5, <1>6, <1>7, <1>8, <1>9, <1>10, <1>11 DEF Next, SlotStep, FaxStep

(* The record of every recorded call is in exactly one place on its way to   *)
(* the ring, for any number of slots, nodes, fax threads and calls; only the *)
(* late len = 0 of FETCH_PHEAD that hits a queue in use can lose one.        *)
THEOREM RecordsAreConserved == Spec => []RecordsConserved
<1>1. Init => NoneLost
  BY DEF Init, NoneLost
<1>2. PipelineInv /\ NoneLost => RecordsConserved
  <2> SUFFICES ASSUME PipelineInv, NoneLost, NEW c \in Calls
               PROVE  /\ Cardinality(RecordPlaces(c)) <= 1
                      /\ IF c \in (1 .. started) \ noRecord
                         THEN raced \/ RecordPlaces(c) # {} ELSE RecordPlaces(c) = {}
    BY DEF RecordsConserved
  <2>0. /\ DOMAIN fq.list = 1 .. Len(fq.list) /\ DOMAIN inserted = 1 .. Len(inserted)
        /\ \A i \in 1 .. Len(fq.list) : fq.list[i] \in Nodes
        /\ None \notin Nodes
    BY LenProperties DEF PipelineInv, NodeInv, TypeOK, Queues, None, Nodes
  <2>1. ASSUME NEW f \in FaxThreads, fpc[f] = "insert" PROVE p[f] \in Nodes /\ Waiting(p[f])
    BY <2>0, <2>1 DEF PipelineInv, NodeInv, TypeOK, HeldWhere, Waiting
  <2>2. ASSUME NEW i \in 1 .. Len(fq.list) PROVE Waiting(fq.list[i])
    BY DEF Waiting, Has
  <2>3. ASSUME NEW x \in RecordPlaces(c), NEW y \in RecordPlaces(c) PROVE x = y
    <3> DEFINE S == {t \in Slots : call[t] = c /\ (spc[t] \in {"clear", "direct"} \/ cdr_node[t] # None)}
               Q == {j \in 1 .. Len(fq.list) : cdrOf[fq.list[j]] = c}
               F == {g \in FaxThreads : fpc[g] = "insert" /\ cdrOf[p[g]] = c}
               R == {j \in 1 .. Len(inserted) : inserted[j] = c}
    <3>1. \A s, t \in S : s = t
      BY DEF PipelineInv, CallInv, SlotCalls, Calls
    <3>2. \A s \in S : Due(c)
      BY DEF PipelineInv, CallInv, SlotCalls
    <3>3. ASSUME NEW i \in Q PROVE Due(c) /\ S = {}
      BY <2>0, <2>2 DEF PipelineInv, CallInv, WaitingCalls
    <3>4. ASSUME NEW f \in F PROVE Due(c) /\ S = {}
      BY <2>1 DEF PipelineInv, CallInv, WaitingCalls
    <3>5. Due(c) => R = {}
      BY DEF Due, Has
    <3>6. ASSUME NEW i \in Q, NEW j \in Q PROVE i = j
      <4>1. fq.list[i] = fq.list[j]
        BY <2>0, <2>2 DEF PipelineInv, CallInv, WaitingCalls
      <4> QED
        BY <4>1 DEF PipelineInv, NodeInv, OnePlace, NoDup
    <3>7. ASSUME NEW f \in F, NEW g \in F PROVE f = g
      <4>1. p[f] = p[g] /\ p[f] # None
        BY <2>0, <2>1 DEF PipelineInv, CallInv, WaitingCalls
      <4> QED
        BY <4>1 DEF PipelineInv, NodeInv, OnePlace
    <3>8. ASSUME NEW i \in Q, NEW f \in F PROVE FALSE
      <4>1. p[f] = fq.list[i] /\ p[f] # None
        BY <2>0, <2>1, <2>2 DEF PipelineInv, CallInv, WaitingCalls
      <4> QED
        BY <4>1 DEF PipelineInv, NodeInv, OnePlace, Has
    <3>9. \A i, j \in R : i = j
      BY DEF PipelineInv, CallInv, InsertedOnce, NoDup
    <3>10. RecordPlaces(c) = {<<"slot", s>> : s \in S} \cup {<<"fq", i>> : i \in Q}
                                 \cup {<<"fax", f>> : f \in F} \cup {<<"ring", i>> : i \in R}
      BY <2>0 DEF RecordPlaces
    <3> HIDE DEF S, Q, F, R
    <3>11. CASE S # {}
      BY <3>1, <3>2, <3>3, <3>4, <3>5, <3>10, <3>11, <2>3
    <3>12. CASE Q # {}
      BY <3>3, <3>5, <3>6, <3>8, <3>10, <3>12, <2>3
    <3>13. CASE F # {}
      BY <3>4, <3>5, <3>7, <3>8, <3>10, <3>13, <2>3
    <3>14. CASE S = {} /\ Q = {} /\ F = {}
      BY <3>9, <3>10, <3>14, <2>3
    <3> QED
      BY <3>11, <3>12, <3>13, <3>14
  <2>4. Cardinality(RecordPlaces(c)) <= 1
    <3>1. CASE RecordPlaces(c) = {}
      BY <3>1, FS_EmptySet
    <3>2. CASE RecordPlaces(c) # {}
      <4>1. PICK x : RecordPlaces(c) = {x}
        BY <2>3, <3>2
      <4>2. Cardinality({x}) = 1
        BY FS_Singleton
      <4> QED
        BY <4>1, <4>2
    <3> QED
      BY <3>1, <3>2
  <2>5. ASSUME c \in (1 .. started) \ noRecord, ~raced PROVE RecordPlaces(c) # {}
    <3>1. CASE Has(inserted, c)
      <4>1. PICK i \in DOMAIN inserted : inserted[i] = c
        BY <2>0, <3>1 DEF Has
      <4> QED
        BY <4>1 DEF RecordPlaces
    <3>2. CASE InSlot(c)
      BY <3>2 DEF InSlot, RecordPlaces
    <3>3. CASE InNode(c)
      <4>1. PICK n \in Nodes : Waiting(n) /\ cdrOf[n] = c
        BY <3>3 DEF InNode
      <4>2. CASE Has(fq.list, n)
        <5>1. PICK i \in DOMAIN fq.list : fq.list[i] = n
          BY <2>0, <4>2 DEF Has
        <5> QED
          BY <4>1, <5>1 DEF RecordPlaces
      <4>3. CASE \E f \in FaxThreads : fpc[f] = "insert" /\ p[f] = n
        BY <4>1, <4>3 DEF RecordPlaces
      <4> QED
        BY <4>1, <4>2, <4>3 DEF Waiting
    <3> QED
      BY <2>5, <3>1, <3>2, <3>3 DEF NoneLost, Kept
  <2>6. ASSUME c \notin (1 .. started) \ noRecord PROVE RecordPlaces(c) = {}
    <3>1. ~Due(c)
      BY <2>6 DEF Due
    <3>2. \A t \in Slots : ~(call[t] = c /\ (spc[t] \in {"clear", "direct"} \/ cdr_node[t] # None))
      BY <3>1 DEF PipelineInv, CallInv, SlotCalls
    <3>3. \A j \in DOMAIN fq.list : cdrOf[fq.list[j]] # c
      BY <2>0, <2>2, <3>1 DEF PipelineInv, CallInv, WaitingCalls
    <3>4. \A g \in FaxThreads : ~(fpc[g] = "insert" /\ cdrOf[p[g]] = c)
      BY <2>1, <3>1 DEF PipelineInv, CallInv, WaitingCalls
    <3>5. \A j \in DOMAIN inserted : inserted[j] # c
      BY <2>0, <2>6 DEF PipelineInv, CallInv, InsertedOnce
    <3> QED
      BY <3>2, <3>3, <3>4, <3>5 DEF RecordPlaces
  <2> QED
    BY <2>4, <2>5, <2>6
<1>3. PipelineInv /\ NoneLost /\ [Next]_vars => NoneLost'
  BY NoneLostStep DEF PipelineInv
<1> QED
  BY <1>1, <1>2, <1>3, PipelineInvariant, PTL DEF Spec
=============================================================================
