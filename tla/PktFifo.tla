------------------------------- MODULE PktFifo -------------------------------
(***************************************************************************)
(* pkt_fifo.c and the two loops of vpu_worker.c around it: the io thread   *)
(* copies captured packets into one worker's ring, the worker takes a      *)
(* POINTER to the oldest one, gives the slot back (count - 1) and only     *)
(* then parses the packet through the pointer.  There is no lock: the io   *)
(* thread owns `in', the worker owns `out', and both move count            *)
(* atomically.                                                             *)
(*                                                                         *)
(* The k-th packet accepted is the number k; 0 is an empty slot or one     *)
(* whose memcpy is under way.  The worker is not worker 0, so it waits     *)
(* while vpu_dir_reload is set; worker 0 clears the flag.                  *)
(***************************************************************************)
EXTENDS Integers

CONSTANTS
    Size,       \* PKT_FIFO_SIZE (20480 in the code)
    MaxPkts     \* bound: packets captured

ASSUME FifoAssumption == Size \in Nat \ {0} /\ MaxPkts \in Nat

VARIABLES
    in, out, count, pkt,    \* pkt_fifo_t
    io,                     \* where vpu_io_thread is in pkt_fifo_put
    node,                   \* the slot the worker's pointer refers to
    worker,                 \* where vpu_worker_thread is
    vpu_dir_reload, done,   \* flags of other threads (SVM_DONE)
    all_pkts, lost_pkts,    \* counters
    taken                   \* history: packets taken by the worker

vars == <<in, out, count, pkt, io, node, worker, vpu_dir_reload, done, all_pkts, lost_pkts, taken>>

Slot == 0 .. Size - 1

(* Slot number i, counted on past the end of the ring. *)
At(i) == IF i >= Size THEN i - Size ELSE i

Accepted == taken + count

TypeOK ==
    /\ in \in Slot /\ out \in Slot /\ node \in Slot
    /\ count \in 0 .. Size
    /\ pkt \in [Slot -> Nat]
    /\ io \in {"pcap", "copy", "torn", "add", "exit"}
    /\ worker \in {"get", "parse", "exit"}
    /\ vpu_dir_reload \in BOOLEAN /\ done \in BOOLEAN
    /\ all_pkts \in Nat /\ lost_pkts \in Nat /\ taken \in Nat

Init ==
    /\ in = 0 /\ out = 0 /\ count = 0 /\ node = 0
    /\ pkt = [s \in Slot |-> 0]
    /\ io = "pcap" /\ worker = "get"
    /\ vpu_dir_reload = FALSE /\ done = FALSE
    /\ all_pkts = 0 /\ lost_pkts = 0 /\ taken = 0

-----------------------------------------------------------------------------
(* vpu_io_thread *)

early_full_PcapNext ==
    /\ io = "pcap" /\ ~done /\ all_pkts < MaxPkts
    /\ all_pkts' = all_pkts + 1
    /\ IF count >= Size - 1
       THEN lost_pkts' = lost_pkts + 1 /\ io' = io
       ELSE io' = "copy" /\ lost_pkts' = lost_pkts
    /\ UNCHANGED <<in, out, count, pkt, node, worker, vpu_dir_reload, done, taken>>

(* A packet arrives; pkt_fifo_put looks at count and drops it if full. *)
PcapNext ==
    /\ io = "pcap" /\ ~done /\ all_pkts < MaxPkts
    /\ all_pkts' = all_pkts + 1
    /\ IF count >= Size
       THEN lost_pkts' = lost_pkts + 1 /\ io' = io
       ELSE io' = "copy" /\ lost_pkts' = lost_pkts
    /\ UNCHANGED <<in, out, count, pkt, node, worker, vpu_dir_reload, done, taken>>

CopyBegin ==
    /\ io = "copy"
    /\ pkt' = [pkt EXCEPT ![in] = 0]
    /\ io' = "torn"
    /\ UNCHANGED <<in, out, count, node, worker, vpu_dir_reload, done, all_pkts, lost_pkts, taken>>

CopyEnd ==
    /\ io = "torn"
    /\ pkt' = [pkt EXCEPT ![in] = Accepted + 1]
    /\ io' = "add"
    /\ UNCHANGED <<in, out, count, node, worker, vpu_dir_reload, done, all_pkts, lost_pkts, taken>>

no_wrap_AddCount ==
    /\ io = "add"
    /\ count' = count + 1
    /\ in' = IF in + 1 > Size THEN 0 ELSE in + 1
    /\ io' = "pcap"
    /\ UNCHANGED <<out, pkt, node, worker, vpu_dir_reload, done, all_pkts, lost_pkts, taken>>

(* atomic32_add, then `in', which only this thread reads. *)
AddCount ==
    /\ io = "add"
    /\ count' = count + 1
    /\ in' = At(in + 1)
    /\ io' = "pcap"
    /\ UNCHANGED <<out, pkt, node, worker, vpu_dir_reload, done, all_pkts, lost_pkts, taken>>

IoExit ==
    /\ io = "pcap" /\ done
    /\ io' = "exit"
    /\ UNCHANGED <<in, out, count, pkt, node, worker, vpu_dir_reload, done, all_pkts, lost_pkts, taken>>

-----------------------------------------------------------------------------
(* vpu_worker_thread *)

leave_last_Get ==
    /\ worker = "get" /\ ~done /\ ~vpu_dir_reload
    /\ count > 1
    /\ node' = out /\ taken' = taken + 1
    /\ count' = count - 1
    /\ out' = At(out + 1)
    /\ worker' = "parse"
    /\ UNCHANGED <<in, pkt, io, vpu_dir_reload, done, all_pkts, lost_pkts>>

next_node_Get ==
    /\ worker = "get" /\ ~done /\ ~vpu_dir_reload
    /\ count > 0
    /\ out' = At(out + 1)
    /\ node' = out' /\ taken' = taken + 1
    /\ count' = count - 1
    /\ worker' = "parse"
    /\ UNCHANGED <<in, pkt, io, vpu_dir_reload, done, all_pkts, lost_pkts>>

(* pkt_fifo_get: the pointer, atomic32_sub, then `out'.  `out >= size' does *)
(* not happen (TypeOK).                                                     *)
Get ==
    /\ worker = "get" /\ ~done /\ ~vpu_dir_reload
    /\ count > 0
    /\ node' = out /\ taken' = taken + 1
    /\ count' = count - 1
    /\ out' = At(out + 1)
    /\ worker' = "parse"
    /\ UNCHANGED <<in, pkt, io, vpu_dir_reload, done, all_pkts, lost_pkts>>

(* The header check and voice_parser, reading through node.pkt until here. *)
ParseEnd ==
    /\ worker = "parse"
    /\ worker' = "get"
    /\ UNCHANGED <<in, out, count, pkt, io, node, vpu_dir_reload, done, all_pkts, lost_pkts, taken>>

WorkerExit ==
    /\ worker = "get" /\ done
    /\ worker' = "exit"
    /\ UNCHANGED <<in, out, count, pkt, io, node, vpu_dir_reload, done, all_pkts, lost_pkts, taken>>

-----------------------------------------------------------------------------
(* Other threads: a configuration reload, worker 0's answer, the shutdown. *)
SetDirReload ==
    /\ ~vpu_dir_reload /\ vpu_dir_reload' = TRUE
    /\ UNCHANGED <<in, out, count, pkt, io, node, worker, done, all_pkts, lost_pkts, taken>>

WorkerZeroReloads ==
    /\ vpu_dir_reload /\ vpu_dir_reload' = FALSE
    /\ UNCHANGED <<in, out, count, pkt, io, node, worker, done, all_pkts, lost_pkts, taken>>

SetDone ==
    /\ ~done /\ done' = TRUE
    /\ UNCHANGED <<in, out, count, pkt, io, node, worker, vpu_dir_reload, all_pkts, lost_pkts, taken>>

IoThread     == PcapNext \/ CopyBegin \/ CopyEnd \/ AddCount \/ IoExit
WorkerThread == Get \/ ParseEnd \/ WorkerExit

Next == IoThread \/ WorkerThread \/ SetDirReload \/ WorkerZeroReloads \/ SetDone

Spec == Init /\ [][Next]_vars

(* All threads run, worker 0 too; a worker that looks at vpu_dir_reload      *)
(* every 100 ns sees it low between two reloads.                             *)
Fairness == WF_vars(IoThread) /\ SF_vars(Get) /\ WF_vars(ParseEnd) /\ WF_vars(WorkerZeroReloads)

FairSpec == Spec /\ Fairness
-----------------------------------------------------------------------------
(* The io thread has refilled the ring since the worker's get, and is at or   *)
(* past the slot the worker is reading.                                       *)
CaughtUp == count = Size \/ (count = Size - 1 /\ io \in {"torn", "add"})

(* A packet under the parser's pointer is the one that was taken, as long as  *)
(* the io thread did not fill the rest of the ring meanwhile.                 *)
ParsedIntact == worker = "parse" /\ ~CaughtUp => pkt[node] = taken

(* The ring, which two threads share without a lock, implements a bounded    *)
(* queue: what they see of each other is an accepted packet at the end, the  *)
(* oldest one gone, or a packet refused by a full ring.                      *)
Queue == INSTANCE PktQueue WITH
    queue    <- [i \in 1 .. count |-> pkt[At(out + (i - 1))]],
    accepted <- Accepted,
    got      <- taken,
    lost     <- lost_pkts

RefinesQueue == Queue!Spec

(* Every packet accepted is parsed in the end, unless the program stops. *)
EventuallyTaken == \A k \in 1 .. MaxPkts : (Accepted >= k) ~> (done \/ taken >= k)
=============================================================================
