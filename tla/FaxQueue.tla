------------------------------ MODULE FaxQueue ------------------------------
(***************************************************************************)
(* fax_queue.c: a linked list of STRUCT_CDR_PATH nodes with a length, used *)
(* for the pool of free nodes (eq) and for the recordings that wait for    *)
(* fax detection (fq).                                                     *)
(*                                                                         *)
(* A queue is the sequence of nodes reachable from phead, and len.  The    *)
(* two differ when FETCH_PHEAD's `queue->len = 0', which runs after the    *)
(* unlock, lands late: then EN_QUEUE, which walks len - 1 links and hangs  *)
(* the new node there, cuts off the nodes behind that point.               *)
(***************************************************************************)
EXTENDS Integers, Sequences

EmptyQueue == [list |-> <<>>, len |-> 0]

(* INIT_QUEUE: all nodes in eq, none in fq. *)
PoolOf(nodes) == [list |-> nodes, len |-> Len(nodes)]

(* FETCH_PHEAD of a non-empty list, under the lock. *)
keep_len_fetch(q) == [list |-> Tail(q.list), len |-> q.len]

FETCH_PHEAD(q) == [list |-> Tail(q.list), len |-> q.len - 1]

(* The store after the unlock of an empty FETCH_PHEAD. *)
ClearLen(q) == [q EXCEPT !.len = 0]

(* The list after node n is hung behind the k-th one. *)
HangAt(q, k, n) ==
    IF q.list = <<>> THEN <<n>> ELSE Append(SubSeq(q.list, 1, k), n)

(* The number of nodes the loop of EN_QUEUE walks to. *)
Reached(q) == IF q.len > 1 THEN q.len ELSE 1

hang_behind_head(q, n) == [list |-> HangAt(q, 1, n), len |-> q.len + 1]

EN_QUEUE(q, n) == [list |-> HangAt(q, Reached(q), n), len |-> q.len + 1]

(* EN_QUEUE while another thread's late len = 0 falls into it: the loop may *)
(* stop early, and len++ may start from 0 or overwrite the store.           *)
EN_QUEUE_overlapped(q, n) ==
    {[list |-> HangAt(q, k, n), len |-> 1] : k \in 1 .. Reached(q)}
        \cup {EN_QUEUE(q, n)}

(* EN_QUEUE's walk meets no NULL. *)
LenWithin(q) == q.len <= Len(q.list)
=============================================================================
