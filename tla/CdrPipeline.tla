----------------------------- MODULE CdrPipeline -----------------------------
(***************************************************************************)
(* The way of a call's record (CDR) from the worker threads to cdr_insert. *)
(* When a call starts, voice_parser takes a node from the pool eq; the     *)
(* node collects the audio and goes to fq when the call ends (in           *)
(* voice_parser, or in cleanup_file_struct on a timeout).  A fax_pre       *)
(* thread takes it from fq, looks for a fax, calls cdr_insert and gives    *)
(* the node back to eq.  With an empty pool the call's record is inserted  *)
(* at once and the call is not examined.                                   *)
(*                                                                         *)
(* A slot stands for one voice_file entry; whatever thread works on it     *)
(* holds its mutex.  Calls are numbered in the order they start.           *)
(***************************************************************************)
EXTENDS FaxQueue, FiniteSets

CONSTANTS
    Slots,      \* voice_file entries in use
    FaxThreads, \* fax_pre threads (4 in the code)
    PoolSize,   \* nodes (1024 in the code)
    MaxCalls    \* bound: calls

ASSUME PipelineAssumption == PoolSize \in Nat \ {0} /\ MaxCalls \in Nat

VARIABLES
    eq, fq,             \* the two queues
    cdr_node, call,     \* per slot: node held (or None), call number (0 = none)
    spc,                \* per slot: where voice_parser is
    p, fpc,             \* per fax thread: node held, where fax_pre is
    cdrOf,              \* per node: the call whose cdr it carries
    inserted,           \* the calls passed to cdr_insert, in order
    started,            \* calls so far
    noRecord,           \* calls whose files could not be opened
    done,               \* SVM_DONE
    raced               \* history: a late len = 0 hit a queue in use

vars == <<eq, fq, cdr_node, call, spc, p, fpc, cdrOf, inserted, started, noRecord, done, raced>>

Nodes == 1 .. PoolSize
None  == 0
Calls == 1 .. MaxCalls

Queues == [list : Seq(Nodes), len : Int]

TypeOK ==
    /\ eq \in Queues /\ fq \in Queues
    /\ cdr_node \in [Slots -> Nodes \cup {None}]
    /\ call \in [Slots -> Calls \cup {0}]
    /\ spc \in [Slots -> {"idle", "clear", "direct", "call"}]
    /\ p \in [FaxThreads -> Nodes \cup {None}]
    /\ fpc \in [FaxThreads -> {"fetch", "clear", "insert", "return", "exit"}]
    /\ cdrOf \in [Nodes -> Calls \cup {0}]
    /\ inserted \in Seq(Calls)
    /\ started \in 0 .. MaxCalls /\ noRecord \subseteq Calls
    /\ done \in BOOLEAN /\ raced \in BOOLEAN

Init ==
    /\ eq = PoolOf([i \in Nodes |-> i]) /\ fq = EmptyQueue
    /\ cdr_node = [s \in Slots |-> None] /\ call = [s \in Slots |-> 0]
    /\ spc = [s \in Slots |-> "idle"]
    /\ p = [f \in FaxThreads |-> None] /\ fpc = [f \in FaxThreads |-> "fetch"]
    /\ cdrOf = [n \in Nodes |-> 0]
    /\ inserted = <<>> /\ started = 0 /\ noRecord = {}
    /\ done = FALSE /\ raced = FALSE

-----------------------------------------------------------------------------
(* voice_parser: a packet of a new call; the files open or they do not. *)
StartCall(s) ==
    /\ spc[s] = "idle" /\ started < MaxCalls
    /\ started' = started + 1
    /\ call' = [call EXCEPT ![s] = started + 1]
    /\ \/ /\ eq.list # <<>>
          /\ eq' = FETCH_PHEAD(eq)
          /\ cdr_node' = [cdr_node EXCEPT ![s] = Head(eq.list)]
          /\ spc' = [spc EXCEPT ![s] = "call"]
          /\ noRecord' = noRecord
       \/ /\ eq.list = <<>>
          /\ spc' = [spc EXCEPT ![s] = "clear"]
          /\ UNCHANGED <<eq, cdr_node, noRecord>>
       \/ /\ spc' = [spc EXCEPT ![s] = "call"]
          /\ noRecord' = noRecord \cup {started + 1}
          /\ UNCHANGED <<eq, cdr_node>>
    /\ UNCHANGED <<fq, p, fpc, cdrOf, inserted, done, raced>>

(* The tail of FETCH_PHEAD(eq) on an empty pool. *)
ClearEq(s) ==
    /\ spc[s] = "clear"
    /\ eq' = ClearLen(eq)
    /\ raced' = (raced \/ eq.list # <<>>)
    /\ spc' = [spc EXCEPT ![s] = "direct"]
    /\ UNCHANGED <<fq, cdr_node, call, p, fpc, cdrOf, inserted, started, noRecord, done>>

no_insert_DirectInsert(s) ==
    /\ spc[s] = "direct"
    /\ spc' = [spc EXCEPT ![s] = "call"]
    /\ UNCHANGED <<eq, fq, cdr_node, call, p, fpc, cdrOf, inserted, started, noRecord, done, raced>>

(* fax_lost: the record goes straight to cdr_insert. *)
DirectInsert(s) ==
    /\ spc[s] = "direct"
    /\ inserted' = Append(inserted, call[s])
    /\ spc' = [spc EXCEPT ![s] = "call"]
    /\ UNCHANGED <<eq, fq, cdr_node, call, p, fpc, cdrOf, started, noRecord, done, raced>>

no_enqueue_EndCall(s) ==
    /\ spc[s] = "call"
    /\ cdr_node' = [cdr_node EXCEPT ![s] = None]
    /\ call' = [call EXCEPT ![s] = 0]
    /\ spc' = [spc EXCEPT ![s] = "idle"]
    /\ UNCHANGED <<eq, fq, p, fpc, cdrOf, inserted, started, noRecord, done, raced>>

(* The end of a call, in voice_parser or in cleanup_file_struct: the node,  *)
(* if there is one, gets the cdr and goes to fq.                            *)
EndCall(s) ==
    /\ spc[s] = "call"
    /\ IF cdr_node[s] # None
       THEN /\ cdrOf' = [cdrOf EXCEPT ![cdr_node[s]] = call[s]]
            /\ fq' = EN_QUEUE(fq, cdr_node[s])
            /\ cdr_node' = [cdr_node EXCEPT ![s] = None]
       ELSE UNCHANGED <<cdrOf, fq, cdr_node>>
    /\ call' = [call EXCEPT ![s] = 0]
    /\ spc' = [spc EXCEPT ![s] = "idle"]
    /\ UNCHANGED <<eq, p, fpc, inserted, started, noRecord, done, raced>>

(* The same, overlapped by a fax thread's late store to fq->len. *)
EndCallOverlapped(s, f) ==
    /\ spc[s] = "call" /\ cdr_node[s] # None
    /\ fpc[f] = "clear" /\ fpc' = [fpc EXCEPT ![f] = "fetch"]
    /\ fq' \in EN_QUEUE_overlapped(fq, cdr_node[s])
    /\ raced' = TRUE
    /\ cdrOf' = [cdrOf EXCEPT ![cdr_node[s]] = call[s]]
    /\ cdr_node' = [cdr_node EXCEPT ![s] = None]
    /\ call' = [call EXCEPT ![s] = 0]
    /\ spc' = [spc EXCEPT ![s] = "idle"]
    /\ UNCHANGED <<eq, p, inserted, started, noRecord, done>>

-----------------------------------------------------------------------------
(* fax_pre *)
FaxFetch(f) ==
    /\ fpc[f] = "fetch" /\ ~done
    /\ IF fq.list # <<>>
       THEN /\ p' = [p EXCEPT ![f] = Head(fq.list)]
            /\ fq' = FETCH_PHEAD(fq)
            /\ fpc' = [fpc EXCEPT ![f] = "insert"]
       ELSE /\ fpc' = [fpc EXCEPT ![f] = "clear"]
            /\ UNCHANGED <<p, fq>>
    /\ UNCHANGED <<eq, cdr_node, call, spc, cdrOf, inserted, started, noRecord, done, raced>>

(* The tail of FETCH_PHEAD(fq) on an empty queue, then the loop again. *)
ClearFq(f) ==
    /\ fpc[f] = "clear"
    /\ fq' = ClearLen(fq)
    /\ raced' = (raced \/ fq.list # <<>>)
    /\ fpc' = [fpc EXCEPT ![f] = "fetch"]
    /\ UNCHANGED <<eq, cdr_node, call, spc, p, cdrOf, inserted, started, noRecord, done>>

(* decode_mem over both directions sets callflag; then cdr_insert. *)
FaxInsert(f) ==
    /\ fpc[f] = "insert"
    /\ inserted' = Append(inserted, cdrOf[p[f]])
    /\ fpc' = [fpc EXCEPT ![f] = "return"]
    /\ UNCHANGED <<eq, fq, cdr_node, call, spc, p, cdrOf, started, noRecord, done, raced>>

(* After the fax servers were tried (that round is left out), the node       *)
(* returns to the pool.                                                      *)
FaxReturn(f) ==
    /\ fpc[f] = "return"
    /\ eq' = EN_QUEUE(eq, p[f])
    /\ p' = [p EXCEPT ![f] = None]
    /\ fpc' = [fpc EXCEPT ![f] = "fetch"]
    /\ UNCHANGED <<fq, cdr_node, call, spc, cdrOf, inserted, started, noRecord, done, raced>>

FaxReturnOverlapped(f, s) ==
    /\ fpc[f] = "return" /\ spc[s] = "clear"
    /\ eq' \in EN_QUEUE_overlapped(eq, p[f])
    /\ raced' = TRUE
    /\ spc' = [spc EXCEPT ![s] = "direct"]
    /\ p' = [p EXCEPT ![f] = None]
    /\ fpc' = [fpc EXCEPT ![f] = "fetch"]
    /\ UNCHANGED <<fq, cdr_node, call, cdrOf, inserted, started, noRecord, done>>

FaxExit(f) ==
    /\ fpc[f] = "fetch" /\ done
    /\ fpc' = [fpc EXCEPT ![f] = "exit"]
    /\ UNCHANGED <<eq, fq, cdr_node, call, spc, p, cdrOf, inserted, started, noRecord, done, raced>>

SetDone ==
    /\ ~done /\ done' = TRUE
    /\ UNCHANGED <<eq, fq, cdr_node, call, spc, p, fpc, cdrOf, inserted, started, noRecord, raced>>

-----------------------------------------------------------------------------
SlotStep(s) ==
    \/ StartCall(s) \/ ClearEq(s) \/ DirectInsert(s) \/ EndCall(s)
    \/ \E f \in FaxThreads : EndCallOverlapped(s, f)

FaxStep(f) ==
    \/ FaxFetch(f) \/ ClearFq(f) \/ FaxInsert(f) \/ FaxReturn(f) \/ FaxExit(f)
    \/ \E s \in Slots : FaxReturnOverlapped(f, s)

Next == (\E s \in Slots : SlotStep(s)) \/ (\E f \in FaxThreads : FaxStep(f)) \/ SetDone

Spec == Init /\ [][Next]_vars

(* Every thread is scheduled, and every call ends: by its last packets or   *)
(* by the timeout of cycle_thread.  FaxReturn needs the round over the fax  *)
(* servers to end, as it does while their list stays as it is.              *)
Fairness ==
    /\ \A s \in Slots : WF_vars(ClearEq(s) \/ DirectInsert(s) \/ EndCall(s))
    /\ \A f \in FaxThreads : WF_vars(FaxFetch(f) \/ ClearFq(f) \/ FaxInsert(f) \/ FaxReturn(f))

FairSpec == Spec /\ Fairness
-----------------------------------------------------------------------------
(* EN_QUEUE never runs off the end of a list, whatever the late stores did:  *)
(* they only make len too small.                                             *)
NoNullWalk == LenWithin(eq) /\ LenWithin(fq)

Holders(n) ==
    {<<"eq", i>> : i \in {j \in DOMAIN eq.list : eq.list[j] = n}}
        \cup {<<"fq", i>> : i \in {j \in DOMAIN fq.list : fq.list[j] = n}}
        \cup {<<"slot", s>> : s \in {t \in Slots : cdr_node[t] = n}}
        \cup {<<"fax", f>> : f \in {g \in FaxThreads : p[g] = n}}

(* No node is in two places, so no two threads ever write to one recording,  *)
(* even after a late store cut a list short; and none leaks as long as no    *)
(* late len = 0 hit a queue in use: that race is the only way to lose one.   *)
NodesConserved ==
    \A n \in Nodes : Cardinality(Holders(n)) <= 1 /\ (raced \/ Holders(n) # {})

(* Where the record of call c is: still in its slot, in a node that waits or *)
(* is being looked at, or inserted.                                          *)
RecordPlaces(c) ==
    {<<"slot", s>> : s \in {t \in Slots : call[t] = c /\ (spc[t] \in {"clear", "direct"} \/ cdr_node[t] # None)}}
        \cup {<<"fq", i>> : i \in {j \in DOMAIN fq.list : cdrOf[fq.list[j]] = c}}
        \cup {<<"fax", f>> : f \in {g \in FaxThreads : fpc[g] = "insert" /\ cdrOf[p[g]] = c}}
        \cup {<<"ring", i>> : i \in {j \in DOMAIN inserted : inserted[j] = c}}

(* The record of a recorded call is always in exactly one of these places,   *)
(* on its way from the slot through the queue to the ring: no exhausted      *)
(* pool, end of a call or reuse of a node loses it or doubles it; only the   *)
(* late len = 0 that hits a queue in use can lose it.  A call whose files    *)
(* could not be opened has no record.                                        *)
RecordsConserved ==
    \A c \in Calls :
        /\ Cardinality(RecordPlaces(c)) <= 1
        /\ IF c \in (1 .. started) \ noRecord
           THEN raced \/ RecordPlaces(c) # {} ELSE RecordPlaces(c) = {}

(* queue->len is the number of nodes whenever no FETCH_PHEAD is unfinished: *)
(* what EN_QUEUE's consistency message calls an error to deviate from.      *)
LenExact ==
    /\ (\A s \in Slots : spc[s] # "clear") => eq.len = Len(eq.list)
    /\ (\A f \in FaxThreads : fpc[f] # "clear") => fq.len = Len(fq.list)

(* The record of every recorded call is inserted in the end, unless the      *)
(* system is stopped or the race lost the node.                              *)
EveryCallReported ==
    \A c \in Calls :
        (started >= c) ~> (c \in noRecord \/ done \/ raced \/ \E i \in DOMAIN inserted : inserted[i] = c)
=============================================================================
