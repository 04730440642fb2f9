------------------------------ MODULE VoiceSlot ------------------------------
(***************************************************************************)
(* One entry of voice_file (voice_parser.c): the worker thread that feeds  *)
(* it with packets, and cycle_thread (cycle_operation.c), which every      *)
(* minute closes calls that got no packet for a minute and, after a        *)
(* SIGINT, ends the program once no call is online.                        *)
(*                                                                         *)
(* The entry's mutex lies inside the structure that voice_parser clears    *)
(* with memset for a new call, while it holds it.  The mutex is therefore  *)
(* modelled as glibc implements it (external): 0 free, 1 held, 2 held with *)
(* sleepers; unlocking a 1 wakes nobody.                                   *)
(*                                                                         *)
(* Time is the age of update_time in ticks; NoTime is update_time = 0.     *)
(* Audio data and file names are left out.                                 *)
(***************************************************************************)
EXTENDS Integers

CONSTANTS
    Ids,        \* call identifiers (never 0)
    Timeout,    \* ticks after which a silent call is closed (60 s)
    MaxLag,     \* bound: ticks one sweep of the slots may take
    MaxPkts     \* bound: packets for this slot

ASSUME SlotAssumption ==
    /\ 0 \notin Ids
    /\ Timeout \in Nat \ {0} /\ MaxLag \in Nat /\ MaxPkts \in Nat

VARIABLES
    file,       \* voice_file_info_t without its mutex
    mutex,      \* its mutex
    worker,     \* where voice_parser is
    pkt,        \* the packet it is working on
    cycle,      \* where cycle_thread is
    lag,        \* ticks since cycle_thread read the time
    cnt,        \* counters of counter.c
    tooLong,    \* calls that began 18000 s ago or earlier
    stop, done, \* svm_signal_flags
    npkts,      \* packets so far
    seen        \* history: directions whose last packet this call has had

vars == <<file, mutex, worker, pkt, cycle, lag, cnt, tooLong, stop, done, npkts, seen>>

NoTime == -1
MaxAge == Timeout + MaxLag
Dirs   == {"up", "down"}
Packet == [id : Ids, dir : Dirs, last : BOOLEAN]
NoPkt  == [id |-> 0, dir |-> "up", last |-> FALSE]

(* files: none, both, or (after a failed open) one of the two open. *)
Zero == [callid |-> 0, age |-> NoTime, files |-> "none", node |-> FALSE, ends |-> {}]

(* call_end, call_timeout and file_ok are only displayed; they are left out. *)
CounterNames == {"call_start", "call_online", "file_fail", "fax_lost", "fax_enqueue"}

TypeOK ==
    /\ file \in [callid : Ids \cup {0}, age : NoTime .. MaxAge,
                 files : {"none", "one", "both"}, node : BOOLEAN, ends : SUBSET Dirs]
    /\ seen \subseteq Dirs /\ mutex \in 0 .. 2
    /\ worker \in {"idle", "lock", "asleep", "woken", "in", "fresh", "data", "unlock", "exit"}
    /\ cycle \in {"sleep", "lock", "asleep", "woken", "check", "cleanup", "unlock", "stop", "exit"}
    /\ pkt \in Packet \cup {NoPkt} /\ lag \in 0 .. MaxLag
    /\ cnt \in [CounterNames -> Nat]
    /\ tooLong \subseteq Ids /\ stop \in BOOLEAN /\ done \in BOOLEAN
    /\ npkts \in 0 .. MaxPkts

Init ==
    /\ file = Zero /\ mutex = 0
    /\ worker = "idle" /\ pkt = NoPkt
    /\ cycle = "lock" /\ lag = 0
    /\ cnt = [c \in CounterNames |-> 0]
    /\ tooLong = {} /\ stop = FALSE /\ done = FALSE
    /\ npkts = 0 /\ seen = {}

Count(b) == IF b THEN 1 ELSE 0

(* voice_parser between its lock and its unlock. *)
Inside == worker \in {"in", "fresh", "data", "unlock"}

-----------------------------------------------------------------------------
(* pthread mutex (external).  A thread that finds it taken marks it 2 and    *)
(* sleeps; a woken thread tries again and, if it gets it, leaves the 2.      *)
Lock(me, woken, inside, asleep) ==
    IF mutex = 0 THEN mutex' = (IF woken THEN 2 ELSE 1) /\ me = inside
                 ELSE mutex' = 2 /\ me = asleep

Unlock == mutex' = 0

Woken(other) == IF mutex = 2 /\ other = "asleep" THEN "woken" ELSE other

-----------------------------------------------------------------------------
(* cleanup_file_struct: the file afterwards, and the counters. *)
keep_node_cleaned(f) == [f EXCEPT !.callid = 0, !.files = "none"]

cleaned(f) == [f EXCEPT !.callid = 0, !.files = "none", !.node = FALSE]

no_online_counts(c, f) ==
    [c EXCEPT !["fax_enqueue"]  = @ + Count(f.node)]

always_online_counts(c, f) ==
    [c EXCEPT !["call_online"]  = @ - 1,
              !["fax_enqueue"]  = @ + Count(f.node)]

cleanup_counts(c, f) ==
    [c EXCEPT !["call_online"]  = @ - Count(f.callid # 0),
              !["fax_enqueue"]  = @ + Count(f.node)]

-----------------------------------------------------------------------------
(* vpu_worker_thread and voice_parser *)

TakePacket ==
    /\ worker = "idle" /\ ~done /\ npkts < MaxPkts
    /\ npkts' = npkts + 1
    /\ pkt' \in Packet
    /\ worker' = "lock"
    /\ UNCHANGED <<file, mutex, cycle, lag, cnt, tooLong, stop, done, seen>>

WorkerLock ==
    /\ worker \in {"lock", "woken"}
    /\ Lock(worker', worker = "woken", "in", "asleep")
    /\ UNCHANGED <<file, pkt, cycle, lag, cnt, tooLong, stop, done, npkts, seen>>

no_memset_Enter ==
    /\ worker = "in"
    /\ LET f == [file EXCEPT !.age = 0]
       IN  IF f.callid # pkt.id
           THEN /\ cnt' = cleanup_counts(cnt, f)
                /\ file' = cleaned(f)
                /\ mutex' = mutex /\ worker' = "fresh"
           ELSE /\ file' = f
                /\ worker' = "data"
                /\ UNCHANGED <<mutex, cnt>>
    /\ UNCHANGED <<pkt, cycle, lag, tooLong, stop, done, npkts, seen>>

(* update_time = now; a call that is too long is marked as ended in both     *)
(* directions, or ignored if the slot is free; another call than the one in  *)
(* the slot clears the slot, mutex and update_time included.                 *)
Enter ==
    /\ worker = "in"
    /\ LET old == pkt.id \in tooLong
           f == [file EXCEPT !.age = 0,
                             !.ends = IF old /\ file.callid # 0 THEN Dirs ELSE @]
       IN  CASE old /\ file.callid = 0 ->
                    /\ file' = f
                    /\ worker' = "unlock"
                    /\ UNCHANGED <<mutex, cnt>>
             [] ~(old /\ file.callid = 0) /\ f.callid # pkt.id ->
                    /\ cnt' = cleanup_counts(cnt, f)
                    /\ file' = Zero
                    /\ mutex' = 0
                    /\ worker' = "fresh"
             [] OTHER ->
                    /\ file' = f
                    /\ worker' = "data"
                    /\ UNCHANGED <<mutex, cnt>>
    /\ UNCHANGED <<pkt, cycle, lag, tooLong, stop, done, npkts, seen>>

(* A new call: open the two files; take a node from the pool, or with an     *)
(* empty pool insert the record at once.                                     *)
StartCall ==
    /\ worker = "fresh"
    /\ \/ \E node \in BOOLEAN :
             /\ file' = [file EXCEPT !.callid = pkt.id, !.files = "both", !.node = node]
             /\ cnt' = [cnt EXCEPT !["call_start"] = @ + 1, !["call_online"] = @ + 1,
                                   !["fax_lost"] = @ + Count(~node)]
       \/ \E files \in {"none", "one"} :
             /\ file' = [file EXCEPT !.callid = pkt.id, !.files = files]
             /\ cnt' = [cnt EXCEPT !["call_start"] = @ + 1, !["call_online"] = @ + 1,
                                   !["file_fail"] = @ + 1]
    /\ seen' = {}
    /\ worker' = "data"
    /\ UNCHANGED <<mutex, pkt, cycle, lag, tooLong, stop, done, npkts>>

(* What the end of a call leaves of the file structure. *)
finished(f) ==
    [f EXCEPT !.callid = 0, !.age = NoTime, !.ends = {}, !.files = "none", !.node = FALSE]

(* The packet's data, and the end of the call once both directions ended. *)
Data ==
    /\ worker = "data"
    /\ LET f == [file EXCEPT !.ends = IF pkt.last THEN @ \cup {pkt.dir} ELSE @]
       IN  IF f.ends = Dirs
           THEN /\ file' = finished(f)
                /\ cnt' = [cnt EXCEPT !["call_online"] = @ - 1,
                                      !["fax_enqueue"] = @ + Count(f.node)]
           ELSE file' = f /\ cnt' = cnt
    /\ seen' = IF pkt.last THEN seen \cup {pkt.dir} ELSE seen
    /\ worker' = "unlock"
    /\ UNCHANGED <<mutex, pkt, cycle, lag, tooLong, stop, done, npkts>>

WorkerUnlock ==
    /\ worker = "unlock"
    /\ Unlock
    /\ cycle' = Woken(cycle)
    /\ worker' = "idle" /\ pkt' = NoPkt
    /\ UNCHANGED <<file, lag, cnt, tooLong, stop, done, npkts, seen>>

WorkerExit ==
    /\ worker = "idle" /\ done
    /\ worker' = "exit"
    /\ UNCHANGED <<file, mutex, pkt, cycle, lag, cnt, tooLong, stop, done, npkts, seen>>

-----------------------------------------------------------------------------
(* cycle_thread *)

(* sleep(60) is over: it takes longer than the handling of a packet. *)
SweepBegin ==
    /\ cycle = "sleep" /\ ~Inside
    /\ cycle' = "lock"
    /\ UNCHANGED <<file, mutex, worker, pkt, lag, cnt, tooLong, stop, done, npkts, seen>>

CycleLock ==
    /\ cycle \in {"lock", "woken"}
    /\ Lock(cycle', cycle = "woken", "check", "asleep")
    /\ UNCHANGED <<file, worker, pkt, lag, cnt, tooLong, stop, done, npkts, seen>>

any_age_silent == file.age # NoTime

(* tim - update_time >= 60, with tim read when the sweep began *)
silent == file.age # NoTime /\ file.age - lag >= Timeout

Check ==
    /\ cycle = "check"
    /\ cycle' = IF silent THEN "cleanup" ELSE "unlock"
    /\ UNCHANGED <<file, mutex, worker, pkt, lag, cnt, tooLong, stop, done, npkts, seen>>

Cleanup ==
    /\ cycle = "cleanup"
    /\ cnt' = cleanup_counts(cnt, file)
    /\ file' = [cleaned(file) EXCEPT !.age = NoTime]
    /\ cycle' = "unlock"
    /\ UNCHANGED <<mutex, worker, pkt, lag, tooLong, stop, done, npkts, seen>>

no_unlock_CycleUnlock ==
    /\ cycle = "unlock"
    /\ cycle' = "stop"
    /\ UNCHANGED <<file, mutex, worker, pkt, lag, cnt, tooLong, stop, done, npkts, seen>>

CycleUnlock ==
    /\ cycle = "unlock"
    /\ Unlock
    /\ worker' = Woken(worker)
    /\ cycle' = "stop"
    /\ UNCHANGED <<file, pkt, lag, cnt, tooLong, stop, done, npkts, seen>>

(* After the other slots and the disks: stop if asked to and nobody talks. *)
StopCheck ==
    /\ cycle = "stop"
    /\ IF stop /\ cnt["call_online"] = 0
       THEN done' = TRUE /\ cycle' = "exit"
       ELSE done' = done /\ cycle' = "sleep"
    /\ lag' = 0
    /\ UNCHANGED <<file, mutex, worker, pkt, cnt, tooLong, stop, npkts, seen>>

-----------------------------------------------------------------------------
(* Time and the outside.  A packet is handled in less than a tick. *)
Tick ==
    /\ ~Inside
    /\ IF cycle \in {"sleep", "exit"}
       THEN lag' = lag
       ELSE lag < MaxLag /\ lag' = lag + 1
    /\ file' = [file EXCEPT !.age = IF @ \in 0 .. MaxAge - 1 THEN @ + 1 ELSE @]
    /\ UNCHANGED <<mutex, worker, pkt, cycle, cnt, tooLong, stop, done, npkts, seen>>

CallGrowsOld(i) ==
    /\ ~Inside /\ i \notin tooLong
    /\ tooLong' = tooLong \cup {i}
    /\ UNCHANGED <<file, mutex, worker, pkt, cycle, lag, cnt, stop, done, npkts, seen>>

SIGINT ==
    /\ ~stop /\ stop' = TRUE
    /\ UNCHANGED <<file, mutex, worker, pkt, cycle, lag, cnt, tooLong, done, npkts, seen>>

WorkerStep == WorkerLock \/ Enter \/ StartCall \/ Data \/ WorkerUnlock \/ WorkerExit
CycleStep  == SweepBegin \/ CycleLock \/ Check \/ Cleanup \/ CycleUnlock \/ StopCheck

Next ==
    \/ TakePacket \/ WorkerStep \/ CycleStep
    \/ Tick \/ (\E i \in Ids : CallGrowsOld(i)) \/ SIGINT

Spec == Init /\ [][Next]_vars

(* Both threads run and time passes; packets and signals need not come. *)
Fairness == WF_vars(WorkerStep) /\ WF_vars(CycleStep) /\ WF_vars(Tick)

FairSpec == Spec /\ Fairness
-----------------------------------------------------------------------------
(* call_online is the number of calls in the slots, whichever of the three   *)
(* ways (last packets, another call, timeout) ended them: the shutdown waits *)
(* for this counter.                                                         *)
OnlineExact ==
    worker # "fresh" => cnt["call_online"] = Count(file.callid # 0)

(* Every call that started is accounted for once: its record was queued with *)
(* the node, inserted at once, is still with the slot, or its files failed.  *)
RecordPerCall ==
    cnt["call_start"] = cnt["fax_enqueue"] + cnt["fax_lost"] + cnt["file_fail"] + Count(file.node)

(* Clearing the held mutex can let cycle_thread in beside the worker, but it *)
(* never cleans up a slot the worker is working on, as update_time is        *)
(* cleared with it.                                                          *)
CleanupAlone == cycle = "cleanup" => worker \notin {"in", "fresh", "data"}

(* A call is ended by its own last packets or by its length: an end mark of  *)
(* an earlier call in the slot never ends a later one.                       *)
EndMarksOwn == file.callid # 0 => file.ends \subseteq seen \/ file.callid \in tooLong

(* cycle_thread sleeps on a mutex that nobody will ever hand to it: memset   *)
(* removed the mark that it waits.                                           *)
Hung == cycle = "asleep" /\ mutex # 2

(* A call whose update_time stands is closed in the end, by its packets or   *)
(* by cycle_thread, unless that thread hangs on a cleared mutex.             *)
CallEnds ==
    \A i \in Ids : (file.callid = i /\ file.age # NoTime) ~> (file.callid # i \/ Hung)

(* "call ... is too long, finish it!": such a call is not in the slot when   *)
(* voice_parser returns.                                                     *)
TooLongFinished ==
    worker = "unlock" /\ pkt.id \in tooLong => file.callid # pkt.id
=============================================================================
