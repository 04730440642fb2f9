--------------------------- MODULE VoiceSlotProofs ---------------------------
(***************************************************************************)
(* The invariants of one entry of voice_file, for any calls, any number of *)
(* packets, any timeout and sweeps of any length.                          *)
(*                                                                         *)
(* The mutex does not exclude: once voice_parser has cleared it under      *)
(* itself, cycle_thread can be in the entry beside the worker, and the     *)
(* unlock of the one then frees the mutex for the other.  What excludes is *)
(* update_time: whenever cycle_thread is in without the mutex being its    *)
(* own, update_time is not older than the sweep.                           *)
(***************************************************************************)
EXTENDS VoiceSlot, TLAPS

(* cycle_thread cleans up only an entry it really has locked. *)
CleanupExclusive == cycle = "cleanup" => ~Inside /\ mutex # 0

(* cycle_thread in the entry beside the worker, or about to get there on the *)
(* mutex the worker cleared, finds update_time 0 or set during this sweep.   *)
FreshAge ==
    /\ cycle = "check" /\ (Inside \/ mutex = 0) => file.age <= lag
    /\ cycle \in {"lock", "woken"} /\ Inside /\ mutex = 0 => file.age <= lag

(* What voice_parser has established where it is. *)
WorkerAt ==
    /\ worker \notin {"idle", "exit"} => pkt \in Packet
    /\ worker = "fresh" => file = Zero /\ cnt["call_online"] = 0
    /\ worker = "data" => file.callid = pkt.id

Access == CleanupExclusive /\ FreshAge /\ WorkerAt

Records == OnlineExact /\ RecordPerCall /\ EndMarksOwn

SlotInv == TypeOK /\ Access /\ Records

USE SlotAssumption

FileType == [callid : Ids \cup {0}, age : NoTime .. MaxAge,
             files : {"none", "one", "both"}, node : BOOLEAN, ends : SUBSET Dirs]

LEMMA Ages == 0 \in NoTime .. MaxAge /\ NoTime \in NoTime .. MaxAge
BY DEF NoTime, MaxAge

(* What the assignments of voice_parser and cleanup_file_struct make of a    *)
(* file structure.                                                           *)
LEMMA EnteredFile ==
    ASSUME NEW f \in FileType, NEW e \in SUBSET Dirs
    PROVE  LET g == [f EXCEPT !.age = 0, !.ends = e]
           IN  g \in FileType /\ g.callid = f.callid /\ g.age = 0 /\ g.node = f.node /\ g.ends = e
BY Ages DEF FileType

LEMMA EmptiedFile ==
    ASSUME NEW f \in FileType
    PROVE  /\ finished(f) \in FileType /\ [cleaned(f) EXCEPT !.age = NoTime] \in FileType
           /\ finished(f).callid = 0 /\ [cleaned(f) EXCEPT !.age = NoTime].callid = 0
           /\ finished(f).age = NoTime /\ [cleaned(f) EXCEPT !.age = NoTime].age = NoTime
           /\ finished(f).node = FALSE /\ [cleaned(f) EXCEPT !.age = NoTime].node = FALSE
BY Ages DEF FileType, finished, cleaned

LEMMA ZeroFile ==
    /\ Zero \in FileType
    /\ Zero.callid = 0 /\ Zero.age = NoTime /\ Zero.node = FALSE /\ Zero.ends = {}
BY Ages DEF FileType, Zero

(* cleanup_file_struct takes a call off the counter of those online. *)
LEMMA CleanedCounts ==
    ASSUME NEW c \in [CounterNames -> Nat], NEW f \in FileType,
           c["call_online"] = Count(f.callid # 0)
    PROVE  LET d == cleanup_counts(c, f)
           IN  /\ d \in [CounterNames -> Nat] /\ d["call_online"] = 0
               /\ d["fax_enqueue"] = c["fax_enqueue"] + Count(f.node)
               /\ \A n \in {"call_start", "file_fail", "fax_lost"} : d[n] = c[n]
BY DEF cleanup_counts, CounterNames, Count

LEMMA SlotInvInit == Init => SlotInv
<1> SUFFICES ASSUME Init PROVE SlotInv
  OBVIOUS
<1>1. TypeOK
  <2>1. Zero \in FileType
    BY ZeroFile
  <2>2. stop \in BOOLEAN /\ done \in BOOLEAN
    BY Zenon DEF Init
  <2>3. cnt \in [CounterNames -> Nat] /\ lag \in 0 .. MaxLag /\ npkts \in 0 .. MaxPkts /\ mutex \in 0 .. 2
    BY DEF Init
  <2> QED
    BY <2>1, <2>2, <2>3 DEF Init, TypeOK, FileType
<1>2. Access
  BY DEF Init, Access, CleanupExclusive, FreshAge, WorkerAt, Inside
<1>3. Records
  BY DEF Init, Records, OnlineExact, RecordPerCall, EndMarksOwn, Zero, CounterNames, Count
<1> QED
  BY <1>1, <1>2, <1>3 DEF SlotInv

LEMMA SlotInvStep == SlotInv /\ [Next]_vars => SlotInv'
<1> SUFFICES ASSUME SlotInv, [Next]_vars PROVE SlotInv'
  OBVIOUS
<1> USE DEF SlotInv, TypeOK, Access, CleanupExclusive, FreshAge, WorkerAt, Inside,
            Records, OnlineExact, RecordPerCall, EndMarksOwn,
            CounterNames, Count, NoTime, MaxAge
<1>1. CASE TakePacket
  BY <1>1 DEF TakePacket
<1>2. CASE WorkerLock
  BY <1>2 DEF WorkerLock, Lock
<1>3. CASE Enter
  <2> DEFINE f == [file EXCEPT !.age = 0,
                     !.ends = IF pkt.id \in tooLong /\ file.callid # 0 THEN Dirs ELSE @]
  <2>0. /\ worker = "in" /\ pkt \in Packet /\ pkt.id \in Ids
        /\ UNCHANGED <<pkt, cycle, lag, tooLong, stop, done, npkts, seen>>
        /\ cycle # "cleanup"
    BY <1>3 DEF Enter, Packet
  <2>f. /\ f \in FileType /\ f.callid = file.callid /\ f.age = 0 /\ f.node = file.node
        /\ f.ends = IF pkt.id \in tooLong /\ file.callid # 0 THEN Dirs ELSE file.ends
    <3>1. file \in FileType
      BY DEF FileType
    <3>2. (IF pkt.id \in tooLong /\ file.callid # 0 THEN Dirs ELSE file.ends) \in SUBSET Dirs
      BY <3>1 DEF FileType
    <3> QED
      BY <3>1, <3>2, EnteredFile
  <2>1. CASE worker' # "fresh"
    <3>1. /\ file' = f /\ mutex' = mutex /\ cnt' = cnt
          /\ \/ worker' = "unlock" /\ file.callid = 0
             \/ worker' = "data" /\ file.callid = pkt.id
      BY <1>3, <2>1 DEF Enter
    <3> HIDE DEF f
    <3> QED
      BY <2>0, <2>f, <3>1 DEF FileType
  <2>2. CASE worker' = "fresh"
    <3>1. file' = Zero /\ mutex' = 0 /\ cnt' = cleanup_counts(cnt, f)
      BY <1>3, <2>2 DEF Enter
    <3>2. /\ cnt' \in [CounterNames -> Nat] /\ cnt'["call_online"] = 0
          /\ cnt'["fax_enqueue"] = cnt["fax_enqueue"] + Count(file.node)
          /\ \A n \in {"call_start", "file_fail", "fax_lost"} : cnt'[n] = cnt[n]
      <4> HIDE DEF f
      <4> QED
        BY <3>1, <2>0, <2>f, CleanedCounts
    <3> QED
      BY <2>0, <2>2, <3>1, <3>2, ZeroFile DEF FileType
  <2> QED
    BY <2>1, <2>2
<1>4. CASE StartCall
  <2>0. /\ worker = "fresh" /\ worker' = "data" /\ pkt \in Packet /\ pkt.id \in Ids /\ seen' = {}
        /\ UNCHANGED <<mutex, pkt, cycle, lag, tooLong, stop, done, npkts>>
        /\ cycle # "cleanup"
        /\ file \in FileType /\ file.age = -1 /\ file.ends = {} /\ file.node = FALSE
    BY <1>4, ZeroFile DEF StartCall, Packet
  <2>1. ASSUME NEW node \in BOOLEAN,
               file' = [file EXCEPT !.callid = pkt.id, !.files = "both", !.node = node],
               cnt' = [cnt EXCEPT !["call_start"] = @ + 1, !["call_online"] = @ + 1,
                                  !["fax_lost"] = @ + Count(~node)]
        PROVE  SlotInv'
    <3>1. /\ file' \in FileType /\ file'.callid = pkt.id /\ file'.age = -1
          /\ file'.ends = {} /\ file'.node = node
      BY <2>0, <2>1 DEF FileType
    <3>2. /\ cnt' \in [CounterNames -> Nat]
          /\ cnt'["call_online"] = 1 /\ cnt'["call_start"] = cnt["call_start"] + 1
          /\ cnt'["fax_lost"] = cnt["fax_lost"] + Count(~node)
          /\ cnt'["fax_enqueue"] = cnt["fax_enqueue"] /\ cnt'["file_fail"] = cnt["file_fail"]
      BY <2>0, <2>1
    <3> QED
      BY <2>0, <3>1, <3>2 DEF FileType
  <2>2. ASSUME NEW files \in {"none", "one"},
               file' = [file EXCEPT !.callid = pkt.id, !.files = files],
               cnt' = [cnt EXCEPT !["call_start"] = @ + 1, !["call_online"] = @ + 1,
                                  !["file_fail"] = @ + 1]
        PROVE  SlotInv'
    <3>1. /\ file' \in FileType /\ file'.callid = pkt.id /\ file'.age = -1
          /\ file'.ends = {} /\ file'.node = FALSE
      BY <2>0, <2>2 DEF FileType
    <3>2. /\ cnt' \in [CounterNames -> Nat]
          /\ cnt'["call_online"] = 1 /\ cnt'["call_start"] = cnt["call_start"] + 1
          /\ cnt'["file_fail"] = cnt["file_fail"] + 1
          /\ cnt'["fax_enqueue"] = cnt["fax_enqueue"] /\ cnt'["fax_lost"] = cnt["fax_lost"]
      BY <2>0, <2>2
    <3> QED
      BY <2>0, <3>1, <3>2 DEF FileType
  <2> QED
    BY <1>4, <2>1, <2>2 DEF StartCall
<1>5. CASE Data
  <2> DEFINE f == [file EXCEPT !.ends = IF pkt.last THEN @ \cup {pkt.dir} ELSE @]
  <2>0. /\ worker = "data" /\ worker' = "unlock" /\ pkt \in Packet /\ pkt.id \in Ids
        /\ file.callid = pkt.id /\ file.callid # 0 /\ cnt["call_online"] = 1
        /\ UNCHANGED <<mutex, pkt, cycle, lag, tooLong, stop, done, npkts>>
        /\ cycle # "cleanup"
        /\ seen' = IF pkt.last THEN seen \cup {pkt.dir} ELSE seen
        /\ seen' \subseteq Dirs
    BY <1>5 DEF Data, Packet
  <2>f. /\ f \in FileType /\ f.callid = file.callid /\ f.age = file.age /\ f.node = file.node
        /\ f.ends = IF pkt.last THEN file.ends \cup {pkt.dir} ELSE file.ends
    BY <2>0 DEF FileType, Packet
  <2>1. CASE f.ends = Dirs
    <3>1. /\ file' = finished(f)
          /\ cnt' = [cnt EXCEPT !["call_online"] = @ - 1,
                                !["fax_enqueue"] = @ + Count(f.node)]
      BY <1>5, <2>1 DEF Data
    <3> HIDE DEF f
    <3>2. /\ file' \in FileType /\ file'.callid = 0 /\ file'.age = -1 /\ file'.node = FALSE
      BY <2>f, <3>1, EmptiedFile
    <3>3. /\ cnt' \in [CounterNames -> Nat] /\ cnt'["call_online"] = 0
          /\ cnt'["fax_enqueue"] = cnt["fax_enqueue"] + Count(file.node)
          /\ \A n \in {"call_start", "file_fail", "fax_lost"} : cnt'[n] = cnt[n]
      BY <2>0, <2>f, <3>1
    <3> QED
      BY <2>0, <3>2, <3>3 DEF FileType
  <2>2. CASE f.ends # Dirs
    <3>1. file' = f /\ cnt' = cnt
      BY <1>5, <2>2 DEF Data
    <3> HIDE DEF f
    <3> QED
      BY <2>0, <2>f, <3>1 DEF FileType
  <2> QED
    BY <2>1, <2>2
<1>6. CASE WorkerUnlock
  BY <1>6 DEF WorkerUnlock, Unlock, Woken
<1>7. CASE WorkerExit
  BY <1>7 DEF WorkerExit
<1>8. CASE SweepBegin
  BY <1>8 DEF SweepBegin
<1>9. CASE CycleLock
  BY <1>9 DEF CycleLock, Lock
<1>10. CASE Check
  BY <1>10 DEF Check, silent
<1>11. CASE Cleanup
  <2>0. /\ ~Inside /\ UNCHANGED <<mutex, worker, pkt, lag, tooLong, stop, done, npkts, seen>>
        /\ file \in FileType /\ cycle' = "unlock"
    BY <1>11 DEF Cleanup, FileType
  <2>1. file' \in FileType /\ file'.callid = 0 /\ file'.age = -1 /\ file'.node = FALSE
    BY <1>11, <2>0, EmptiedFile DEF Cleanup
  <2>2. /\ cnt' \in [CounterNames -> Nat] /\ cnt'["call_online"] = 0
        /\ cnt'["fax_enqueue"] = cnt["fax_enqueue"] + Count(file.node)
        /\ \A n \in {"call_start", "file_fail", "fax_lost"} : cnt'[n] = cnt[n]
    BY <1>11, <2>0, CleanedCounts DEF Cleanup
  <2> QED
    BY <2>0, <2>1, <2>2 DEF FileType
<1>12. CASE CycleUnlock
  BY <1>12 DEF CycleUnlock, Unlock, Woken
<1>13. CASE StopCheck
  <2>1. done' \in BOOLEAN
    BY <1>13, Zenon DEF StopCheck
  <2> QED
    BY <1>13, <2>1 DEF StopCheck
<1>14. CASE Tick
  BY <1>14 DEF Tick
<1>15. ASSUME NEW i \in Ids, CallGrowsOld(i) PROVE SlotInv'
  BY <1>15 DEF CallGrowsOld
<1>16. CASE SIGINT
  BY <1>16 DEF SIGINT
<1>17. CASE UNCHANGED vars
  BY <1>17 DEF vars
<1> QED
  BY <1>1, <1>2, <1>3, <1>4, <1>5, <1>6, <1>7, <1>8, <1>9, <1>10, <1>11, <1>12, <1>13,
     <1>14, <1>15, <1>16, <1>17
  DEF Next, WorkerStep, CycleStep

(* The counters, the mutex and the clocks keep their ranges; call_online is  *)
(* never taken below 0.                                                      *)
THEOREM SlotTypes == Spec => []TypeOK
BY SlotInvInit, SlotInvStep, PTL DEF Spec, SlotInv

(* call_online, which the shutdown waits for, is exactly the calls in the    *)
(* slots between any two steps of the two threads.                           *)
THEOREM OnlineIsExact == Spec => []OnlineExact
BY SlotInvInit, SlotInvStep, PTL DEF Spec, SlotInv, Records

(* Every call that started leaves exactly one record. *)
THEOREM OneRecordPerCall == Spec => []RecordPerCall
BY SlotInvInit, SlotInvStep, PTL DEF Spec, SlotInv, Records

(* cycle_thread never cleans up a slot under the worker, although the mutex  *)
(* the two share is cleared while it is held.                                *)
THEOREM NeverCleanedUnderWorker == Spec => []CleanupAlone
<1>1. SlotInv => CleanupAlone
  BY DEF SlotInv, Access, CleanupExclusive, CleanupAlone, Inside
<1> QED
  BY <1>1, SlotInvInit, SlotInvStep, PTL DEF Spec

(* No end mark of an earlier call in the slot ends a later one. *)
THEOREM EndsByOwnMarks == Spec => []EndMarksOwn
BY SlotInvInit, SlotInvStep, PTL DEF Spec, SlotInv, Records

-----------------------------------------------------------------------------
(* Cleared mutex: who can be asleep on it. *)
InCycle == cycle \in {"check", "cleanup", "unlock"}

(* A mutex that is not free has one of the two threads in the entry, and     *)
(* while cycle_thread sleeps on it the worker does not.                      *)
SleepInv ==
    /\ mutex # 0 => Inside \/ InCycle
    /\ cycle = "asleep" => worker \notin {"asleep", "woken"}

LEMMA SleepStep == SleepInv /\ [Next]_vars => SleepInv'
<1> SUFFICES ASSUME SleepInv, [Next]_vars PROVE SleepInv'
  OBVIOUS
<1> USE DEF SleepInv, Inside, InCycle
<1>1. CASE TakePacket \/ WorkerLock \/ WorkerUnlock \/ WorkerExit
  BY <1>1 DEF TakePacket, WorkerLock, Lock, WorkerUnlock, Unlock, Woken, WorkerExit
<1>2. CASE Enter
  BY <1>2 DEF Enter
<1>3. CASE StartCall \/ Data
  BY <1>3 DEF StartCall, Data
<1>4. CASE SweepBegin \/ CycleLock \/ CycleUnlock
  BY <1>4 DEF SweepBegin, CycleLock, Lock, CycleUnlock, Unlock, Woken
<1>5. CASE Check \/ Cleanup \/ StopCheck
  BY <1>5 DEF Check, Cleanup, StopCheck
<1>6. CASE Tick \/ SIGINT
  BY <1>6 DEF Tick, SIGINT
<1>7. ASSUME NEW i \in Ids, CallGrowsOld(i) PROVE SleepInv'
  BY <1>7 DEF CallGrowsOld
<1>8. CASE UNCHANGED vars
  BY <1>8 DEF vars
<1> QED
  BY <1>1, <1>2, <1>3, <1>4, <1>5, <1>6, <1>7, <1>8 DEF Next, WorkerStep, CycleStep

(* memset of a mutex that cycle_thread sleeps on is final: no later packet   *)
(* for the slot wakes the thread, as no unlock ever finds the mark that it   *)
(* waits.  This is the exception CallEnds has to make.                       *)
THEOREM HungForEver == Spec => [][Hung => Hung']_vars
<1>1. Init => SleepInv
  BY DEF Init, SleepInv
<1>2. SleepInv /\ [Next]_vars => [Hung => Hung']_vars
  <2> SUFFICES ASSUME SleepInv, Next, Hung PROVE Hung'
    OBVIOUS
  <2> USE DEF SleepInv, Hung, Inside, InCycle
  <2>1. CASE WorkerLock
    <3>1. mutex = 0 /\ worker # "woken"
      BY <2>1 DEF WorkerLock
    <3> QED
      BY <2>1, <3>1 DEF WorkerLock, Lock
  <2>2. CASE WorkerUnlock
    <3>1. cycle' = cycle /\ mutex' = 0
      BY <2>2 DEF WorkerUnlock, Unlock, Woken
    <3> QED
      BY <3>1
  <2>3. CASE TakePacket \/ WorkerExit
    BY <2>3 DEF TakePacket, WorkerExit
  <2>4. CASE Enter
    <3>1. cycle' = cycle /\ mutex' \in {mutex, 0}
      BY <2>4 DEF Enter
    <3> QED
      BY <3>1
  <2>5. CASE StartCall \/ Data
    BY <2>5 DEF StartCall, Data
  <2>6. CASE CycleStep
    BY <2>6 DEF CycleStep, SweepBegin, CycleLock, Check, Cleanup, CycleUnlock, StopCheck
  <2>7. CASE Tick \/ SIGINT \/ \E i \in Ids : CallGrowsOld(i)
    BY <2>7 DEF Tick, SIGINT, CallGrowsOld
  <2> QED
    BY <2>1, <2>2, <2>3, <2>4, <2>5, <2>6, <2>7 DEF Next, WorkerStep
<1> QED
  BY <1>1, <1>2, SleepStep, PTL DEF Spec
=============================================================================
