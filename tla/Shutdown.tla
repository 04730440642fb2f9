------------------------------ MODULE Shutdown ------------------------------
(***************************************************************************)
(* How the program stops (vpu.c, cycle_operation.c).  SIGINT only sets     *)
(* SVM_STOP.  When cycle_thread next wakes up and finds no call online, it *)
(* sets SVM_DONE; the other threads leave their loops at the next look,    *)
(* main waits for them and returns.  svm_signal_flags is a plain byte that *)
(* the handler, in whichever thread it runs, and cycle_thread both change  *)
(* by reading it and writing it back.                                      *)
(*                                                                         *)
(* Calls are what VoiceSlot makes of them: started by a worker, ended by a *)
(* worker or, when silent, by cycle_thread, with the record then queued    *)
(* for the fax threads or inserted into the ring.  main does not wait for  *)
(* conn_cdr_thread: what is in the queue or in the ring then is lost.      *)
(***************************************************************************)
EXTENDS Naturals, FiniteSets

CONSTANTS
    Workers, FaxThreads, Calls,
    Others,         \* conn_sguard, conn_ma, vpu_io_thread, file_server_thread
    MaxSigs         \* bound on the signals

VARIABLES
    flags,          \* svm_signal_flags
    sig, sigs,      \* a handler between its read and its write, and how many ran
    cycle,          \* cycle_thread: "sweep", "or", "exited"
    or_val,         \* what cycle_thread read of the flags it is about to write
    alive,          \* the threads that have not left their loop
    busy,           \* the workers past their look at the flag
    rec,            \* where the record of a call is
    held_by,        \* the fax thread that works on a record
    upd,            \* update_time # 0: cycle_thread may time the call out
    late,           \* the call began after cycle_thread had found none online
    returned        \* main returned

stop_vars == <<flags, sig, sigs, cycle, or_val, alive, busy, rec, held_by, upd, late, returned>>

NoThread == "none"

ASSUME ThreadAssumption == NoThread \notin FaxThreads /\ MaxSigs \in Nat

StopInit ==
    /\ flags = {} /\ sig = "idle" /\ sigs = 0
    /\ cycle = "sweep" /\ or_val = {}
    /\ alive = Others \cup Workers \cup FaxThreads
    /\ busy = {}
    /\ rec = [c \in Calls |-> "none"] /\ held_by = [c \in Calls |-> NoThread]
    /\ upd = [c \in Calls |-> FALSE] /\ late = [c \in Calls |-> FALSE]
    /\ returned = FALSE

Online == {c \in Calls : rec[c] = "slot"}

-----------------------------------------------------------------------------
(* signal_handler_sigint: flags |= SVM_STOP.  Between the read and the write *)
(* only cycle_thread could change the byte; what the handler read of it is   *)
(* whether SVM_DONE was there.                                               *)
SigRead ==
    /\ ~returned /\ sig = "idle" /\ sigs < MaxSigs
    /\ sigs' = sigs + 1
    /\ sig' = IF "DONE" \in flags THEN "done" ELSE "not_done"
    /\ UNCHANGED <<flags, cycle, or_val, alive, busy, rec, held_by, upd, late, returned>>

SigWrite ==
    /\ sig # "idle" /\ sig' = "idle"
    /\ flags' = {"STOP"} \cup (IF sig = "done" THEN {"DONE"} ELSE {})
    /\ UNCHANGED <<sigs, cycle, or_val, alive, busy, rec, held_by, upd, late, returned>>

-----------------------------------------------------------------------------
(* cycle_thread *)

(* A call is over: with a node its record is queued for the fax threads,     *)
(* without one it goes to the ring.                                          *)
Finish(c) ==
    /\ rec[c] = "slot"
    /\ \E to \in {"fq", "ring"} : rec' = [rec EXCEPT ![c] = to]

(* The sweep over the slots times out a silent call. *)
TimeOut(c) ==
    /\ cycle = "sweep" /\ ~returned /\ upd[c]
    /\ Finish(c)
    /\ UNCHANGED <<flags, sig, sigs, cycle, or_val, alive, busy, held_by, upd, late, returned>>

no_online_Look ==
    /\ cycle = "sweep" /\ "STOP" \in flags
    /\ cycle' = "or" /\ or_val' = flags
    /\ UNCHANGED <<flags, sig, sigs, alive, busy, rec, held_by, upd, late, returned>>

only_kill_Look ==
    /\ cycle = "sweep" /\ "KILL" \in flags /\ Online = {}
    /\ cycle' = "or" /\ or_val' = flags
    /\ UNCHANGED <<flags, sig, sigs, alive, busy, rec, held_by, upd, late, returned>>

(* After the sweep: a signal has come and call_online = 0. *)
Look ==
    /\ cycle = "sweep" /\ "STOP" \in flags /\ Online = {}
    /\ cycle' = "or" /\ or_val' = flags
    /\ UNCHANGED <<flags, sig, sigs, alive, busy, rec, held_by, upd, late, returned>>

(* flags |= SVM_DONE, and the thread ends. *)
SetDone ==
    /\ cycle = "or" /\ cycle' = "exited"
    /\ flags' = or_val \cup {"DONE"}
    /\ UNCHANGED <<sig, sigs, or_val, alive, busy, rec, held_by, upd, late, returned>>

-----------------------------------------------------------------------------
(* The threads' loops *)

Exit(t) ==
    /\ t \in alive \ busy /\ "DONE" \in flags
    /\ \A c \in Calls : held_by[c] # t
    /\ alive' = alive \ {t}
    /\ UNCHANGED <<flags, sig, sigs, cycle, or_val, busy, rec, held_by, upd, late, returned>>

(* vpu_worker_thread passes the look at the flag and handles one packet. *)
TakePkt(w) ==
    /\ w \in alive \ busy /\ "DONE" \notin flags
    /\ busy' = busy \cup {w}
    /\ UNCHANGED <<flags, sig, sigs, cycle, or_val, alive, rec, held_by, upd, late, returned>>

(* The first packet of a call, which leaves update_time at 0. *)
FirstPkt(c) ==
    /\ rec[c] = "none"
    /\ rec' = [rec EXCEPT ![c] = "slot"]
    /\ late' = [late EXCEPT ![c] = cycle # "sweep"]
    /\ UNCHANGED upd

NextPkt(c) == rec[c] = "slot" /\ upd' = [upd EXCEPT ![c] = TRUE] /\ UNCHANGED <<rec, late>>

LastPkt(c) == Finish(c) /\ UNCHANGED <<upd, late>>

voice_parser(w) ==
    /\ w \in busy /\ busy' = busy \ {w}
    /\ \/ \E c \in Calls : FirstPkt(c) \/ NextPkt(c) \/ LastPkt(c)
       \/ UNCHANGED <<rec, upd, late>>      \* no packet, or one of no account
    /\ UNCHANGED <<flags, sig, sigs, cycle, or_val, alive, held_by, returned>>

(* fax_pre takes a record from the queue and inserts it into the ring. *)
FETCH_PHEAD(f, c) ==
    /\ f \in alive /\ "DONE" \notin flags
    /\ \A d \in Calls : held_by[d] # f
    /\ rec[c] = "fq"
    /\ rec' = [rec EXCEPT ![c] = "held"] /\ held_by' = [held_by EXCEPT ![c] = f]
    /\ UNCHANGED <<flags, sig, sigs, cycle, or_val, alive, busy, upd, late, returned>>

cdr_insert(f, c) ==
    /\ held_by[c] = f
    /\ rec' = [rec EXCEPT ![c] = "ring"] /\ held_by' = [held_by EXCEPT ![c] = NoThread]
    /\ UNCHANGED <<flags, sig, sigs, cycle, or_val, alive, busy, upd, late, returned>>

(* conn_cdr_thread has a record acknowledged. *)
Acked(c) ==
    /\ ~returned /\ rec[c] = "ring"
    /\ rec' = [rec EXCEPT ![c] = "acked"]
    /\ UNCHANGED <<flags, sig, sigs, cycle, or_val, alive, busy, held_by, upd, late, returned>>

(* main: pthread_join of all but conn_cdr_thread. *)
Return ==
    /\ ~returned /\ cycle = "exited" /\ alive = {}
    /\ returned' = TRUE
    /\ UNCHANGED <<flags, sig, sigs, cycle, or_val, alive, busy, rec, held_by, upd, late>>

-----------------------------------------------------------------------------
StopNext ==
    \/ SigRead \/ SigWrite
    \/ Look \/ SetDone \/ Return
    \/ \E c \in Calls : TimeOut(c) \/ Acked(c)
    \/ \E t \in Others \cup Workers \cup FaxThreads : Exit(t)
    \/ \E w \in Workers : TakePkt(w) \/ voice_parser(w)
    \/ \E f \in FaxThreads, c \in Calls : FETCH_PHEAD(f, c) \/ cdr_insert(f, c)

StopSpec == StopInit /\ [][StopNext]_stop_vars

(* Every thread runs; a call falls silent some day, so that cycle_thread,    *)
(* which comes round every minute, times it out if it can.                   *)
FairStopSpec ==
    /\ StopSpec
    /\ WF_stop_vars(SigWrite) /\ WF_stop_vars(SetDone) /\ WF_stop_vars(Return)
    /\ SF_stop_vars(Look) /\ \A c \in Calls : SF_stop_vars(TimeOut(c))
    /\ \A t \in Others \cup Workers \cup FaxThreads : WF_stop_vars(Exit(t))
    /\ \A w \in Workers : WF_stop_vars(voice_parser(w))
    /\ \A f \in FaxThreads, c \in Calls : WF_stop_vars(cdr_insert(f, c))

-----------------------------------------------------------------------------
(* Properties *)

(* When main returns, no thread is in the middle of a record, and the only   *)
(* calls cut off are those that began after cycle_thread found none online.  *)
StopClean ==
    returned => \A c \in Calls : rec[c] # "held" /\ (rec[c] = "slot" => late[c])

(* What keeps the program from stopping: a second signal whose handler read  *)
(* the flags before SVM_DONE was written and wrote them after it, or a call  *)
(* of a single packet, which is never timed out.                             *)
Stuck ==
    \/ cycle = "exited" /\ "DONE" \notin flags
    \/ \E c \in Calls : rec[c] = "slot" /\ ~upd[c]

(* After SIGINT the program stops, unless one of these two goes on for ever. *)
StopEnds == ("STOP" \in flags ~> returned) \/ <>[]Stuck
=============================================================================
