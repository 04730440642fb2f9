----------------------------- MODULE FileServer -----------------------------
(***************************************************************************)
(* file_server.c: clients ask for a recording (non real time), for its fax *)
(* pictures, or to listen to the call that is in a slot (real time).  Each *)
(* connection gets a detached file_tx_thread.  For listening the thread    *)
(* leaves its descriptor in the slot's tx_fd, without the slot's mutex,    *)
(* and ends; from then on the descriptor belongs to whoever works on the   *)
(* slot (voice_parser, cleanup_file_struct: "the slot").                   *)
(*                                                                         *)
(* Descriptors are numbers that the kernel gives again once closed.  The   *)
(* two files of the one recording are their lengths; write_voice_file      *)
(* appends the same amount to both, one after the other.                   *)
(***************************************************************************)
EXTENDS Integers, FiniteSets

CONSTANTS
    Clients,        \* connections
    Fds,            \* descriptors (positive numbers)
    Chunk,          \* bytes per read (1024 in the code)
    MaxLen,         \* bound: length of a recording
    MaxReloads      \* bound: reloads of the server's address

ASSUME ServerAssumption ==
    /\ Fds \subseteq Nat \ {0}
    /\ Chunk \in Nat \ {0} /\ MaxLen \in Nat /\ MaxReloads \in Nat

VARIABLES
    listenfd, svm_vpu_reload, reloads,  \* file_server_thread
    thr, fd,        \* per client: its file_tx_thread, its descriptor (0 = closed)
    answer,         \* per client: results sent to it
    live,           \* history: clients that were told they listen
    played,         \* per client: [size announced, pos_up, pos_down]
    tx_fd,          \* of the slot
    slot, then,     \* where the slot is with tx_fd, and what follows
    up, down,       \* lengths of the recording's files
    raced           \* history: tx_fd was taken or being given up at LiveAttach

serverVars == <<listenfd, svm_vpu_reload, reloads>>
slotVars   == <<slot, then>>
fileVars   == <<up, down>>
vars == <<serverVars, thr, fd, answer, live, played, tx_fd, slotVars, fileVars, raced>>

NotPlayed == [size |-> 0, pos_up |-> 0, pos_down |-> 0]

TypeOK ==
    /\ listenfd \in {"none", "up", "done"} /\ svm_vpu_reload \in BOOLEAN /\ reloads \in 0 .. MaxReloads
    /\ thr \in [Clients -> {"none", "read", "attach", "stream", "readdown", "end"}]
    /\ fd \in [Clients -> Fds \cup {0}]
    /\ answer \in [Clients -> 0 .. 1]
    /\ live \subseteq Clients
    /\ played \in [Clients -> [size : 0 .. 2 * MaxLen, pos_up : 0 .. MaxLen, pos_down : 0 .. MaxLen]]
    /\ tx_fd \in Fds \cup {0}
    /\ slot \in {"idle", "write", "fail", "clear", "end", "wipe"} /\ then \in {"idle", "end", "wipe"}
    /\ up \in 0 .. MaxLen /\ down \in 0 .. up
    /\ raced \in BOOLEAN

Init ==
    /\ listenfd = "none" /\ svm_vpu_reload = FALSE /\ reloads = 0
    /\ thr = [c \in Clients |-> "none"] /\ fd = [c \in Clients |-> 0]
    /\ answer = [c \in Clients |-> 0] /\ live = {}
    /\ played = [c \in Clients |-> NotPlayed]
    /\ tx_fd = 0 /\ slot = "idle" /\ then = "idle"
    /\ up = 0 /\ down = 0 /\ raced = FALSE

-----------------------------------------------------------------------------
(* file_server_thread *)

(* svm_vpu_reload: reload_server_ip_port stored another address. *)
RequestReload ==
    /\ reloads < MaxReloads /\ reloads' = reloads + 1
    /\ svm_vpu_reload' = TRUE
    /\ UNCHANGED <<listenfd, thr, fd, answer, live, played, tx_fd, slotVars, fileVars, raced>>

ServerReload ==
    /\ svm_vpu_reload /\ listenfd # "done"
    /\ svm_vpu_reload' = FALSE /\ listenfd' = "none"
    /\ UNCHANGED <<reloads, thr, fd, answer, live, played, tx_fd, slotVars, fileVars, raced>>

create_tcp_server ==
    /\ listenfd = "none"
    /\ listenfd' = "up"
    /\ UNCHANGED <<svm_vpu_reload, reloads, thr, fd, answer, live, played, tx_fd, slotVars, fileVars, raced>>

(* SVM_DONE: the thread closes its socket and ends. *)
ServerExit ==
    /\ listenfd # "done" /\ listenfd' = "done"
    /\ UNCHANGED <<svm_vpu_reload, reloads, thr, fd, answer, live, played, tx_fd, slotVars, fileVars, raced>>

InUse == {fd[c] : c \in Clients}

(* accept gives any free descriptor; the thread may fail to be created, and  *)
(* then nobody closes it.                                                    *)
Accept(c) ==
    /\ listenfd = "up" /\ thr[c] = "none"
    /\ \E f \in Fds \ InUse : fd' = [fd EXCEPT ![c] = f]
    /\ \E t \in {"read", "end"} : thr' = [thr EXCEPT ![c] = t]
    /\ UNCHANGED <<serverVars, answer, live, played, tx_fd, slotVars, fileVars, raced>>

-----------------------------------------------------------------------------
(* file_tx_thread *)

send_result(c) == answer' = [answer EXCEPT ![c] = @ + 1]

CloseConn(c) == fd' = [fd EXCEPT ![c] = 0]

no_exit_Refuse(c) ==
    /\ thr[c] = "read"
    /\ send_result(c)
    /\ UNCHANGED <<serverVars, thr, fd, live, played, tx_fd, slotVars, fileVars, raced>>

(* cmd_parser refuses the command, the recording is not there, there is no   *)
(* fax picture, or there is no such slot: result 0.                          *)
Refuse(c) ==
    /\ thr[c] = "read"
    /\ send_result(c) /\ CloseConn(c)
    /\ thr' = [thr EXCEPT ![c] = "end"]
    /\ UNCHANGED <<serverVars, live, played, tx_fd, slotVars, fileVars, raced>>

(* A type of request that no branch is for: neither answered nor closed. *)
Ignore(c) ==
    /\ thr[c] = "read"
    /\ thr' = [thr EXCEPT ![c] = "end"]
    /\ UNCHANGED <<serverVars, fd, answer, live, played, tx_fd, slotVars, fileVars, raced>>

file_size(u, d) == 2 * (IF u < d THEN u ELSE d)

(* A recording: check_voice_file, open, and the size. *)
Play(c) ==
    /\ thr[c] = "read"
    /\ send_result(c)
    /\ played' = [played EXCEPT ![c].size = file_size(up, down)]
    /\ thr' = [thr EXCEPT ![c] = "stream"]
    /\ UNCHANGED <<serverVars, fd, live, tx_fd, slotVars, fileVars, raced>>

(* The fax pictures of a recording, all of them. *)
SendFaxPics(c) ==
    /\ thr[c] = "read"
    /\ send_result(c) /\ CloseConn(c)
    /\ thr' = [thr EXCEPT ![c] = "end"]
    /\ UNCHANGED <<serverVars, live, played, tx_fd, slotVars, fileVars, raced>>

(* What read returns at position p of a file of length n. *)
read_len(p, n) == IF n - p < Chunk THEN n - p ELSE Chunk

ReadUp(c) ==
    /\ thr[c] = "stream"
    /\ played' = [played EXCEPT ![c].pos_up = @ + read_len(@, up)]
    /\ thr' = [thr EXCEPT ![c] = "readdown"]
    /\ UNCHANGED <<serverVars, fd, answer, live, tx_fd, slotVars, fileVars, raced>>

(* Bytes of the last read of the up file that were not sent yet. *)
up_len(c) == played[c].pos_up - played[c].pos_down

uneven_goon(u, d) == u > 0

goon(u, d) == u = d /\ u > 0

ReadDown(c) ==
    LET down_len == read_len(played[c].pos_down, down)
    IN  /\ thr[c] = "readdown"
        /\ IF goon(up_len(c), down_len)
           THEN /\ played' = [played EXCEPT ![c].pos_down = @ + down_len]
                /\ thr' = [thr EXCEPT ![c] = "stream"]
                /\ UNCHANGED fd
           ELSE /\ CloseConn(c)
                /\ thr' = [thr EXCEPT ![c] = "end"]
                /\ UNCHANGED played
        /\ UNCHANGED <<serverVars, answer, live, tx_fd, slotVars, fileVars, raced>>

(* Real time: `if (filep->tx_fd > 0)', without the mutex ... *)
LiveCheck(c) ==
    /\ thr[c] = "read"
    /\ IF tx_fd > 0
       THEN send_result(c) /\ CloseConn(c) /\ thr' = [thr EXCEPT ![c] = "end"]
       ELSE thr' = [thr EXCEPT ![c] = "attach"] /\ UNCHANGED <<answer, fd>>
    /\ UNCHANGED <<serverVars, live, played, tx_fd, slotVars, fileVars, raced>>

(* ... and, the answer sent, the store. *)
LiveAttach(c) ==
    /\ thr[c] = "attach"
    /\ send_result(c)
    /\ tx_fd' = fd[c]
    /\ live' = live \cup {c}
    /\ raced' = (raced \/ tx_fd # 0 \/ slot # "idle")
    /\ thr' = [thr EXCEPT ![c] = "end"]
    /\ UNCHANGED <<serverVars, fd, played, slotVars, fileVars>>

-----------------------------------------------------------------------------
(* The slot, under its mutex *)

(* A full buffer goes to the listener before it is written to the files. *)
SendBuffer ==
    /\ slot = "idle" /\ tx_fd > 0
    /\ slot' = "write" /\ then' = "idle"
    /\ UNCHANGED <<serverVars, thr, fd, answer, live, played, tx_fd, fileVars, raced>>

(* The end of the call in voice_parser; or cleanup_file_struct, followed by  *)
(* a memset if another call takes the slot.                                  *)
EndCall ==
    /\ slot = "idle"
    /\ \/ slot' = (IF tx_fd > 0 THEN "write" ELSE "end") /\ then' = "end"
       \/ slot' = "end" /\ then' = "idle"
       \/ slot' = "end" /\ then' = "wipe"
    /\ UNCHANGED <<serverVars, thr, fd, answer, live, played, tx_fd, fileVars, raced>>

(* write(file->tx_fd): complete, or the listener is gone or too slow. *)
send_voice_data ==
    /\ slot = "write"
    /\ slot' \in {then, "fail"}
    /\ then' = IF slot' = "end" THEN "idle" ELSE then
    /\ UNCHANGED <<serverVars, thr, fd, answer, live, played, tx_fd, fileVars, raced>>

CloseFd(f) == fd' = [c \in Clients |-> IF fd[c] = f THEN 0 ELSE fd[c]]

CloseFailed ==
    /\ slot = "fail"
    /\ CloseFd(tx_fd)
    /\ slot' = "clear"
    /\ UNCHANGED <<then, serverVars, thr, answer, live, played, tx_fd, fileVars, raced>>

keep_fd_Clear ==
    /\ slot = "clear"
    /\ slot' = then
    /\ then' = IF then = "end" THEN "idle" ELSE then
    /\ UNCHANGED <<serverVars, thr, fd, answer, live, played, tx_fd, fileVars, raced>>

Clear ==
    /\ slot = "clear"
    /\ tx_fd' = 0
    /\ slot' = then
    /\ then' = IF then = "end" THEN "idle" ELSE then
    /\ UNCHANGED <<serverVars, thr, fd, answer, live, played, fileVars, raced>>

no_close_CloseListener ==
    /\ slot = "end"
    /\ slot' = (IF tx_fd > 0 THEN "clear" ELSE then)
    /\ UNCHANGED <<then, serverVars, thr, fd, answer, live, played, tx_fd, fileVars, raced>>

CloseListener ==
    /\ slot = "end"
    /\ IF tx_fd > 0 THEN CloseFd(tx_fd) /\ slot' = "clear" ELSE slot' = then /\ UNCHANGED fd
    /\ UNCHANGED <<then, serverVars, thr, answer, live, played, tx_fd, fileVars, raced>>

Wipe ==
    /\ slot = "wipe"
    /\ tx_fd' = 0 /\ slot' = "idle" /\ then' = "idle"
    /\ UNCHANGED <<serverVars, thr, fd, answer, live, played, fileVars, raced>>

(* write_voice_file: data_len bytes to the one file, then to the other. *)
WriteUp ==
    /\ up = down /\ \E n \in 1 .. MaxLen - up : up' = up + n
    /\ UNCHANGED <<down, serverVars, thr, fd, answer, live, played, tx_fd, slotVars, raced>>

WriteDown ==
    /\ down < up /\ down' = up
    /\ UNCHANGED <<up, serverVars, thr, fd, answer, live, played, tx_fd, slotVars, raced>>

-----------------------------------------------------------------------------
TxStep(c) ==
    \/ Refuse(c) \/ Ignore(c) \/ Play(c) \/ SendFaxPics(c) \/ ReadUp(c) \/ ReadDown(c)
    \/ LiveCheck(c) \/ LiveAttach(c)

SlotStep == send_voice_data \/ CloseFailed \/ Clear \/ CloseListener \/ Wipe

Next ==
    \/ RequestReload \/ ServerReload \/ create_tcp_server \/ ServerExit
    \/ (\E c \in Clients : Accept(c) \/ TxStep(c))
    \/ SendBuffer \/ EndCall \/ SlotStep
    \/ WriteUp \/ WriteDown

Spec == Init /\ [][Next]_vars

(* Whoever holds the slot's mutex goes on: the write to the listener blocks,  *)
(* so this needs a listener that reads or goes away.  No call lasts for ever: *)
(* its end comes although full buffers come in between.                       *)
Fairness == WF_vars(SlotStep) /\ SF_vars(EndCall)

FairSpec == Spec /\ Fairness
-----------------------------------------------------------------------------
(* The slot writes to, and closes, only a connection whose client was told    *)
(* that it listens: never one that got the number of a closed descriptor,     *)
(* although tx_fd is set without the mutex.                                   *)
OnlyListeners ==
    slot \in {"write", "fail"} \/ (slot = "end" /\ tx_fd > 0) =>
        \E c \in live : fd[c] = tx_fd

(* The samples sent together belong to the same instant in both directions,   *)
(* also while the recording still grows.                                      *)
PlayedAligned ==
    \A c \in Clients : thr[c] = "stream" => played[c].pos_up = played[c].pos_down

(* A listener's connection is closed in the end, unless two threads met at    *)
(* tx_fd: then one listener may stay connected and hear nothing.              *)
ListenerReleased ==
    \A c \in Clients : c \in live ~> (fd[c] = 0 \/ raced)
=============================================================================
