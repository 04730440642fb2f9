------------------------------- MODULE CdrRing -------------------------------
(***************************************************************************)
(* send_cdr.c: the ring of call records (CDRs), filled by cdr_insert from  *)
(* the worker and fax threads, and conn_cdr_thread, which sends them to    *)
(* the CDR server, advances over what the server acknowledges, and starts  *)
(* again at the oldest unacknowledged record on every new connection.      *)
(*                                                                         *)
(* The k-th record inserted since cdr_init is the number k; 0 is the       *)
(* zeroed slot.  ack, send and wait are unsigned shorts, so all arithmetic *)
(* on them is modulo N (65536 in the code).  The thread's steps are cut at *)
(* the mutex: between two of them cdr_insert may run.                      *)
(*                                                                         *)
(* External: the TCP connection and the CDR server, modelled from the way  *)
(* conn_cdr_thread talks to them.                                          *)
(***************************************************************************)
EXTENDS Integers, Sequences, FiniteSets

CONSTANTS
    N,          \* slots of cdr_buf and modulus of its indices
    Batch,      \* records per message
    SockFrames, \* messages the socket buffers hold (external)
    SplitAcks,  \* may TCP deliver an acknowledgement in several pieces?
    MaxInserts, \* bound: cdr_insert calls
    MaxFaults   \* bound: connection failures and reload requests

ASSUME RingAssumption == N \in Nat /\ N >= 2 /\ Batch \in Nat \ {0}

ASSUME EnvAssumption ==
    /\ SockFrames \in Nat \ {0}
    /\ SplitAcks \in BOOLEAN
    /\ MaxInserts \in Nat
    /\ MaxFaults \in Nat

VARIABLES
    ring, ack, send, wait,  \* g_cdr_buff
    pc,                     \* where conn_cdr_thread is
    link,                   \* sockfd: "none", "up", or "cut" (dead, not yet noticed)
    frame,                  \* cdr_arr and its header, between lock and socket
    recv_len,               \* bytes of a half-read acknowledgement
    svm_cdr_reload, done,   \* flags set by other threads (SVM_DONE)
    out, back, off,         \* messages and acks in the sockets; bytes read of Head(back)
                            \* (an ack carries idx; rec says which record that is)
    inserted,               \* records inserted since cdr_init
    got,                    \* history: records the server has
    faults                  \* counts up to MaxFaults

ringVars   == <<ring, ack, send, wait, inserted>>
threadVars == <<pc, frame, recv_len>>
netVars    == <<link, out, back, off, got>>
flagVars   == <<svm_cdr_reload, done, faults>>
vars == <<ringVars, threadVars, netVars, flagVars>>

Index   == 0 .. N - 1
AckLen  == 4
NoFrame == [idx |-> 0, recs |-> <<>>]
Message == {f \in [idx : Index, recs : Seq(Nat)] : Len(f.recs) \in 1 .. N}
Links   == {"none", "up", "cut"}
PCs     == {"init", "top", "connect", "reset", "select", "send", "write", "exit"}

(* unsigned short ++ , + and - for operands in Index *)
UInc_no_wrap(i) == i + 1

UInc(i) == IF i = N - 1 THEN 0 ELSE i + 1

UAdd(i, n) == IF i + n >= N THEN i + n - N ELSE i + n

USub(i, j) == IF i >= j THEN i - j ELSE i - j + N

(* In particular the indices stay inside cdr_buf, a message never runs past *)
(* its end, and what arrives at cdr_update_ack from the stream is an index. *)
TypeOK ==
    /\ ring \in [Index -> Nat]
    /\ ack \in Index /\ send \in Index /\ wait \in Index
    /\ inserted \in Nat /\ faults \in Nat
    /\ pc \in PCs /\ link \in Links
    /\ frame \in Message \cup {NoFrame}
    /\ pc = "write" => frame \in Message
    /\ out \in Seq(Message)
    /\ back \in Seq([idx : Index, rec : Nat])
    /\ recv_len \in 0 .. AckLen - 1 /\ off \in 0 .. AckLen - 1
    /\ svm_cdr_reload \in BOOLEAN /\ done \in BOOLEAN

(* The static buffer is zero until conn_cdr_thread runs cdr_init, while the *)
(* other threads may already call cdr_insert.                               *)
Init ==
    /\ ring = [i \in Index |-> 0] /\ ack = 0 /\ send = 0 /\ wait = 0
    /\ inserted = 0 /\ got = {}
    /\ pc = "init" /\ link = "none" /\ frame = NoFrame
    /\ recv_len = 0
    /\ out = <<>> /\ back = <<>> /\ off = 0
    /\ svm_cdr_reload = FALSE /\ done = FALSE /\ faults = 0

-----------------------------------------------------------------------------
(* Any worker or fax thread *)

cdr_insert_no_push ==
    /\ inserted < MaxInserts
    /\ ring' = [ring EXCEPT ![wait] = inserted + 1]
    /\ wait' = UInc(wait)
    /\ inserted' = inserted + 1
    /\ UNCHANGED <<ack, send, threadVars, netVars, flagVars>>

cdr_insert_next_slot ==
    /\ inserted < MaxInserts
    /\ IF wait = ack
       THEN /\ ack' = UInc(ack)
            /\ send' = IF ack' = send THEN UInc(send) ELSE send
       ELSE UNCHANGED <<ack, send>>
    /\ wait' = UInc(wait)
    /\ ring' = [ring EXCEPT ![wait'] = inserted + 1]
    /\ inserted' = inserted + 1
    /\ UNCHANGED <<threadVars, netVars, flagVars>>

cdr_insert ==
    /\ inserted < MaxInserts
    /\ IF wait = ack
       THEN /\ ack' = UInc(ack)
            /\ send' = IF ack' = send THEN UInc(send) ELSE send
       ELSE UNCHANGED <<ack, send>>
    /\ ring' = [ring EXCEPT ![wait] = inserted + 1]
    /\ wait' = UInc(wait)
    /\ inserted' = inserted + 1
    /\ UNCHANGED <<threadVars, netVars, flagVars>>

-----------------------------------------------------------------------------
(* conn_cdr_thread *)

(* cdr_init, at the start of the thread: forgets what was inserted before. *)
cdr_init ==
    /\ pc = "init"
    /\ ring' = [i \in Index |-> 0] /\ ack' = 0 /\ send' = 1 /\ wait' = 1
    /\ inserted' = 0
    /\ pc' = "top"
    /\ UNCHANGED <<frame, recv_len, netVars, flagVars>>

(* close(sockfd): unread acks are gone, and over a live link the kernel may *)
(* still deliver some of the messages it holds.                             *)
Close ==
    /\ link' = "none" /\ out' = <<>> /\ back' = <<>> /\ off' = 0
    /\ \E n \in IF link = "up" THEN 0 .. Len(out) ELSE {0} :
          got' = got \cup UNION {{out[i].recs[j] : j \in 1 .. Len(out[i].recs)} : i \in 1 .. n}

Exit ==
    /\ pc = "top" /\ done
    /\ pc' = "exit"
    /\ Close
    /\ UNCHANGED <<frame, recv_len, ringVars, flagVars>>

Reload ==
    /\ pc = "top" /\ ~done /\ svm_cdr_reload
    /\ Close
    /\ svm_cdr_reload' = FALSE
    /\ pc' = "connect"
    /\ UNCHANGED <<frame, recv_len, ringVars, done, faults>>

LoopTop ==
    /\ pc = "top" /\ ~done /\ ~svm_cdr_reload
    /\ pc' = IF link = "none" THEN "connect" ELSE "select"
    /\ UNCHANGED <<frame, recv_len, ringVars, netVars, flagVars>>

ConnectFail ==
    /\ pc = "connect"
    /\ pc' = "top"
    /\ UNCHANGED <<frame, recv_len, ringVars, netVars, flagVars>>

(* recv_len and remain_len keep their values from the last connection. *)
connect2cdr ==
    /\ pc = "connect"
    /\ link' = "up"
    /\ pc' = "reset"
    /\ UNCHANGED <<frame, recv_len, out, back, off, got, ringVars, flagVars>>

reset_to_ack ==
    /\ pc = "reset"
    /\ send' = ack
    /\ pc' = "select"
    /\ UNCHANGED <<ring, ack, wait, inserted, frame, recv_len, netVars, flagVars>>

no_reset ==
    /\ pc = "reset"
    /\ pc' = "select"
    /\ UNCHANGED <<frame, recv_len, ringVars, netVars, flagVars>>

cdr_reset_send ==
    /\ pc = "reset"
    /\ send' = UInc(ack)
    /\ pc' = "select"
    /\ UNCHANGED <<ring, ack, wait, inserted, frame, recv_len, netVars, flagVars>>

(* Also on a dead link, until its death is noticed. *)
SelectTimeout ==
    /\ pc = "select" /\ link # "none" /\ back = <<>>
    /\ pc' = "send"
    /\ UNCHANGED <<frame, recv_len, ringVars, netVars, flagVars>>

ack_any(a) == a

cdr_update_ack(a) ==
    LET send_num == USub(USub(send, 1), ack)
        ack_num  == USub(a, ack)
    IN  IF ack_num <= send_num THEN a ELSE ack

(* recv takes b more bytes of the stream.  A completed 4-byte frame that is *)
(* aligned with the stream is an acknowledgement; one that is not is made   *)
(* of pieces of two of them and may read as any index, or as no             *)
(* acknowledgement at all.                                                  *)
Recv(b) ==
    LET aligned == recv_len = off
        whole   == recv_len + b = AckLen
    IN  /\ pc = "select" /\ link # "none" /\ back # <<>>
        /\ b <= AckLen * Len(back) - off
        /\ SplitAcks \/ whole
        /\ recv_len' = IF whole THEN 0 ELSE recv_len + b
        /\ IF off + b >= AckLen
           THEN off' = off + b - AckLen /\ back' = Tail(back)
           ELSE off' = off + b /\ back' = back
        /\ \/ whole /\ aligned /\ ack' = cdr_update_ack(Head(back).idx)
           \/ whole /\ ~aligned /\ \E a \in Index : ack' = cdr_update_ack(a)
           \/ ~whole /\ ack' = ack
        /\ pc' = "send"
        /\ UNCHANGED <<ring, send, wait, inserted, frame,
                       link, out, got, flagVars>>

RecvSome == \E b \in 1 .. AckLen - recv_len : Recv(b)

RecvEof ==
    /\ pc = "select" /\ link = "cut" /\ back = <<>>
    /\ Close
    /\ pc' = "top"
    /\ UNCHANGED <<frame, recv_len, ringVars, flagVars>>

(* The part of cdr_send under the lock: a run of records that does not      *)
(* cross the end of cdr_buf, at most Batch of them.                         *)
batch_size(s, w) ==
    LET avail == IF s > w THEN N - s ELSE w - s
    IN  IF avail > Batch THEN Batch ELSE avail

cdr_send ==
    /\ pc = "send"
    /\ IF send = wait
       THEN pc' = "top" /\ UNCHANGED <<send, frame>>
       ELSE LET num == batch_size(send, wait)
            IN  /\ frame' = [idx |-> send,
                             recs |-> [j \in 1 .. num |-> ring[send + j - 1]]]
                /\ send' = UAdd(send, num)
                /\ pc' = "write"
    /\ UNCHANGED <<ring, ack, wait, inserted, recv_len, netVars, flagVars>>

(* sock_send_buf of the header and of the records, when the socket buffer   *)
(* has room for them (on a dead link too, where nobody takes them out).     *)
WriteOk ==
    /\ pc = "write" /\ Len(out) < SockFrames
    /\ out' = Append(out, frame)
    /\ frame' = NoFrame
    /\ pc' = "top"
    /\ UNCHANGED <<recv_len, link, back, off, got, ringVars, flagVars>>

(* Timed out (SO_SNDTIMEO), reset, or only partly written. *)
WriteFail ==
    /\ pc = "write"
    /\ \/ link = "cut" /\ faults' = faults
       \/ link = "up" /\ faults < MaxFaults /\ faults' = faults + 1
    /\ Close
    /\ frame' = NoFrame
    /\ pc' = "top"
    /\ UNCHANGED <<recv_len, ringVars, svm_cdr_reload, done>>

-----------------------------------------------------------------------------
(* The other threads' flags, the network and the CDR server *)

RequestReload ==
    /\ faults < MaxFaults /\ faults' = faults + 1
    /\ svm_cdr_reload' = TRUE
    /\ UNCHANGED <<done, ringVars, threadVars, netVars>>

SetDone ==
    /\ ~done /\ done' = TRUE
    /\ UNCHANGED <<svm_cdr_reload, faults, ringVars, threadVars, netVars>>

CutLink ==
    /\ link = "up" /\ faults < MaxFaults /\ faults' = faults + 1
    /\ link' = "cut"
    /\ UNCHANGED <<out, back, off, got, ringVars, threadVars, svm_cdr_reload, done>>

(* The server stores a message's records and acknowledges its last index. *)
ServerRecv ==
    /\ link = "up" /\ out # <<>>
    /\ LET f == Head(out)
       IN  /\ got' = got \cup {f.recs[j] : j \in 1 .. Len(f.recs)}
           /\ back' = Append(back, [idx |-> UAdd(f.idx, Len(f.recs) - 1),
                                    rec |-> f.recs[Len(f.recs)]])
    /\ out' = Tail(out)
    /\ UNCHANGED <<link, off, ringVars, threadVars, flagVars>>

-----------------------------------------------------------------------------
Thread ==
    \/ cdr_init \/ Exit \/ Reload \/ LoopTop \/ ConnectFail \/ connect2cdr
    \/ cdr_reset_send \/ SelectTimeout \/ RecvSome \/ RecvEof
    \/ cdr_send \/ WriteOk \/ WriteFail

Environment == cdr_insert \/ RequestReload \/ SetDone \/ CutLink \/ ServerRecv

Next == Thread \/ Environment

Spec == Init /\ [][Next]_vars

(* The thread is scheduled, a server that is tried again and again accepts, *)
(* it reads what it is sent, and TCP notices a dead link in the end.        *)
Fairness ==
    /\ WF_vars(Thread) /\ SF_vars(connect2cdr) /\ SF_vars(RecvEof)
    /\ WF_vars(ServerRecv)

FairSpec == Spec /\ Fairness
-----------------------------------------------------------------------------
(* The window the three indices stand for, as positions in the sequence of  *)
(* all records.                                                             *)
pending == USub(USub(wait, ack), 1)
unsent  == USub(wait, send)
ready   == pc # "init"

acked == inserted - pending
sent  == inserted - unsent

(* The marks never pass each other on the ring: reading forward from ack,   *)
(* send comes strictly after it and no later than wait, whatever overflow,  *)
(* reset or acknowledgement (even a misread one) moved them, so cdr_send    *)
(* never sends an empty slot and an acknowledgement never uncovers one.     *)
WindowOrder == ready => unsent <= pending /\ pending <= inserted

(* Every record that is neither acknowledged nor pushed out is in its slot  *)
(* unharmed: cdr_insert only ever overwrites a slot behind ack.             *)
WindowIntact ==
    ready => \A j \in 1 .. N - 1 :
        j <= pending => ring[UAdd(ack, j)] = acked + j

Carries(msg, k) == \E j \in 1 .. Len(msg.recs) : msg.recs[j] = k

(* The send mark skips nothing: while there is a connection, every record of *)
(* the window that the mark has passed is with the server, in a message in   *)
(* the socket or in the one about to be written.  A message that was lost    *)
(* with an old connection, or written only in part, is sent again because    *)
(* cdr_reset_send comes before the first cdr_send of the new one.            *)
NoneSkipped ==
    link # "none" /\ pc # "reset" =>
        \A k \in (acked + 1) .. sent :
            \/ k \in got
            \/ \E i \in 1 .. Len(out) : Carries(out[i], k)
            \/ pc = "write" /\ Carries(frame, k)

(* Without a push, records leave the window only because the server has      *)
(* them: cdr_update_ack does not take the late acknowledgement of a slot     *)
(* that was pushed out and reused for one of the newer record.  This needs   *)
(* the acknowledgement to be read in step with the stream (recv_len is not   *)
(* reset by a reconnect) and to be less than N records behind the send mark. *)
Trusted == back # <<>> /\ recv_len = off /\ sent - Head(back).rec < N

AckedWereReceived ==
    [][ready /\ inserted' = inserted /\ acked' # acked /\ Trusted
        => acked' > acked /\ (acked + 1) .. acked' \subseteq got]_vars

(* The ring implements the window without wrap-around. *)
Window == INSTANCE CdrWindow WITH
    Cap   <- N - 1,
    total <- IF ready THEN inserted ELSE 0,
    acked <- IF ready THEN acked ELSE 0,
    sent  <- IF ready THEN sent ELSE 0

RefinesWindow == Window!Spec

(* Every record inserted while the system runs is acknowledged or pushed    *)
(* out in the end, through finitely many failures and reloads, unless half  *)
(* an acknowledgement survives a reconnect: then the stream is read out of  *)
(* step and no acknowledgement is understood any more.                      *)
EventuallyAcked ==
    \A k \in 1 .. MaxInserts :
        (ready /\ inserted >= k) ~> (done \/ acked >= k \/ recv_len # off)
=============================================================================
