----------------------------- MODULE FaxDispatch -----------------------------
(***************************************************************************)
(* The second half of fax_pre (fax_decode.c): a call that was found to be  *)
(* a fax is sent to the next fax server that takes it.  The threads share  *)
(* the table fax_infos without a lock; each has its own cursor m.  A       *)
(* reload of svm.yaml (conn_ma, conf.c) fills r_fax_infos, and the thread  *)
(* that sees svm_fax_reload copies it over.                                *)
(*                                                                         *)
(* An address is an ip, a sequence of letters as its length matters, and a *)
(* port.  Copying one entry is one step, between closing its descriptor    *)
(* and the next entry.  The kernel's descriptors and the fax servers are   *)
(* external: a connect or a send may succeed or fail at any time.          *)
(***************************************************************************)
EXTENDS Integers, Sequences, SequencesExt, FiniteSets

CONSTANTS
    Threads,    \* fax_pre threads, by creation order (0 .. 3 in the code)
    MaxFax,     \* FAX_NUM_MAX
    Configs,    \* the lists of fax servers svm.yaml may have
    Fds,        \* descriptors of the process
    MaxFaxes,   \* bound: faxes to send
    MaxReloads, \* bound: reloads of svm.yaml
    MaxStatus   \* bound: status messages of the management agent

ASSUME FaxAssumption ==
    /\ Threads \subseteq 0 .. 3 /\ MaxFax \in Nat \ {0} /\ Fds \subseteq Nat \ {0}
    /\ \A c \in Configs : Len(c) <= MaxFax

VARIABLES
    fax_infos, fax_num,         \* the table in use
    r_fax_infos, r_fax_num,     \* the table a reload fills (its fd and flag are never read)
    svm_fax_reload,
    flag,                       \* per thread: is its number 1, so that it reconnects?
    pc, m, tmp_m,               \* per thread: place, cursor, first entry of the round
    i, min,                     \* per thread: locals of the reload block
    addr,                       \* per thread: address cconnect was called with
    conf, todo,                 \* conn_ma: place, servers still to fill in
    peer,                       \* external: what each descriptor is connected to
    faxes, reloads, statuses,   \* counts up to the bounds
    listed,     \* history: the list of the last reload
    mixed,      \* history: a reload met another one at the tables
    raced,      \* history: two threads closed one entry, or a reload changed an
                \* entry during its connect
    off,        \* history: per thread, a reload cut the list before its cursor
    tried, calm \* history: per thread, entries of this round; no reload in it

confVars == <<conf, todo, reloads, listed>>
bounds   == <<faxes, statuses>>
hist     == <<off, tried, calm>>
mixes    == <<mixed, raced>>
vars == <<fax_infos, fax_num, r_fax_infos, r_fax_num, svm_fax_reload, flag, pc, m, tmp_m,
          i, min, addr, peer, mixes, confVars, bounds, hist>>

Entries == 0 .. MaxFax - 1
NoAddr  == [ip |-> <<>>, port |-> 0]
NoServer == [id |-> 0, ip |-> <<>>, port |-> 0]
Blank   == [id |-> 0, ip |-> <<>>, port |-> 0, fd |-> -1, flag |-> 0]
Free    == [use |-> "free", to |-> NoAddr]
FaxConn(a) == [use |-> "fax", to |-> a]
InBlock == {"copy", "set", "tail", "zero", "leave"}
PCs     == {"idle", "top", "look", "conn", "send", "close", "store", "next", "giveup", "sent", "wild"}
               \cup InBlock

Addr(e) == [ip |-> e.ip, port |-> e.port]

Letters == UNION {UNION {ToSet(c[k].ip) : k \in DOMAIN c} : c \in Configs}
Ports   == {0} \cup UNION {{c[k].port : k \in DOMAIN c} : c \in Configs}

Server == [id : Nat, ip : Seq(Letters), port : Ports]
ASSUME ConfigsAssumption == Configs # {} /\ Configs \subseteq Seq(Server)

Entry  == [id : Nat, ip : Seq(Letters), port : Ports, fd : Fds \cup {-1}, flag : {0, 1}]

(* A thread looks at fax_infos only inside the array, or has gone wild. *)
TypeOK ==
    /\ fax_infos \in [Entries -> Entry] /\ r_fax_infos \in [Entries -> Server]
    /\ fax_num \in 0 .. MaxFax /\ r_fax_num \in 0 .. MaxFax
    /\ svm_fax_reload \in BOOLEAN /\ flag \in [Threads -> BOOLEAN]
    /\ pc \in [Threads -> PCs] /\ tmp_m \in [Threads -> 0 .. MaxFax]
    /\ m \in [Threads -> 0 .. MaxFax]
    /\ \A t \in Threads : m[t] = MaxFax => off[t] \/ pc[t] = "idle"
    /\ i \in [Threads -> 0 .. MaxFax] /\ min \in [Threads -> 0 .. MaxFax]
    /\ addr \in [Threads -> [ip : Seq(Letters), port : Ports]]
    /\ conf \in {"idle", "fill"}
    /\ peer \in [Fds -> [use : {"free", "fax"}, to : [ip : Seq(Letters), port : Ports]]]
    /\ off \in [Threads -> BOOLEAN] /\ calm \in [Threads -> BOOLEAN]
    /\ tried \in [Threads -> SUBSET Entries] /\ mixed \in BOOLEAN /\ raced \in BOOLEAN

-----------------------------------------------------------------------------
(* Descriptors (external): open takes the smallest free one, or fails. *)
FreeFds(p) == {f \in Fds : p[f] = Free}
Lowest(p)  == CHOOSE f \in FreeFds(p) : \A g \in FreeFds(p) : f <= g

CloseFd(f) == peer' = IF f \in Fds THEN [peer EXCEPT ![f] = Free] ELSE peer

(* get_fax_ip_port: the table at the start. *)
Loaded(c) ==
    [k \in Entries |->
        IF k < Len(c)
        THEN [id |-> c[k + 1].id, ip |-> c[k + 1].ip, port |-> c[k + 1].port, fd |-> -1, flag |-> 1]
        ELSE Blank]

(* The entries ok opened one after the other, each with the smallest         *)
(* descriptor left.                                                          *)
Opened(ok) ==
    {fdOf \in [ok -> Fds] :
        \A k \in ok : /\ \A j \in ok : j < k => fdOf[j] < fdOf[k]
                      /\ \A f \in Fds : f < fdOf[k] => \E j \in ok : fdOf[j] = f}

(* get_fax_ip_port, then init_connect over the table, where a connect may    *)
(* fail.                                                                     *)
Init ==
    /\ \E c \in Configs :
          /\ fax_num = Len(c) /\ listed = c
          /\ \E ok \in SUBSET (0 .. Len(c) - 1) : \E fdOf \in Opened(ok) :
                /\ fax_infos = [k \in Entries |->
                                   [Loaded(c)[k] EXCEPT !.fd = IF k \in ok THEN fdOf[k] ELSE -1]]
                /\ peer = [f \in Fds |->
                              IF \E k \in ok : fdOf[k] = f
                              THEN FaxConn(Addr(Loaded(c)[CHOOSE k \in ok : fdOf[k] = f])) ELSE Free]
    /\ r_fax_infos = [k \in Entries |-> NoServer] /\ r_fax_num = 0 /\ svm_fax_reload = FALSE
    (* main sets queue.flag = i, starts thread i and goes on 5 ms later: the   *)
    (* thread may read its own number or a later one.                          *)
    /\ \E v \in [Threads -> 0 .. 3] :
          (\A t \in Threads : v[t] >= t) /\ flag = [t \in Threads |-> v[t] = 1]
    /\ pc = [t \in Threads |-> "idle"] /\ m = [t \in Threads |-> 0]
    /\ tmp_m = [t \in Threads |-> 0] /\ i = [t \in Threads |-> 0]
    /\ min = [t \in Threads |-> 0] /\ addr = [t \in Threads |-> NoAddr]
    /\ conf = "idle" /\ todo = <<>> /\ reloads = 0
    /\ faxes = 0 /\ statuses = 0
    /\ mixed = FALSE /\ raced = FALSE /\ off = [t \in Threads |-> FALSE]
    /\ tried = [t \in Threads |-> {}] /\ calm = [t \in Threads |-> TRUE]

Goto(t, l) == pc' = [pc EXCEPT ![t] = l]

-----------------------------------------------------------------------------
(* fax_pre *)

from_zero_StartRound(t) ==
    /\ pc[t] = "idle" /\ faxes < MaxFaxes
    /\ faxes' = faxes + 1
    /\ tmp_m' = [tmp_m EXCEPT ![t] = 0]
    /\ off' = [off EXCEPT ![t] = m[t] >= fax_num]
    /\ tried' = [tried EXCEPT ![t] = {}] /\ calm' = [calm EXCEPT ![t] = TRUE]
    /\ Goto(t, "top")
    /\ UNCHANGED <<fax_infos, fax_num, r_fax_infos, r_fax_num, svm_fax_reload, flag, m,
                   i, min, addr, peer, mixes, statuses, confVars>>

(* callflag = 1: the round begins at the cursor. *)
StartRound(t) ==
    /\ pc[t] = "idle" /\ faxes < MaxFaxes
    /\ faxes' = faxes + 1
    /\ tmp_m' = [tmp_m EXCEPT ![t] = m[t]]
    /\ off' = [off EXCEPT ![t] = m[t] >= fax_num]
    /\ tried' = [tried EXCEPT ![t] = {}] /\ calm' = [calm EXCEPT ![t] = TRUE]
    /\ Goto(t, "top")
    /\ UNCHANGED <<fax_infos, fax_num, r_fax_infos, r_fax_num, svm_fax_reload, flag, m,
                   i, min, addr, peer, mixes, statuses, confVars>>

Smaller(a, b) == IF a < b THEN a ELSE b

(* Every turn of the loop first looks for a reload. *)
Top(t) ==
    /\ pc[t] = "top"
    /\ IF svm_fax_reload
       THEN /\ Goto(t, "copy")
            /\ i' = [i EXCEPT ![t] = 0]
            /\ min' = [min EXCEPT ![t] = Smaller(fax_num, r_fax_num)]
            /\ mixed' = (mixed \/ \E u \in Threads : pc[u] \in InBlock)
       ELSE Goto(t, "look") /\ UNCHANGED <<i, min, mixed>>
    /\ UNCHANGED <<fax_infos, fax_num, r_fax_infos, r_fax_num, svm_fax_reload, flag, m, tmp_m,
                   addr, peer, raced, confVars, bounds, hist>>

(* memcpy of strlen bytes: what is longer in the old string stays. *)
Overwrite(old, new) == new \o SubSeq(old, Len(new) + 1, Len(old))

(* memcmp over the length of the new ip, and the port. *)
Differs(old, new) == ~IsPrefix(new.ip, old.ip) \/ old.port # new.port

(* Thread t has closed the descriptor of entry k and not yet stored -1. *)
Gap(t, k) == (pc[t] = "store" /\ m[t] = k) \/ (pc[t] = "set" /\ i[t] = k)

CloseEntry(k) ==
    /\ CloseFd(fax_infos[k].fd)
    /\ raced' = (raced \/ \E u \in Threads : Gap(u, k))

(* Entry i: an unchanged one is passed over, a changed one is closed first. *)
CopyEntry(t) ==
    /\ pc[t] = "copy"
    /\ LET k == i[t]
       IN  \/ /\ k >= min[t]
              /\ Goto(t, "tail") /\ UNCHANGED <<i, peer, raced>>
           \/ /\ k < min[t] /\ ~Differs(fax_infos[k], r_fax_infos[k])
              /\ i' = [i EXCEPT ![t] = k + 1] /\ UNCHANGED <<pc, peer, raced>>
           \/ /\ k < min[t] /\ Differs(fax_infos[k], r_fax_infos[k])
              /\ CloseEntry(k)
              /\ Goto(t, "set") /\ UNCHANGED i
    /\ UNCHANGED <<fax_infos, fax_num, r_fax_infos, r_fax_num, svm_fax_reload, flag, m, tmp_m,
                   min, addr, mixed, confVars, bounds, hist>>

keep_port_Copied(old, new) == [old EXCEPT !.ip = Overwrite(old.ip, new.ip), !.fd = -1, !.flag = 1]

(* The id is not copied. *)
Copied(old, new) ==
    [old EXCEPT !.ip = Overwrite(old.ip, new.ip), !.port = new.port, !.fd = -1, !.flag = 1]

SetEntry(t) ==
    /\ pc[t] = "set"
    /\ fax_infos' = [fax_infos EXCEPT ![i[t]] = Copied(@, r_fax_infos[i[t]])]
    /\ i' = [i EXCEPT ![t] = @ + 1]
    /\ Goto(t, "copy")
    /\ UNCHANGED <<fax_num, r_fax_infos, r_fax_num, svm_fax_reload, flag, m, tmp_m,
                   min, addr, peer, mixes, confVars, bounds, hist>>

(* The entries that are gone are cleared, their descriptors left open; the   *)
(* new ones are appended.                                                    *)
CopyTail(t) ==
    /\ pc[t] = "tail"
    /\ fax_infos' =
          [k \in Entries |->
              CASE r_fax_num < fax_num /\ k \in min[t] .. fax_num - 1 -> Blank
                [] r_fax_num >= fax_num /\ k \in min[t] .. r_fax_num - 1 ->
                       [Copied(fax_infos[k], r_fax_infos[k]) EXCEPT !.id = r_fax_infos[k].id]
                [] OTHER -> fax_infos[k]]
    /\ Goto(t, "zero")
    /\ UNCHANGED <<fax_num, r_fax_infos, r_fax_num, svm_fax_reload, flag, m, tmp_m,
                   i, min, addr, peer, mixes, confVars, bounds, hist>>

ZeroReload(t) ==
    /\ pc[t] = "zero"
    /\ r_fax_infos' = [k \in Entries |-> IF k < r_fax_num THEN NoServer ELSE r_fax_infos[k]]
    /\ Goto(t, "leave")
    /\ UNCHANGED <<fax_infos, fax_num, r_fax_num, svm_fax_reload, flag, m, tmp_m,
                   i, min, addr, peer, mixes, confVars, bounds, hist>>

LeaveBlock(t) ==
    /\ pc[t] = "leave"
    /\ fax_num' = r_fax_num /\ svm_fax_reload' = FALSE
    /\ off' = [u \in Threads |-> off[u] \/ (pc[u] # "idle" /\ (m[u] >= r_fax_num \/ tmp_m[u] >= r_fax_num))]
    /\ calm' = [u \in Threads |-> FALSE]
    /\ i' = [i EXCEPT ![t] = 0] /\ min' = [min EXCEPT ![t] = 0]
    /\ Goto(t, "look")
    /\ UNCHANGED <<fax_infos, r_fax_infos, r_fax_num, flag, m, tmp_m,
                   addr, peer, mixes, tried, confVars, bounds>>

(* Entry m: closed ones are skipped; one without a connection is connected   *)
(* by the thread with number 1 and skipped by the others.  Behind the array  *)
(* the thread reads what happens to lie there.                               *)
Look(t) ==
    /\ pc[t] = "look"
    /\ IF m[t] \notin Entries
       THEN Goto(t, "wild") /\ UNCHANGED <<addr, tried>>
       ELSE LET e == fax_infos[m[t]]
            IN  /\ tried' = [tried EXCEPT ![t] = @ \cup {m[t]}]
                /\ \/ e.flag = 1 /\ e.fd = -1 /\ flag[t]
                      /\ Goto(t, "conn") /\ addr' = [addr EXCEPT ![t] = Addr(e)]
                   \/ e.flag = 1 /\ e.fd > 0
                      /\ Goto(t, "send") /\ UNCHANGED addr
                   \/ (e.flag # 1 \/ (e.fd = -1 /\ ~flag[t]))
                      /\ Goto(t, "next") /\ UNCHANGED addr
    /\ UNCHANGED <<fax_infos, fax_num, r_fax_infos, r_fax_num, svm_fax_reload, flag, m, tmp_m,
                   i, min, peer, mixes, confVars, bounds, off, calm>>

(* cconnect returns; meanwhile a reload may have given the entry to another   *)
(* server.                                                                    *)
Connected(t) ==
    /\ pc[t] = "conn"
    /\ \/ /\ fax_infos' = [fax_infos EXCEPT ![m[t]].fd = -1]
          /\ Goto(t, "next") /\ peer' = peer
       \/ /\ FreeFds(peer) # {}
          /\ fax_infos' = [fax_infos EXCEPT ![m[t]].fd = Lowest(peer)]
          /\ peer' = [peer EXCEPT ![Lowest(peer)] = FaxConn(addr[t])]
          /\ Goto(t, "send")
    /\ addr' = [addr EXCEPT ![t] = NoAddr]
    /\ raced' = (raced \/ Addr(fax_infos[m[t]]) # addr[t])
    /\ UNCHANGED <<fax_num, r_fax_infos, r_fax_num, svm_fax_reload, flag, m, tmp_m,
                   i, min, mixed, confVars, bounds, hist>>

(* send succeeds or fails; by now the entry may have lost its descriptor. *)
Send(t) ==
    /\ pc[t] = "send"
    /\ LET f == fax_infos[m[t]].fd
       IN  \/ f > 0 /\ peer[f] # Free /\ Goto(t, "sent")
           \/ f > 0 /\ Goto(t, "close")
           \/ f = -1 /\ Goto(t, "next")
    /\ UNCHANGED <<fax_infos, fax_num, r_fax_infos, r_fax_num, svm_fax_reload, flag, m, tmp_m,
                   i, min, addr, peer, mixes, confVars, bounds, hist>>

CloseFailed(t) ==
    /\ pc[t] = "close"
    /\ CloseEntry(m[t])
    /\ Goto(t, "store")
    /\ UNCHANGED <<fax_infos, fax_num, r_fax_infos, r_fax_num, svm_fax_reload, flag, m, tmp_m,
                   i, min, addr, mixed, confVars, bounds, hist>>

keep_fd_StoreClosed(t) ==
    /\ pc[t] = "store"
    /\ Goto(t, "next")
    /\ UNCHANGED <<fax_infos, fax_num, r_fax_infos, r_fax_num, svm_fax_reload, flag, m, tmp_m,
                   i, min, addr, peer, mixes, confVars, bounds, hist>>

StoreClosed(t) ==
    /\ pc[t] = "store"
    /\ fax_infos' = [fax_infos EXCEPT ![m[t]].fd = -1]
    /\ Goto(t, "next")
    /\ UNCHANGED <<fax_num, r_fax_infos, r_fax_num, svm_fax_reload, flag, m, tmp_m,
                   i, min, addr, peer, mixes, confVars, bounds, hist>>

no_wrap(k) == k + 1

wrapped(k) == IF k + 1 = fax_num THEN 0 ELSE k + 1

no_end_NextServer(t) ==
    /\ pc[t] = "next"
    /\ m' = [m EXCEPT ![t] = wrapped(@)]
    /\ Goto(t, "top")
    /\ UNCHANGED <<fax_infos, fax_num, r_fax_infos, r_fax_num, svm_fax_reload, flag, tmp_m,
                   i, min, addr, peer, mixes, confVars, bounds, hist>>

(* The next server, or the end of the round. *)
NextServer(t) ==
    /\ pc[t] = "next"
    /\ m' = [m EXCEPT ![t] = wrapped(@)]
    /\ Goto(t, IF wrapped(m[t]) = tmp_m[t] THEN "giveup" ELSE "top")
    /\ UNCHANGED <<fax_infos, fax_num, r_fax_infos, r_fax_num, svm_fax_reload, flag, tmp_m,
                   i, min, addr, peer, mixes, confVars, bounds, hist>>

(* The next fax begins at the next server; the node goes back to the pool. *)
EndRound(t) ==
    /\ pc[t] \in {"giveup", "sent"}
    /\ m' = [m EXCEPT ![t] = wrapped(@)]
    /\ tmp_m' = [tmp_m EXCEPT ![t] = 0]
    /\ off' = [off EXCEPT ![t] = FALSE]
    /\ tried' = [tried EXCEPT ![t] = {}] /\ calm' = [calm EXCEPT ![t] = TRUE]
    /\ Goto(t, "idle")
    /\ UNCHANGED <<fax_infos, fax_num, r_fax_infos, r_fax_num, svm_fax_reload, flag,
                   i, min, addr, peer, mixes, confVars, bounds>>

-----------------------------------------------------------------------------
(* conn_ma: reload_fax_ip_port and ma_cmd_software_status *)

ReloadBegin ==
    /\ conf = "idle" /\ reloads < MaxReloads /\ reloads' = reloads + 1
    /\ r_fax_infos' = [k \in Entries |-> NoServer] /\ r_fax_num' = 0
    /\ mixed' = (mixed \/ svm_fax_reload \/ \E u \in Threads : pc[u] \in InBlock)
    /\ \/ /\ \E c \in Configs : todo' = c /\ listed' = c
          /\ conf' = "fill"
       \/ UNCHANGED <<conf, todo, listed>>        \* no "fax" in svm.yaml
    /\ UNCHANGED <<fax_infos, fax_num, svm_fax_reload, flag, pc, m, tmp_m,
                   i, min, addr, peer, raced, bounds, hist>>

ReloadFill ==
    /\ conf = "fill" /\ todo # <<>>
    /\ r_fax_infos' = [r_fax_infos EXCEPT ![r_fax_num] = Head(todo)]
    /\ r_fax_num' = r_fax_num + 1
    /\ todo' = Tail(todo)
    /\ UNCHANGED <<fax_infos, fax_num, svm_fax_reload, flag, pc, m, tmp_m,
                   i, min, addr, peer, mixes, conf, reloads, listed, bounds, hist>>

ReloadCompare ==
    /\ conf = "fill" /\ todo = <<>>
    /\ svm_fax_reload' =
          (svm_fax_reload \/ fax_num # r_fax_num
              \/ \E k \in 0 .. fax_num - 1 : Addr(fax_infos[k]) # Addr(r_fax_infos[k]))
    /\ conf' = "idle"
    /\ UNCHANGED <<fax_infos, fax_num, r_fax_infos, r_fax_num, flag, pc, m, tmp_m,
                   i, min, addr, peer, mixes, todo, reloads, listed, bounds, hist>>

(* Every entry in use with that id; id 0 is none. *)
change_fax_status(id, status) ==
    fax_infos' = [k \in Entries |->
                     IF id # 0 /\ k < fax_num /\ fax_infos[k].id = id
                     THEN [fax_infos[k] EXCEPT !.flag = status] ELSE fax_infos[k]]

(* A message about the state of a fax server; without an id it is about none. *)
ma_cmd_software_status ==
    /\ conf = "idle" /\ statuses < MaxStatus /\ statuses' = statuses + 1
    /\ \E id \in {fax_infos[k].id : k \in Entries} \cup {0}, status \in {0, 1} :
          change_fax_status(id, status)
    /\ UNCHANGED <<fax_num, r_fax_infos, r_fax_num, svm_fax_reload, flag, pc, m, tmp_m,
                   i, min, addr, peer, mixes, confVars, faxes, hist>>

-----------------------------------------------------------------------------
Block(t) == CopyEntry(t) \/ SetEntry(t) \/ CopyTail(t) \/ ZeroReload(t) \/ LeaveBlock(t)

Round(t) ==
    \/ Top(t) \/ Look(t) \/ Connected(t) \/ Send(t) \/ CloseFailed(t) \/ StoreClosed(t)
    \/ NextServer(t) \/ EndRound(t)

ConfStep == ReloadBegin \/ ReloadFill \/ ReloadCompare \/ ma_cmd_software_status

Next ==
    \/ \E t \in Threads : StartRound(t) \/ Block(t) \/ Round(t)
    \/ ConfStep

Spec == Init /\ [][Next]_vars

(* The fax threads run: SO_SNDTIMEO bounds connect and send. *)
Fairness == \A t \in Threads : WF_vars(Block(t) \/ Round(t))

FairSpec == Spec /\ Fairness
-----------------------------------------------------------------------------
(* The round over the servers ends, whatever fails and whoever reloads, and   *)
(* the node gets back to the pool, unless a reload left the list shorter than *)
(* the thread's cursor or the place its round began, or it was empty: then    *)
(* the thread goes round for ever or runs off the table.                      *)
RoundEnds ==
    \A t \in Threads : (pc[t] = "top") ~> (pc[t] = "idle" \/ off[t])

(* "traverse all fax service": a round that gives up with no reload in it has *)
(* looked at every server of the list.                                        *)
GiveUpTriedAll ==
    \A t \in Threads :
        pc[t] = "giveup" /\ calm[t] /\ ~off[t] => tried[t] = 0 .. fax_num - 1

(* A reload that met no other one at the tables is in force once its flag is  *)
(* down: as many servers as svm.yaml lists, in its order.  Of an ip that is   *)
(* shorter than the one it replaces only the front is right.                  *)
ReloadInstalled ==
    ~mixed /\ ~svm_fax_reload /\ conf = "idle" /\ (\A t \in Threads : pc[t] \notin InBlock)
        => /\ fax_num = Len(listed)
           /\ \A k \in DOMAIN listed :
                 /\ IsPrefix(listed[k].ip, fax_infos[k - 1].ip)
                 /\ fax_infos[k - 1].port = listed[k].port

(* A descriptor in the table is a connection to the server its entry names,   *)
(* or was closed by a thread that has not yet stored -1.  Exceptions: in that *)
(* gap another thread closes it once more, by then perhaps somebody else's;   *)
(* a reload changes the entry during its connect, which then leads to the old *)
(* server.                                                                    *)
FdNamesServer ==
    raced \/ \A k \in Entries :
        fax_infos[k].fd > 0 =>
            \/ peer[fax_infos[k].fd] = FaxConn(Addr(fax_infos[k]))
            \/ \E t \in Threads : Gap(t, k)
=============================================================================
