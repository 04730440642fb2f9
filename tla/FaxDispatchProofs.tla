------------------------- MODULE FaxDispatchProofs -------------------------
(***************************************************************************)
(* The invariants of the fax servers' table, for up to the code's four     *)
(* threads and any servers, descriptors, faxes, reloads and status         *)
(* messages.                                                               *)
(***************************************************************************)
EXTENDS FaxDispatch, SequenceTheorems, WellFoundedInduction, TLAPS

(* A thread in its round is inside the list, unless a reload cut it (off);   *)
(* only one that began behind the array can get behind it.                   *)
CursorInv ==
    \A t \in Threads :
        /\ pc[t] # "idle" /\ ~off[t] => m[t] < fax_num /\ tmp_m[t] < fax_num
        /\ pc[t] \in {"conn", "send", "close", "store", "next", "giveup", "sent"} => m[t] < MaxFax
        /\ pc[t] # "idle" /\ tmp_m[t] = MaxFax =>
               m[t] = MaxFax /\ pc[t] \in {"top", "look", "wild"} \cup InBlock
        /\ pc[t] = "set" => i[t] < min[t]

(* reload_fax_ip_port fills one entry for every server it still has. *)
FillInv ==
    /\ listed \in Configs
    /\ conf = "fill" => todo \in Seq(Server) /\ r_fax_num + Len(todo) = Len(listed)

TableInv == TypeOK /\ CursorInv /\ FillInv

(* The entries from a to b - 1 in the order of a round over n servers. *)
Passed(a, b, n) ==
    {k \in 0 .. n - 1 : IF a <= b THEN a <= k /\ k < b ELSE a <= k \/ k < b}

(* An undisturbed round has looked at the entries from its first one to the  *)
(* cursor.                                                                   *)
RoundInv ==
    \A t \in Threads : calm[t] /\ ~off[t] =>
        /\ pc[t] \in {"top", "look"} \cup InBlock => tried[t] = Passed(tmp_m[t], m[t], fax_num)
        /\ pc[t] \in {"conn", "send", "close", "store", "next"} =>
               tried[t] = Passed(tmp_m[t], m[t], fax_num) \cup {m[t]}
        /\ pc[t] = "giveup" => tried[t] = 0 .. fax_num - 1

InGap(k) == \E t \in Threads : Gap(t, k)

(* An entry whose descriptor no thread is about to give up has it for        *)
(* itself: entries that share it are all being given up.                     *)
FdInv ==
    \A k \in Entries : fax_infos[k].fd > 0 /\ ~InGap(k) =>
        /\ peer[fax_infos[k].fd] = FaxConn(Addr(fax_infos[k]))
        /\ \A l \in Entries : l # k /\ fax_infos[l].fd = fax_infos[k].fd => InGap(l)

(* Entry k is what the new svm.yaml says. *)
Matches(k) ==
    IsPrefix(listed[k + 1].ip, fax_infos[k].ip) /\ fax_infos[k].port = listed[k + 1].port

(* The first n entries of the table of the reload are those of svm.yaml. *)
Filled(n) == \A k \in 0 .. n - 1 : r_fax_infos[k] = listed[k + 1]

(* At most one thread is in the reload block, while the flag is up. *)
OneInBlock ==
    \A t \in Threads : pc[t] \in InBlock =>
        svm_fax_reload /\ \A u \in Threads : pc[u] \in InBlock => u = t

(* conn_ma fills the table with the flag down, and raises it over a full     *)
(* one, which stays so until its copy is zeroed.                             *)
FillPhase ==
    /\ conf = "fill" => /\ ~svm_fax_reload /\ Filled(r_fax_num)
                        /\ todo = SubSeq(listed, r_fax_num + 1, Len(listed))
    /\ svm_fax_reload => r_fax_num = Len(listed)
    /\ svm_fax_reload /\ (\A t \in Threads : pc[t] \notin {"zero", "leave"}) => Filled(r_fax_num)

(* What the block has copied so far. *)
CopyPhase ==
    \A t \in Threads :
        /\ pc[t] \in {"copy", "set", "tail"} => min[t] = Smaller(fax_num, r_fax_num)
        /\ pc[t] \in {"copy", "set"} => i[t] <= min[t] /\ \A k \in 0 .. i[t] - 1 : Matches(k)
        /\ pc[t] = "tail" => \A k \in 0 .. min[t] - 1 : Matches(k)
        /\ pc[t] \in {"zero", "leave"} => \A k \in 0 .. Len(listed) - 1 : Matches(k)

(* Between reloads the table is the one of svm.yaml. *)
Settled ==
    ~svm_fax_reload /\ conf = "idle" =>
        fax_num = Len(listed) /\ \A k \in 0 .. fax_num - 1 : Matches(k)

(* A reload that met no other one, phase by phase. *)
ReloadInv == ~mixed => OneInBlock /\ FillPhase /\ CopyPhase /\ Settled

-----------------------------------------------------------------------------
(* Operators of the table. *)

(* memcpy over the old ip gives an ip that begins with the new one. *)
LEMMA OverwriteSeq ==
    ASSUME NEW S, NEW old \in Seq(S), NEW new \in Seq(S)
    PROVE  /\ Overwrite(old, new) \in Seq(S)
           /\ IsPrefix(new, Overwrite(old, new))
<1>1. SubSeq(old, Len(new) + 1, Len(old)) \in Seq(S)
  BY SubSeqProperties
<1>2. SubSeq(new \o SubSeq(old, Len(new) + 1, Len(old)), 1, Len(new)) = new
  BY <1>1, SubSeqOfConcat1
<1>3. SubSeq(new, 1, Len(new)) = new
  BY SubSeqFull
<1> QED
  BY <1>1, <1>2, <1>3, ConcatProperties DEF Overwrite, IsPrefix

(* The address of a server, or of an entry, is an address. *)
LEMMA AddrTyped ==
    ASSUME NEW e, e \in Entry \/ e \in Server
    PROVE  Addr(e) \in [ip : Seq(Letters), port : Ports]
  BY DEF Addr, Entry, Server

(* A copied entry has the port of the new one, an ip that begins with the    *)
(* new one, and no descriptor.                                               *)
LEMMA CopiedEntry ==
    ASSUME NEW old \in Entry, NEW new \in Server
    PROVE  /\ Copied(old, new) \in Entry
           /\ [Copied(old, new) EXCEPT !.id = new.id] \in Entry
           /\ Copied(old, new).fd = -1 /\ Copied(old, new).port = new.port
           /\ IsPrefix(new.ip, Copied(old, new).ip)
<1>1. old.ip \in Seq(Letters) /\ new.ip \in Seq(Letters) /\ new.port \in Ports /\ new.id \in Nat
  BY DEF Entry, Server
<1>2. Overwrite(old.ip, new.ip) \in Seq(Letters) /\ IsPrefix(new.ip, Overwrite(old.ip, new.ip))
  BY <1>1, OverwriteSeq
<1> QED
  BY <1>1, <1>2 DEF Copied, Entry

(* The smallest free descriptor is one, if any is free. *)
LEMMA LowestFree ==
    ASSUME NEW p, FreeFds(p) # {}
    PROVE  Lowest(p) \in Fds /\ p[Lowest(p)] = Free
<1>1. FreeFds(p) \subseteq Nat
  BY FaxAssumption DEF FreeFds
<1> DEFINE R == OpToRel(<, Nat)
<1>2. \A x, y \in Nat : x < y => <<x, y>> \in R
  BY Zenon DEF OpToRel
<1>3. IsWellFoundedOn(R, Nat)
  BY NatLessThanWellFounded
<1>. HIDE DEF R
<1>. PICK f \in FreeFds(p) : \A g \in FreeFds(p) : <<g, f>> \notin R
  BY <1>1, <1>3, WFMin
<1>4. \A g \in FreeFds(p) : ~(g < f)
  BY <1>1, <1>2, Zenon
<1>5. \A g \in FreeFds(p) : f <= g
  BY <1>1, <1>4, SMT
<1>6. Lowest(p) \in FreeFds(p)
  BY <1>5 DEF Lowest
<1> QED
  BY <1>6 DEF FreeFds

(* Rounds: the empty one, the next entry, the last entry. *)
LEMMA PassedRound ==
    \A n \in Nat : \A a, b \in 0 .. n - 1 :
        LET c == IF b + 1 = n THEN 0 ELSE b + 1
        IN  /\ Passed(a, a, n) = {}
            /\ c # a => Passed(a, c, n) = Passed(a, b, n) \cup {b}
            /\ c = a => Passed(a, b, n) \cup {b} = 0 .. n - 1
  BY DEF Passed

-----------------------------------------------------------------------------
(* Types, cursors, and the filling of the reload's table. *)

LEMMA Constants ==
    /\ MaxFax \in Nat \ {0} /\ Fds \subseteq Nat \ {0} /\ -1 \notin Fds
    /\ NoAddr \in [ip : Seq(Letters), port : Ports]
    /\ NoServer \in Server /\ Blank \in Entry
    /\ \A c \in Configs : c \in Seq(Server) /\ Len(c) \in 0 .. MaxFax
<1>1. <<>> \in Seq(Letters)
  BY EmptySeq
<1>2. 0 \in Ports
  BY Zenon DEF Ports
<1>3. MaxFax \in Nat \ {0} /\ Fds \subseteq Nat \ {0} /\ -1 \notin Fds
  BY FaxAssumption
<1>4. NoAddr \in [ip : Seq(Letters), port : Ports]
  BY <1>1, <1>2 DEF NoAddr
<1>5. NoServer \in Server
  BY <1>1, <1>2 DEF NoServer, Server
<1>6. Blank \in Entry
  BY <1>1, <1>2 DEF Blank, Entry
<1>7. ASSUME NEW c \in Configs PROVE c \in Seq(Server) /\ Len(c) \in 0 .. MaxFax
  <2>1. c \in Seq(Server) /\ Len(c) <= MaxFax
    BY FaxAssumption, ConfigsAssumption, Zenon
  <2> QED
    BY <2>1, <1>3
<1> QED
  BY <1>3, <1>4, <1>5, <1>6, <1>7

LEMMA InitTable == Init => TableInv
<1> SUFFICES ASSUME Init PROVE TableInv
  OBVIOUS
<1> DEFINE Started(c, ok, fdOf) ==
              /\ fax_infos = [k \in Entries |->
                                [Loaded(c)[k] EXCEPT !.fd = IF k \in ok THEN fdOf[k] ELSE -1]]
              /\ peer = [f \in Fds |->
                           IF \E k \in ok : fdOf[k] = f
                           THEN FaxConn(Addr(Loaded(c)[CHOOSE k \in ok : fdOf[k] = f])) ELSE Free]
<1>0. \E c \in Configs :
         /\ fax_num = Len(c) /\ listed = c
         /\ \E ok \in SUBSET (0 .. Len(c) - 1) : \E fdOf \in Opened(ok) : Started(c, ok, fdOf)
  BY DEF Init
<1> HIDE DEF Started
<1>1. PICK c \in Configs :
         /\ fax_num = Len(c) /\ listed = c
         /\ \E ok \in SUBSET (0 .. Len(c) - 1) : \E fdOf \in Opened(ok) : Started(c, ok, fdOf)
  BY <1>0, Zenon
<1>2a. PICK ok \in SUBSET (0 .. Len(c) - 1) : \E fdOf \in Opened(ok) : Started(c, ok, fdOf)
  BY <1>1, Zenon
<1>2b. PICK fdOf \in Opened(ok) : Started(c, ok, fdOf)
  BY <1>2a, Zenon
<1>2. Started(c, ok, fdOf) /\ fax_num = Len(c) /\ listed = c
  BY <1>1, <1>2b, Zenon
<1> USE DEF Started
<1>3. c \in Seq(Server) /\ Len(c) \in 0 .. MaxFax
  BY Constants
<1>4. ASSUME NEW k \in Entries PROVE Loaded(c)[k] \in Entry
  <2>1. CASE k < Len(c)
    <3>1. c[k + 1] \in Server
      BY <1>3, <2>1, Constants DEF Entries
    <3> QED
      BY <2>1, <3>1 DEF Loaded, Server, Entry
  <2>2. CASE ~(k < Len(c))
    BY <2>2, Constants DEF Loaded
  <2> QED
    BY <2>1, <2>2
<1>5. fdOf \in [ok -> Fds]
  BY DEF Opened
<1>6. fax_infos \in [Entries -> Entry]
  BY <1>2, <1>4, <1>5 DEF Entry
<1>7. ok \subseteq Entries
  BY <1>3, Constants DEF Entries
<1>8. ASSUME NEW f \in Fds
      PROVE  peer[f] \in [use : {"free", "fax"}, to : [ip : Seq(Letters), port : Ports]]
  <2>1. CASE \E k \in ok : fdOf[k] = f
    <3>1. PICK k \in ok : peer[f] = FaxConn(Addr(Loaded(c)[k]))
      BY <1>2, <2>1
    <3> QED
      BY <3>1, <1>4, <1>7, AddrTyped DEF FaxConn
  <2>2. CASE ~\E k \in ok : fdOf[k] = f
    BY <1>2, <2>2, Constants DEF Free
  <2> QED
    BY <2>1, <2>2
<1>9. peer \in [Fds -> [use : {"free", "fax"}, to : [ip : Seq(Letters), port : Ports]]]
  BY <1>2, <1>8
<1>10. r_fax_infos \in [Entries -> Server] /\ addr \in [Threads -> [ip : Seq(Letters), port : Ports]]
  BY Constants DEF Init
<1>11. flag \in [Threads -> BOOLEAN]
  <2>1. PICK v \in [Threads -> 0 .. 3] : flag = [t \in Threads |-> v[t] = 1]
    BY DEF Init
  <2> QED
    BY <2>1
<1>12. TypeOK
  <2>1. svm_fax_reload \in BOOLEAN /\ mixed \in BOOLEAN /\ raced \in BOOLEAN
        /\ off \in [Threads -> BOOLEAN] /\ calm \in [Threads -> BOOLEAN]
        /\ tried \in [Threads -> SUBSET Entries]
    BY Zenon DEF Init
  <2>2. m \in [Threads -> 0 .. MaxFax] /\ tmp_m \in [Threads -> 0 .. MaxFax]
        /\ i \in [Threads -> 0 .. MaxFax] /\ min \in [Threads -> 0 .. MaxFax]
        /\ r_fax_num \in 0 .. MaxFax /\ fax_num \in 0 .. MaxFax
    BY Constants, <1>2, <1>3 DEF Init
  <2>3. pc \in [Threads -> PCs] /\ conf \in {"idle", "fill"}
        /\ \A t \in Threads : pc[t] = "idle"
    BY DEF Init, PCs
  <2> QED
    BY <2>1, <2>2, <2>3, <1>6, <1>9, <1>10, <1>11 DEF TypeOK
<1>13. CursorInv
  BY DEF Init, CursorInv
<1>14. FillInv
  BY <1>2 DEF Init, FillInv
<1> QED
  BY <1>12, <1>13, <1>14 DEF TableInv

(* A new descriptor or a new state of an entry. *)
LEMMA EntryChanged ==
    ASSUME NEW e \in Entry
    PROVE  /\ \A f \in Fds \cup {-1} : [e EXCEPT !.fd = f] \in Entry
           /\ \A s \in {0, 1} : [e EXCEPT !.flag = s] \in Entry
  BY DEF Entry

(* What a descriptor may lead to. *)
Peers == [use : {"free", "fax"}, to : [ip : Seq(Letters), port : Ports]]

LEMMA StepTable == TableInv /\ [Next]_vars => TableInv'
<1> SUFFICES ASSUME TableInv, [Next]_vars PROVE TableInv'
  OBVIOUS
<1>1. TypeOK /\ CursorInv /\ FillInv
  BY DEF TableInv
<1>2. ASSUME NEW t \in Threads, StartRound(t) PROVE TableInv'
  <2>1. /\ off' \in [Threads -> BOOLEAN] /\ calm' \in [Threads -> BOOLEAN]
        /\ off'[t] <=> m[t] >= fax_num
        /\ \A u \in Threads : u # t => off'[u] = off[u]
    <3>1. (m[t] >= fax_num) \in BOOLEAN
      OBVIOUS
    <3>2. PICK x \in BOOLEAN : x = (m[t] >= fax_num)
      BY <3>1, Zenon
    <3>3. off' = [off EXCEPT ![t] = x] /\ off \in [Threads -> BOOLEAN]
          /\ calm' = [calm EXCEPT ![t] = TRUE] /\ calm \in [Threads -> BOOLEAN]
      BY <1>1, <1>2, <3>2, Zenon DEF TypeOK, StartRound
    <3> QED
      BY <3>2, <3>3
  <2>2. TypeOK'
    BY <1>1, <1>2, <2>1, Constants, SMTT(20) DEF TypeOK, PCs, StartRound, Goto, confVars, bounds, hist, mixes
  <2>3. CursorInv'
    BY <1>1, <1>2, <2>1, Constants, SMTT(20) DEF TypeOK, CursorInv, InBlock, StartRound, Goto
  <2>4. FillInv'
    BY <1>1, <1>2 DEF FillInv, StartRound, confVars
  <2> QED
    BY <2>2, <2>3, <2>4 DEF TableInv
<1>3. ASSUME NEW t \in Threads, Top(t) PROVE TableInv'
  <2>1. mixed' \in BOOLEAN
    BY <1>1, <1>3, Zenon DEF TypeOK, Top
  <2>2. TypeOK'
    <3>1. CASE svm_fax_reload
      <4>1. Smaller(fax_num, r_fax_num) \in 0 .. MaxFax /\ 0 \in 0 .. MaxFax
        BY <1>1, Constants DEF TypeOK, Smaller
      <4>2. i' \in [Threads -> 0 .. MaxFax] /\ min' \in [Threads -> 0 .. MaxFax] /\ pc' \in [Threads -> PCs]
        <5>1. /\ i' = [i EXCEPT ![t] = 0] /\ min' = [min EXCEPT ![t] = Smaller(fax_num, r_fax_num)]
              /\ pc' = [pc EXCEPT ![t] = "copy"] /\ "copy" \in PCs
          BY <1>3, <3>1 DEF PCs, InBlock, Top, Goto
        <5>2. i \in [Threads -> 0 .. MaxFax] /\ min \in [Threads -> 0 .. MaxFax] /\ pc \in [Threads -> PCs]
          BY <1>1 DEF TypeOK
        <5> QED
          BY <4>1, <5>1, <5>2
      <4>3. \A u \in Threads : m[u] = MaxFax => off[u] \/ pc'[u] = "idle"
        BY <1>1, <1>3, <3>1 DEF TypeOK, Top, Goto
      <4> QED
        BY <1>1, <1>3, <2>1, <4>2, <4>3 DEF TypeOK, Top, confVars, bounds, hist, mixes
    <3>2. CASE ~svm_fax_reload
      BY <1>1, <1>3, <2>1, <3>2, Constants DEF TypeOK, PCs, InBlock, Top, Goto, confVars, bounds, hist, mixes
    <3> QED
      BY <3>1, <3>2
  <2>3. CursorInv'
    <3>1. CASE svm_fax_reload
      BY <1>1, <1>3, <3>1, Constants, SMTT(20) DEF TypeOK, CursorInv, InBlock, Top, Goto, confVars, bounds, hist, mixes
    <3>2. CASE ~svm_fax_reload
      BY <1>1, <1>3, <3>2, Constants DEF TypeOK, CursorInv, InBlock, Top, Goto, confVars, bounds, hist, mixes
    <3> QED
      BY <3>1, <3>2
  <2>4. FillInv'
    BY <1>1, <1>3 DEF FillInv, Top, confVars
  <2> QED
    BY <2>2, <2>3, <2>4 DEF TableInv
<1>4. ASSUME NEW t \in Threads, CopyEntry(t) PROVE TableInv'
  <2>1. peer' \in [Fds -> Peers] /\ raced' \in BOOLEAN
    <3>1. Free \in Peers
      BY Constants DEF Free, Peers
    <3>2. peer \in [Fds -> Peers] /\ raced \in BOOLEAN
      BY <1>1 DEF TypeOK, Peers
    <3>3. ASSUME NEW k, CloseEntry(k) PROVE peer' \in [Fds -> Peers] /\ raced' \in BOOLEAN
      <4>1. raced' \in BOOLEAN
        BY <3>2, <3>3, Zenon DEF CloseEntry
      <4> QED
        BY <3>1, <3>2, <3>3, <4>1 DEF CloseEntry, CloseFd
    <3> QED
      BY <1>4, <3>2, <3>3 DEF CopyEntry, confVars, bounds, hist, mixes
  <2>2. TypeOK'
    <3>1. i' \in [Threads -> 0 .. MaxFax]
      <4>1. i' = i \/ (i' = [i EXCEPT ![t] = i[t] + 1] /\ i[t] < min[t])
        BY <1>4 DEF CopyEntry
      <4>2. i \in [Threads -> 0 .. MaxFax] /\ min \in [Threads -> 0 .. MaxFax]
        BY <1>1 DEF TypeOK
      <4>3. i[t] < min[t] => i[t] + 1 \in 0 .. MaxFax
        BY <4>2, Constants
      <4> QED
        BY <4>1, <4>2, <4>3
    <3>2. pc' = pc \/ (\E l \in {"tail", "set"} : Goto(t, l))
      BY <1>4 DEF CopyEntry
    <3>3. pc' \in [Threads -> PCs] /\ \A u \in Threads : m[u] = MaxFax => off[u] \/ pc'[u] = "idle"
      BY <1>1, <1>4, <3>2 DEF TypeOK, PCs, InBlock, CopyEntry, Goto
    <3> QED
      BY <1>1, <1>4, <2>1, <3>1, <3>3 DEF TypeOK, Peers, CopyEntry, confVars, bounds, hist, mixes
  <2>3. CursorInv'
    BY <1>1, <1>4, Constants, SMTT(20) DEF TypeOK, CursorInv, InBlock, CopyEntry, Goto, confVars, bounds, hist, mixes
  <2>4. FillInv'
    BY <1>1, <1>4 DEF FillInv, CopyEntry, confVars
  <2> QED
    BY <2>2, <2>3, <2>4 DEF TableInv
<1>5. ASSUME NEW t \in Threads, SetEntry(t) PROVE TableInv'
  <2>1. fax_infos' \in [Entries -> Entry]
    <3>1. i[t] \in Entries
      BY <1>1, <1>5, Constants DEF TypeOK, CursorInv, Entries, SetEntry
    <3>2. Copied(fax_infos[i[t]], r_fax_infos[i[t]]) \in Entry
      BY <1>1, <3>1, CopiedEntry DEF TypeOK
    <3> QED
      BY <1>1, <1>5, <3>2 DEF TypeOK, SetEntry
  <2>2. TypeOK'
    BY <1>1, <1>5, <2>1, Constants, SMTT(20) DEF TypeOK, CursorInv, PCs, InBlock, SetEntry, Goto, confVars, bounds, hist, mixes
  <2>3. CursorInv'
    BY <1>1, <1>5, Constants DEF TypeOK, CursorInv, InBlock, SetEntry, Goto, confVars, bounds, hist, mixes
  <2>4. FillInv'
    BY <1>1, <1>5 DEF FillInv, SetEntry, confVars
  <2> QED
    BY <2>2, <2>3, <2>4 DEF TableInv
<1>6. ASSUME NEW t \in Threads, CopyTail(t) PROVE TableInv'
  <2>1. fax_infos' \in [Entries -> Entry]
    <3>1. \A k \in Entries : [Copied(fax_infos[k], r_fax_infos[k]) EXCEPT !.id = r_fax_infos[k].id] \in Entry
      BY <1>1, CopiedEntry DEF TypeOK
    <3> QED
      BY <1>1, <1>6, <3>1, Constants DEF TypeOK, CopyTail
  <2>2. TypeOK'
    BY <1>1, <1>6, <2>1, Constants DEF TypeOK, PCs, InBlock, CopyTail, Goto, confVars, bounds, hist, mixes
  <2>3. CursorInv'
    BY <1>1, <1>6, Constants DEF TypeOK, CursorInv, InBlock, CopyTail, Goto, confVars, bounds, hist, mixes
  <2>4. FillInv'
    BY <1>1, <1>6 DEF FillInv, CopyTail, confVars
  <2> QED
    BY <2>2, <2>3, <2>4 DEF TableInv
<1>7. ASSUME NEW t \in Threads, ZeroReload(t) PROVE TableInv'
  <2>1. TypeOK'
    BY <1>1, <1>7, Constants DEF TypeOK, CursorInv, PCs, InBlock, ZeroReload, Goto, confVars, bounds, hist, mixes
  <2>2. CursorInv'
    BY <1>1, <1>7, Constants DEF TypeOK, CursorInv, InBlock, ZeroReload, Goto, confVars, bounds, hist, mixes
  <2>3. FillInv'
    BY <1>1, <1>7, Constants DEF FillInv, ZeroReload, Goto, confVars, bounds, hist, mixes
  <2> QED
    BY <2>1, <2>2, <2>3 DEF TableInv
<1>8. ASSUME NEW t \in Threads, LeaveBlock(t) PROVE TableInv'
  <2>1. /\ off' \in [Threads -> BOOLEAN] /\ calm' \in [Threads -> BOOLEAN]
        /\ svm_fax_reload' \in BOOLEAN
        /\ \A u \in Threads :
              off'[u] <=> off[u] \/ (pc[u] # "idle" /\ (m[u] >= r_fax_num \/ tmp_m[u] >= r_fax_num))
    BY <1>1, <1>8, Zenon DEF TypeOK, LeaveBlock
  <2>2. TypeOK'
    BY <1>1, <1>8, <2>1, Constants, SMTT(20) DEF TypeOK, PCs, InBlock, LeaveBlock, Goto, confVars, bounds, hist, mixes
  <2>3. CursorInv'
    BY <1>1, <1>8, <2>1, Constants, SMTT(20) DEF TypeOK, CursorInv, InBlock, LeaveBlock, Goto
  <2>4. FillInv'
    BY <1>1, <1>8 DEF FillInv, LeaveBlock, confVars
  <2> QED
    BY <2>2, <2>3, <2>4 DEF TableInv
<1>9. ASSUME NEW t \in Threads, Look(t) PROVE TableInv'
  <2>1. tried' \in [Threads -> SUBSET Entries] /\ addr' \in [Threads -> [ip : Seq(Letters), port : Ports]]
    <3>1. CASE m[t] \in Entries
      <4>1. Addr(fax_infos[m[t]]) \in [ip : Seq(Letters), port : Ports]
        BY <1>1, <3>1, AddrTyped DEF TypeOK
      <4>2. /\ tried' = [tried EXCEPT ![t] = @ \cup {m[t]}]
            /\ addr' = addr \/ addr' = [addr EXCEPT ![t] = Addr(fax_infos[m[t]])]
        BY <1>9, <3>1 DEF Look
      <4>3. tried \in [Threads -> SUBSET Entries] /\ addr \in [Threads -> [ip : Seq(Letters), port : Ports]]
        BY <1>1 DEF TypeOK
      <4>4. tried' \in [Threads -> SUBSET Entries]
        BY <3>1, <4>2, <4>3
      <4> QED
        BY <4>1, <4>2, <4>3, <4>4
    <3>2. CASE m[t] \notin Entries
      BY <1>1, <1>9, <3>2 DEF TypeOK, Look
    <3> QED
      BY <3>1, <3>2
  <2>2. \E l \in {"wild", "conn", "send", "next"} : Goto(t, l) /\ (l # "wild" => m[t] \in Entries)
    BY <1>9 DEF Look
  <2>3. TypeOK'
    BY <1>1, <1>9, <2>1, <2>2, Constants, SMTT(20) DEF TypeOK, PCs, Look, Goto, confVars, bounds, hist, mixes
  <2>4. CursorInv'
    <3>1. UNCHANGED <<fax_num, m, tmp_m, i, min, off>>
      BY <1>9 DEF Look
    <3> QED
      BY <1>1, <1>9, <2>2, <3>1, Constants DEF TypeOK, CursorInv, Entries, InBlock, Look, Goto
  <2>5. FillInv'
    BY <1>1, <1>9 DEF FillInv, Look, confVars
  <2> QED
    BY <2>3, <2>4, <2>5 DEF TableInv
<1>10. ASSUME NEW t \in Threads, Connected(t) PROVE TableInv'
  <2>1. m[t] \in Entries
    BY <1>1, <1>10, Constants DEF TypeOK, CursorInv, Entries, Connected
  <2>2. fax_infos' \in [Entries -> Entry] /\ peer' \in [Fds -> Peers]
    <3>1. CASE fax_infos' = [fax_infos EXCEPT ![m[t]].fd = -1] /\ peer' = peer
      BY <1>1, <2>1, <3>1, EntryChanged DEF TypeOK, Peers
    <3>2. CASE /\ FreeFds(peer) # {}
               /\ fax_infos' = [fax_infos EXCEPT ![m[t]].fd = Lowest(peer)]
               /\ peer' = [peer EXCEPT ![Lowest(peer)] = FaxConn(addr[t])]
      <4>1. Lowest(peer) \in Fds
        BY <3>2, LowestFree
      <4>2. FaxConn(addr[t]) \in Peers
        BY <1>1 DEF TypeOK, FaxConn, Peers
      <4>3. [fax_infos[m[t]] EXCEPT !.fd = Lowest(peer)] \in Entry
        BY <1>1, <2>1, <4>1, EntryChanged DEF TypeOK
      <4>4. fax_infos' \in [Entries -> Entry]
        BY <1>1, <2>1, <3>2, <4>3 DEF TypeOK
      <4>5. peer' \in [Fds -> Peers]
        BY <1>1, <3>2, <4>1, <4>2 DEF TypeOK, Peers
      <4> QED
        BY <4>4, <4>5
    <3> QED
      BY <1>10, <3>1, <3>2 DEF Connected
  <2>3. raced' \in BOOLEAN
    BY <1>1, <1>10, Zenon DEF TypeOK, Connected
  <2>4. \E l \in {"next", "send"} : Goto(t, l)
    BY <1>10 DEF Connected
  <2>5. addr' \in [Threads -> [ip : Seq(Letters), port : Ports]]
    BY <1>1, <1>10, Constants DEF TypeOK, Connected
  <2>6. TypeOK'
    BY <1>1, <1>10, <2>2, <2>3, <2>4, <2>5, Constants DEF TypeOK, Peers, PCs, Connected, Goto, confVars, bounds, hist, mixes
  <2>7. CursorInv'
    BY <1>1, <1>10, <2>1, <2>4, Constants, SMTT(20) DEF TypeOK, CursorInv, InBlock, Connected, Goto, confVars, bounds, hist, mixes
  <2>8. FillInv'
    BY <1>1, <1>10 DEF FillInv, Connected, confVars
  <2> QED
    BY <2>6, <2>7, <2>8 DEF TableInv
<1>11. ASSUME NEW t \in Threads, Send(t) PROVE TableInv'
  <2>1. TypeOK'
    <3>1. PICK l \in {"sent", "close", "next"} : pc' = [pc EXCEPT ![t] = l]
      BY <1>11 DEF Send, Goto
    <3>2. pc' \in [Threads -> PCs] /\ \A u \in Threads : pc'[u] = "idle" <=> pc[u] = "idle" /\ u # t
      BY <1>1, <3>1 DEF TypeOK, PCs
    <3>3. m[t] # MaxFax \/ off[t]
      BY <1>1, <1>11 DEF TypeOK, Send
    <3> QED
      BY <1>1, <1>11, <3>2, <3>3 DEF TypeOK, Send, confVars, hist, mixes
  <2>2. CursorInv'
    BY <1>1, <1>11, Constants DEF TypeOK, CursorInv, InBlock, Send, Goto, confVars, bounds, hist, mixes
  <2>3. FillInv'
    BY <1>1, <1>11, Constants DEF FillInv, Send, Goto, confVars, bounds, hist, mixes
  <2> QED
    BY <2>1, <2>2, <2>3 DEF TableInv
<1>12. ASSUME NEW t \in Threads, CloseFailed(t) PROVE TableInv'
  <2>1. peer' \in [Fds -> Peers] /\ raced' \in BOOLEAN
    <3>1. Free \in Peers
      BY Constants DEF Free, Peers
    <3>2. peer \in [Fds -> Peers] /\ raced \in BOOLEAN
      BY <1>1 DEF TypeOK, Peers
    <3>3. ASSUME NEW k, CloseEntry(k) PROVE peer' \in [Fds -> Peers] /\ raced' \in BOOLEAN
      <4>1. raced' \in BOOLEAN
        BY <3>2, <3>3, Zenon DEF CloseEntry
      <4> QED
        BY <3>1, <3>2, <3>3, <4>1 DEF CloseEntry, CloseFd
    <3> QED
      BY <1>12, <3>2, <3>3 DEF CloseFailed, confVars, bounds, hist, mixes
  <2>2. TypeOK'
    BY <1>1, <1>12, <2>1, Constants DEF TypeOK, Peers, PCs, CloseFailed, Goto, confVars, bounds, hist, mixes
  <2>3. CursorInv'
    BY <1>1, <1>12, Constants DEF TypeOK, CursorInv, InBlock, CloseFailed, Goto, confVars, bounds, hist, mixes
  <2>4. FillInv'
    BY <1>1, <1>12 DEF FillInv, CloseFailed, confVars
  <2> QED
    BY <2>2, <2>3, <2>4 DEF TableInv
<1>13. ASSUME NEW t \in Threads, StoreClosed(t) PROVE TableInv'
  <2>1. fax_infos' \in [Entries -> Entry]
    <3>1. m[t] \in Entries
      BY <1>1, <1>13, Constants DEF TypeOK, CursorInv, Entries, StoreClosed
    <3>2. [fax_infos[m[t]] EXCEPT !.fd = -1] \in Entry
      BY <1>1, <3>1, EntryChanged DEF TypeOK
    <3> QED
      BY <1>1, <1>13, <3>1, <3>2 DEF TypeOK, StoreClosed
  <2>2. TypeOK'
    BY <1>1, <1>13, <2>1, Constants DEF TypeOK, PCs, StoreClosed, Goto, confVars, bounds, hist, mixes
  <2>3. CursorInv'
    BY <1>1, <1>13, Constants DEF TypeOK, CursorInv, InBlock, StoreClosed, Goto, confVars, bounds, hist, mixes
  <2>4. FillInv'
    BY <1>1, <1>13 DEF FillInv, StoreClosed, confVars
  <2> QED
    BY <2>2, <2>3, <2>4 DEF TableInv
<1>14. ASSUME NEW t \in Threads, NextServer(t) PROVE TableInv'
  <2>1. /\ m[t] < MaxFax /\ tmp_m[t] # MaxFax /\ wrapped(m[t]) \in 0 .. MaxFax
        /\ wrapped(m[t]) = MaxFax => off[t]
        /\ ~off[t] => wrapped(m[t]) < fax_num /\ tmp_m[t] < fax_num
    <3>1. pc[t] = "next" /\ m[t] \in 0 .. MaxFax /\ tmp_m[t] \in 0 .. MaxFax /\ fax_num \in 0 .. MaxFax
      BY <1>1, <1>14 DEF TypeOK, NextServer
    <3>2. m[t] < MaxFax /\ tmp_m[t] # MaxFax /\ (~off[t] => m[t] < fax_num /\ tmp_m[t] < fax_num)
      BY <1>1, <3>1 DEF CursorInv, InBlock
    <3> QED
      BY <3>1, <3>2, Constants DEF wrapped
  <2>2. /\ m' = [m EXCEPT ![t] = wrapped(m[t])]
        /\ UNCHANGED <<fax_num, tmp_m, i, min, off>>
        /\ pc' = [pc EXCEPT ![t] = IF wrapped(m[t]) = tmp_m[t] THEN "giveup" ELSE "top"]
    BY <1>14 DEF NextServer, Goto, hist
  <2>3. TypeOK'
    <3>1. m' \in [Threads -> 0 .. MaxFax] /\ pc' \in [Threads -> PCs]
      <4>1. m \in [Threads -> 0 .. MaxFax] /\ pc \in [Threads -> PCs] /\ {"giveup", "top"} \subseteq PCs
        BY <1>1 DEF TypeOK, PCs
      <4> QED
        BY <2>1, <2>2, <4>1
    <3>2. \A u \in Threads : m'[u] = MaxFax => off[u] \/ pc'[u] = "idle"
      BY <1>1, <2>1, <2>2 DEF TypeOK
    <3> QED
      BY <1>1, <1>14, <2>2, <3>1, <3>2 DEF TypeOK, NextServer, confVars, bounds, hist, mixes
  <2>4. CursorInv'
    BY <1>1, <2>1, <2>2, Constants DEF TypeOK, CursorInv, InBlock
  <2>5. FillInv'
    BY <1>1, <1>14 DEF FillInv, NextServer, confVars
  <2> QED
    BY <2>3, <2>4, <2>5 DEF TableInv
<1>15. ASSUME NEW t \in Threads, EndRound(t) PROVE TableInv'
  <2>1. wrapped(m[t]) \in 0 .. MaxFax
    <3>1. m[t] \in 0 .. MaxFax /\ m[t] < MaxFax /\ fax_num \in 0 .. MaxFax /\ MaxFax \in Nat
      BY <1>1, <1>15, FaxAssumption DEF TypeOK, CursorInv, EndRound
    <3> QED
      BY <3>1 DEF wrapped
  <2>2. /\ m' = [m EXCEPT ![t] = wrapped(m[t])] /\ tmp_m' = [tmp_m EXCEPT ![t] = 0]
        /\ pc' = [pc EXCEPT ![t] = "idle"]
        /\ off' = [off EXCEPT ![t] = FALSE] /\ calm' = [calm EXCEPT ![t] = TRUE]
        /\ tried' = [tried EXCEPT ![t] = {}]
        /\ UNCHANGED <<fax_infos, fax_num, r_fax_infos, r_fax_num, svm_fax_reload, flag,
                       i, min, addr, peer, conf, mixed, raced>>
    BY <1>15 DEF EndRound, Goto, confVars, mixes
  <2>3. TypeOK'
    <3>1. /\ m' \in [Threads -> 0 .. MaxFax] /\ tmp_m' \in [Threads -> 0 .. MaxFax]
          /\ pc' \in [Threads -> PCs] /\ tried' \in [Threads -> SUBSET Entries]
      <4>1. 0 \in 0 .. MaxFax
        BY FaxAssumption
      <4>2. "idle" \in PCs /\ pc \in [Threads -> PCs] /\ tried \in [Threads -> SUBSET Entries]
            /\ m \in [Threads -> 0 .. MaxFax] /\ tmp_m \in [Threads -> 0 .. MaxFax]
        BY <1>1 DEF TypeOK, PCs
      <4> QED
        BY <2>1, <2>2, <4>1, <4>2
    <3>2. off' \in [Threads -> BOOLEAN] /\ calm' \in [Threads -> BOOLEAN]
      BY <1>1, <2>2 DEF TypeOK
    <3>3. \A u \in Threads : m'[u] = MaxFax => off'[u] \/ pc'[u] = "idle"
      BY <1>1, <2>2 DEF TypeOK
    <3> QED
      BY <1>1, <2>2, <3>1, <3>2, <3>3 DEF TypeOK
  <2>4. CursorInv'
    BY <1>1, <2>1, <2>2 DEF TypeOK, CursorInv
  <2>5. FillInv'
    BY <1>1, <1>15 DEF FillInv, EndRound, confVars
  <2> QED
    BY <2>3, <2>4, <2>5 DEF TableInv
<1>16. CASE ReloadBegin
  <2>1. TypeOK'
    BY <1>1, <1>16, Constants, SMTT(20) DEF TypeOK, CursorInv, PCs, InBlock, ReloadBegin, confVars, bounds, hist, mixes
  <2>2. CursorInv'
    BY <1>1, <1>16, Constants DEF TypeOK, CursorInv, InBlock, ReloadBegin, confVars, bounds, hist, mixes
  <2>3. FillInv'
    BY <1>1, <1>16, Constants DEF FillInv, ReloadBegin, confVars, bounds, hist, mixes
  <2> QED
    BY <2>1, <2>2, <2>3 DEF TableInv
<1>17. CASE ReloadFill
  <2>1. todo \in Seq(Server) /\ todo # <<>> /\ r_fax_num + Len(todo) = Len(listed)
    BY <1>1, <1>17 DEF FillInv, ReloadFill
  <2>2. /\ Head(todo) \in Server /\ Tail(todo) \in Seq(Server) /\ Len(Tail(todo)) = Len(todo) - 1
        /\ Len(todo) \in Nat \ {0} /\ Len(listed) \in 0 .. MaxFax
    BY <1>1, <2>1, Constants, HeadTailProperties DEF FillInv
  <2>3. r_fax_num \in Entries
    BY <1>1, <2>1, <2>2, Constants DEF TypeOK, Entries
  <2>4. r_fax_infos' \in [Entries -> Server] /\ r_fax_num' \in 0 .. MaxFax
    BY <1>1, <1>17, <2>2, <2>3, Constants DEF TypeOK, ReloadFill, Entries
  <2>5. TypeOK'
    BY <1>1, <1>17, <2>4 DEF TypeOK, ReloadFill, confVars, bounds, hist, mixes
  <2>6. FillInv'
    <3>1. todo' = Tail(todo) /\ r_fax_num' = r_fax_num + 1 /\ listed' = listed
      BY <1>17 DEF ReloadFill
    <3> QED
      BY <1>1, <2>1, <2>2, <3>1 DEF TypeOK, FillInv
  <2>7. CursorInv'
    BY <1>1, <1>17 DEF CursorInv, ReloadFill, confVars, bounds, hist, mixes
  <2> QED
    BY <2>5, <2>6, <2>7 DEF TableInv
<1>18. CASE ReloadCompare
  <2>1. TypeOK'
    BY <1>1, <1>18, Constants DEF TypeOK, CursorInv, PCs, InBlock, ReloadCompare, confVars, bounds, hist, mixes
  <2>2. CursorInv'
    BY <1>1, <1>18, Constants DEF TypeOK, CursorInv, InBlock, ReloadCompare, confVars, bounds, hist, mixes
  <2>3. FillInv'
    BY <1>1, <1>18, Constants DEF FillInv, ReloadCompare, confVars, bounds, hist, mixes
  <2> QED
    BY <2>1, <2>2, <2>3 DEF TableInv
<1>19. CASE ma_cmd_software_status
  <2>1. fax_infos' \in [Entries -> Entry]
    <3>1. PICK id : \E status \in {0, 1} : change_fax_status(id, status)
      BY <1>19 DEF ma_cmd_software_status
    <3>2. PICK status \in {0, 1} : change_fax_status(id, status)
      BY <3>1
    <3>3. \A k \in Entries : [fax_infos[k] EXCEPT !.flag = status] \in Entry
      BY <1>1, EntryChanged DEF TypeOK
    <3> QED
      BY <1>1, <3>2, <3>3 DEF TypeOK, change_fax_status
  <2>2. TypeOK'
    BY <1>1, <1>19, <2>1 DEF TypeOK, ma_cmd_software_status, confVars, bounds, hist, mixes
  <2>3. CursorInv'
    BY <1>1, <1>19 DEF CursorInv, ma_cmd_software_status, confVars, bounds, hist, mixes
  <2>4. FillInv'
    BY <1>1, <1>19 DEF FillInv, ma_cmd_software_status, confVars
  <2> QED
    BY <2>2, <2>3, <2>4 DEF TableInv
<1>20. CASE UNCHANGED vars
  BY <1>1, <1>20 DEF TableInv, TypeOK, CursorInv, FillInv, vars, confVars, bounds, hist, mixes
<1> QED
  BY <1>2, <1>3, <1>4, <1>5, <1>6, <1>7, <1>8, <1>9, <1>10, <1>11, <1>12, <1>13, <1>14, <1>15, <1>16, <1>17, <1>18, <1>19, <1>20 DEF Next, Block, Round, ConfStep

-----------------------------------------------------------------------------
(* The round over the servers. *)

Before == {"top", "look"} \cup InBlock
After  == {"conn", "send", "close", "store", "next"}

LEMMA InitRound == Init => RoundInv
  BY DEF Init, RoundInv, InBlock

LEMMA StepRound == TableInv /\ RoundInv /\ [Next]_vars => RoundInv'
<1> SUFFICES ASSUME TableInv, RoundInv, [Next]_vars PROVE RoundInv'
  OBVIOUS
<1>1. TypeOK /\ CursorInv
  BY DEF TableInv
<1> DEFINE Still == UNCHANGED <<fax_num, m, tmp_m, off, calm, tried>>
           Moves == \/ pc' = pc
                    \/ \E t \in Threads, l \in Before : pc[t] \in Before /\ Goto(t, l)
                    \/ \E t \in Threads, l \in After : pc[t] \in After /\ Goto(t, l)
                    \/ \E t \in Threads, l \in {"sent", "wild"} : Goto(t, l)
<1>2. ASSUME NEW t \in Threads, StartRound(t) PROVE RoundInv'
  <2>1. /\ tmp_m' = [tmp_m EXCEPT ![t] = m[t]] /\ tried' = [tried EXCEPT ![t] = {}]
        /\ pc' = [pc EXCEPT ![t] = "top"] /\ UNCHANGED <<fax_num, m>>
        /\ \A u \in Threads : u # t => off'[u] = off[u] /\ calm'[u] = calm[u]
    BY <1>1, <1>2 DEF TypeOK, StartRound, Goto
  <2>2. ~off'[t] => m[t] \in 0 .. fax_num - 1
    <3>1. ~off'[t] => ~(m[t] >= fax_num)
      BY <1>1, <1>2, Zenon DEF TypeOK, StartRound
    <3> QED
      BY <1>1, <3>1 DEF TypeOK
  <2>3. fax_num \in Nat
    BY <1>1, Constants DEF TypeOK
  <2>4. ~off'[t] => Passed(m[t], m[t], fax_num) = {}
    BY <2>2, <2>3, PassedRound
  <2> QED
    BY <1>1, <2>1, <2>4 DEF RoundInv, TypeOK, InBlock
<1>3. ASSUME NEW t \in Threads, Look(t) PROVE RoundInv'
  <2>1. UNCHANGED <<fax_num, m, tmp_m, off, calm>> /\ pc[t] = "look"
    BY <1>3 DEF Look
  <2>2. CASE m[t] \in Entries
    <3>1. tried' = [tried EXCEPT ![t] = @ \cup {m[t]}] /\ \E l \in {"conn", "send", "next"} : Goto(t, l)
      BY <1>3, <2>2 DEF Look
    <3> QED
      BY <1>1, <2>1, <3>1 DEF RoundInv, TypeOK, Goto, InBlock
  <2>3. CASE m[t] \notin Entries
    <3>1. tried' = tried /\ Goto(t, "wild")
      BY <1>3, <2>3 DEF Look
    <3> QED
      BY <1>1, <2>1, <3>1 DEF RoundInv, TypeOK, Goto, InBlock
  <2> QED
    BY <2>2, <2>3
<1>4. ASSUME NEW t \in Threads, NextServer(t) PROVE RoundInv'
  <2>1. /\ UNCHANGED <<fax_num, tmp_m, off, calm, tried>> /\ pc[t] = "next"
        /\ m' = [m EXCEPT ![t] = wrapped(m[t])]
        /\ pc' = [pc EXCEPT ![t] = IF wrapped(m[t]) = tmp_m[t] THEN "giveup" ELSE "top"]
    BY <1>4 DEF NextServer, Goto, hist
  <2>2. fax_num \in Nat /\ m[t] \in Nat /\ tmp_m[t] \in Nat
    BY <1>1, Constants DEF TypeOK
  <2>3. ~off[t] => m[t] < fax_num /\ tmp_m[t] < fax_num
    BY <1>1, <2>1 DEF CursorInv
  <2>4. ~off[t] =>
          /\ wrapped(m[t]) # tmp_m[t] =>
                Passed(tmp_m[t], wrapped(m[t]), fax_num) = Passed(tmp_m[t], m[t], fax_num) \cup {m[t]}
          /\ wrapped(m[t]) = tmp_m[t] =>
                Passed(tmp_m[t], m[t], fax_num) \cup {m[t]} = 0 .. fax_num - 1
    <3> SUFFICES ASSUME ~off[t]
                 PROVE  /\ wrapped(m[t]) # tmp_m[t] =>
                              Passed(tmp_m[t], wrapped(m[t]), fax_num)
                                = Passed(tmp_m[t], m[t], fax_num) \cup {m[t]}
                        /\ wrapped(m[t]) = tmp_m[t] =>
                              Passed(tmp_m[t], m[t], fax_num) \cup {m[t]} = 0 .. fax_num - 1
      OBVIOUS
    <3>1. m[t] \in 0 .. fax_num - 1 /\ tmp_m[t] \in 0 .. fax_num - 1
      BY <2>2, <2>3
    <3> QED
      BY <2>2, <3>1, PassedRound, Zenon DEF wrapped
  <2> QED
    BY <1>1, <2>1, <2>4 DEF RoundInv, TypeOK, InBlock
<1>5. ASSUME NEW t \in Threads, EndRound(t) PROVE RoundInv'
  <2>1. /\ pc' = [pc EXCEPT ![t] = "idle"]
        /\ \A u \in Threads : u # t =>
              /\ off'[u] = off[u] /\ calm'[u] = calm[u] /\ tried'[u] = tried[u]
              /\ m'[u] = m[u] /\ tmp_m'[u] = tmp_m[u]
        /\ fax_num' = fax_num
    BY <1>1, <1>5 DEF TypeOK, EndRound, Goto
  <2> QED
    BY <1>1, <2>1 DEF RoundInv, TypeOK, InBlock
<1>6. ASSUME NEW t \in Threads, LeaveBlock(t) PROVE RoundInv'
  <2>1. \A u \in Threads : ~calm'[u]
    BY <1>6, Zenon DEF LeaveBlock
  <2> QED
    BY <2>1 DEF RoundInv
<1>7. CASE Still /\ Moves
  <2>1. PICK t, l : \/ pc' = pc
                    \/ t \in Threads /\ l \in Before /\ pc[t] \in Before /\ Goto(t, l)
                    \/ t \in Threads /\ l \in After /\ pc[t] \in After /\ Goto(t, l)
                    \/ t \in Threads /\ l \in {"sent", "wild"} /\ Goto(t, l)
    BY <1>7
  <2>2. pc \in [Threads -> PCs]
    BY <1>1 DEF TypeOK
  <2>3. \A u \in Threads :
           /\ pc'[u] \in Before => pc[u] \in Before
           /\ pc'[u] \in After => pc[u] \in After
           /\ pc'[u] = "giveup" => pc[u] = "giveup"
    BY <2>1, <2>2 DEF Goto, Before, After, InBlock
  <2> QED
    BY <1>7, <2>3 DEF RoundInv, Before, After
<1>8. ASSUME NEW t \in Threads,
             Top(t) \/ CopyEntry(t) \/ SetEntry(t) \/ CopyTail(t) \/ ZeroReload(t)
      PROVE  Still /\ Moves
  BY <1>8 DEF Top, CopyEntry, SetEntry, CopyTail, ZeroReload, Goto, Before, InBlock, hist
<1>9. ASSUME NEW t \in Threads,
             Connected(t) \/ Send(t) \/ CloseFailed(t) \/ StoreClosed(t)
      PROVE  Still /\ Moves
  BY <1>9 DEF Connected, Send, CloseFailed, StoreClosed, Goto, After, hist
<1>10. ASSUME ConfStep \/ UNCHANGED vars PROVE Still /\ Moves
  BY <1>10 DEF ConfStep, ReloadBegin, ReloadFill, ReloadCompare, ma_cmd_software_status, vars, hist
<1> HIDE DEF Still, Moves
<1> QED
  BY <1>2, <1>3, <1>4, <1>5, <1>6, <1>7, <1>8, <1>9, <1>10 DEF Next, Block, Round

-----------------------------------------------------------------------------
(* Descriptors. *)

LEMMA FdPositive == \A f \in Fds : f > 0
<1> SUFFICES ASSUME NEW f \in Fds PROVE f > 0
  OBVIOUS
<1>1. f \in Nat \ {0}
  BY FaxAssumption
<1> QED
  BY <1>1

LEMMA InitFd == Init => FdInv
<1> SUFFICES ASSUME Init PROVE FdInv
  OBVIOUS
<1> DEFINE Started(c, ok, fdOf) ==
              /\ fax_infos = [k \in Entries |->
                                [Loaded(c)[k] EXCEPT !.fd = IF k \in ok THEN fdOf[k] ELSE -1]]
              /\ peer = [f \in Fds |->
                           IF \E k \in ok : fdOf[k] = f
                           THEN FaxConn(Addr(Loaded(c)[CHOOSE k \in ok : fdOf[k] = f])) ELSE Free]
<1>1. \E c \in Configs : \E ok \in SUBSET (0 .. Len(c) - 1) : \E fdOf \in Opened(ok) : Started(c, ok, fdOf)
  BY DEF Init
<1> HIDE DEF Started
<1>2. PICK c \in Configs : \E ok \in SUBSET (0 .. Len(c) - 1) : \E fdOf \in Opened(ok) : Started(c, ok, fdOf)
  BY <1>1, Zenon
<1>3. PICK ok \in SUBSET (0 .. Len(c) - 1) : \E fdOf \in Opened(ok) : Started(c, ok, fdOf)
  BY <1>2, Zenon
<1>4. PICK fdOf \in Opened(ok) : Started(c, ok, fdOf)
  BY <1>3, Zenon
<1>5. /\ fdOf \in [ok -> Fds] /\ ok \subseteq Entries /\ ok \subseteq Int
      /\ \A j, k \in ok : fdOf[j] = fdOf[k] => j = k
  <2>1. fdOf \in [ok -> Fds] /\ \A j, k \in ok : j < k => fdOf[j] < fdOf[k]
    BY DEF Opened
  <2>2. ok \subseteq Entries /\ ok \subseteq Int
    BY Constants DEF Entries
  <2>3. ASSUME NEW j \in ok, NEW k \in ok, fdOf[j] = fdOf[k] PROVE j = k
    <3>1. fdOf[j] \in Nat /\ fdOf[k] \in Nat /\ j \in Int /\ k \in Int
      BY <2>1, <2>2, Constants
    <3> QED
      BY <2>1, <2>3, <3>1
  <2> QED
    BY <2>1, <2>2, <2>3
<1>6. \A k \in Entries : /\ fax_infos[k].fd = (IF k \in ok THEN fdOf[k] ELSE -1)
                         /\ Addr(fax_infos[k]) = Addr(Loaded(c)[k])
  BY <1>4 DEF Started, Addr, Loaded, Blank
<1>7. \A k \in ok : peer[fdOf[k]] = FaxConn(Addr(Loaded(c)[k]))
  BY <1>4, <1>5 DEF Started
<1>8. ASSUME NEW k \in Entries, fax_infos[k].fd > 0
      PROVE  k \in ok /\ fax_infos[k].fd = fdOf[k]
  BY <1>6, <1>8
<1>9. ASSUME NEW k \in Entries, fax_infos[k].fd > 0
      PROVE  peer[fax_infos[k].fd] = FaxConn(Addr(fax_infos[k]))
  BY <1>6, <1>7, <1>8, <1>9
<1>10. ASSUME NEW k \in Entries, NEW l \in Entries, fax_infos[k].fd > 0, fax_infos[l].fd = fax_infos[k].fd
       PROVE  l = k
  <2>1. fax_infos[l].fd > 0
    BY <1>10
  <2> QED
    BY <1>5, <1>8, <1>10, <2>1
<1> QED
  BY <1>9, <1>10 DEF FdInv

(* Entries lose their descriptor or stay as they are; an entry that is being *)
(* given up remains so unless it loses it.                                   *)
Sheds ==
    /\ peer' = peer
    /\ \A k \in Entries :
          \/ fax_infos'[k].fd = -1
          \/ /\ fax_infos'[k].fd = fax_infos[k].fd /\ Addr(fax_infos'[k]) = Addr(fax_infos[k])
             /\ InGap(k) => InGap(k)'

LEMMA ShedsFd == ASSUME FdInv, Sheds PROVE FdInv'
  BY DEF FdInv, Sheds

(* An entry nobody else is giving up is closed and now given up by t. *)
LEMMA ClosesFd ==
    ASSUME TypeOK, FdInv, NEW k \in Entries, CloseFd(fax_infos[k].fd), ~InGap(k), InGap(k)',
           fax_infos' = fax_infos, \A l \in Entries : InGap(l) => InGap(l)'
    PROVE  FdInv'
<1>1. \A l \in Entries : fax_infos[l].fd \in Fds \cup {-1}
  BY DEF TypeOK, Entry
<1>2. CASE fax_infos[k].fd = -1
  BY <1>2, Constants DEF CloseFd, FdInv
<1>3. CASE fax_infos[k].fd \in Fds
  <2>1. peer' = [peer EXCEPT ![fax_infos[k].fd] = Free] /\ fax_infos[k].fd > 0
    <3>1. fax_infos[k].fd > 0
      BY <1>3, FdPositive
    <3> QED
      BY <1>3, <3>1 DEF CloseFd
  <2>2. \A l \in Entries : l # k /\ fax_infos[l].fd = fax_infos[k].fd => InGap(l)
    BY <2>1 DEF FdInv
  <2> QED
    BY <1>1, <2>1, <2>2, Constants DEF TypeOK, FdInv
<1> QED
  BY <1>1, <1>2, <1>3

LEMMA StepFd ==
    TableInv /\ TableInv' /\ (raced \/ FdInv) /\ [Next]_vars => (raced \/ FdInv)'
<1> SUFFICES ASSUME TableInv, TableInv', raced \/ FdInv, [Next]_vars, ~raced'
             PROVE  FdInv'
  OBVIOUS
<1>1. TypeOK /\ CursorInv
  BY DEF TableInv
<1>2. pc \in [Threads -> PCs] /\ m \in [Threads -> 0 .. MaxFax] /\ i \in [Threads -> 0 .. MaxFax]
  BY <1>1 DEF TypeOK
<1>3. ~raced
  BY ZenonT(40) DEF Next, Block, Round, ConfStep, StartRound, Top, CopyEntry, SetEntry, CopyTail, ZeroReload,
         LeaveBlock, Look, Connected, Send, CloseFailed, StoreClosed, NextServer, EndRound, CloseEntry,
         ReloadBegin, ReloadFill, ReloadCompare, ma_cmd_software_status, vars, mixes
<1>4. FdInv
  BY <1>3
<1>5. ASSUME NEW t \in Threads,
             StartRound(t) \/ Top(t) \/ ZeroReload(t) \/ LeaveBlock(t) \/ Look(t) \/ Send(t)
               \/ NextServer(t) \/ EndRound(t)
      PROVE  Sheds
  <2>1. fax_infos' = fax_infos /\ peer' = peer
    BY <1>5 DEF StartRound, Top, ZeroReload, LeaveBlock, Look, Send, NextServer, EndRound
  <2>2. pc[t] \notin {"store", "set"}
    BY <1>5 DEF StartRound, Top, ZeroReload, LeaveBlock, Look, Send, NextServer, EndRound
  <2>3. \A u \in Threads : u # t => pc'[u] = pc[u] /\ m'[u] = m[u] /\ i'[u] = i[u]
    BY <1>2, <1>5 DEF StartRound, Top, ZeroReload, LeaveBlock, Look, Send, NextServer, EndRound, Goto
  <2> QED
    BY <2>1, <2>2, <2>3 DEF Sheds, InGap, Gap
<1>6. ASSUME NEW t \in Threads, CopyEntry(t) PROVE FdInv'
  <2>1. CASE Differs(fax_infos[i[t]], r_fax_infos[i[t]]) /\ i[t] < min[t]
    <3>1. /\ i[t] \in Entries /\ CloseEntry(i[t]) /\ Goto(t, "set") /\ i' = i
          /\ UNCHANGED <<fax_infos, m>>
      BY <1>1, <1>2, <1>6, <2>1, Constants DEF TypeOK, CopyEntry, Entries
    <3>2. ~InGap(i[t])
      BY <3>1 DEF CloseEntry, InGap
    <3>3. \A k \in Entries : (InGap(k) => InGap(k)') /\ (k = i[t] => InGap(k)')
      BY <1>2, <1>6, <3>1 DEF InGap, Gap, Goto, CopyEntry
    <3> QED
      BY <1>1, <1>4, <3>1, <3>2, <3>3, ClosesFd DEF CloseEntry
  <2>2. CASE ~(Differs(fax_infos[i[t]], r_fax_infos[i[t]]) /\ i[t] < min[t])
    <3>1. UNCHANGED <<fax_infos, peer, m>>
      BY <1>6, <2>2 DEF CopyEntry
    <3>2. /\ \A u \in Threads : u # t => pc'[u] = pc[u] /\ i'[u] = i[u]
          /\ pc[t] = "copy"
      BY <1>2, <1>6, <2>2 DEF CopyEntry, Goto
    <3>3. Sheds
      BY <3>1, <3>2 DEF Sheds, InGap, Gap
    <3> QED
      BY <1>4, <3>3, ShedsFd
  <2> QED
    BY <2>1, <2>2
<1>7. ASSUME NEW t \in Threads, CloseFailed(t) PROVE FdInv'
  <2>1. /\ m[t] \in Entries /\ CloseEntry(m[t]) /\ Goto(t, "store")
        /\ UNCHANGED <<fax_infos, m, i>> /\ pc[t] = "close"
    BY <1>1, <1>2, <1>7, Constants DEF CursorInv, CloseFailed, Entries
  <2>2. ~InGap(m[t])
    BY <2>1 DEF CloseEntry, InGap
  <2>3. \A k \in Entries : (InGap(k) => InGap(k)') /\ (k = m[t] => InGap(k)')
    BY <1>2, <2>1 DEF InGap, Gap, Goto
  <2> QED
    BY <1>1, <1>4, <2>1, <2>2, <2>3, ClosesFd DEF CloseEntry
<1>8. ASSUME NEW t \in Threads, SetEntry(t) PROVE Sheds
  <2>1. /\ i[t] \in Entries /\ Copied(fax_infos[i[t]], r_fax_infos[i[t]]).fd = -1
        /\ fax_infos' = [fax_infos EXCEPT ![i[t]] = Copied(fax_infos[i[t]], r_fax_infos[i[t]])]
    <3>1. i[t] \in Entries
      BY <1>1, <1>2, <1>8, Constants DEF TypeOK, CursorInv, SetEntry, Entries
    <3>2. fax_infos[i[t]] \in Entry /\ r_fax_infos[i[t]] \in Server
      BY <1>1, <3>1 DEF TypeOK
    <3> QED
      BY <1>8, <3>1, <3>2, CopiedEntry DEF SetEntry
  <2>2. \A k \in Entries :
            \/ fax_infos'[k].fd = -1
            \/ k # i[t] /\ fax_infos'[k] = fax_infos[k]
    BY <1>1, <2>1 DEF TypeOK
  <2>3. /\ UNCHANGED <<peer, m>> /\ pc[t] = "set"
        /\ \A u \in Threads : u # t => pc'[u] = pc[u] /\ i'[u] = i[u]
    BY <1>2, <1>8 DEF SetEntry, Goto
  <2> QED
    BY <2>2, <2>3 DEF Sheds, InGap, Gap
<1>9. ASSUME NEW t \in Threads, StoreClosed(t) PROVE Sheds
  <2>1. /\ m[t] \in Entries /\ fax_infos' = [fax_infos EXCEPT ![m[t]].fd = -1]
        /\ UNCHANGED <<peer, m, i>> /\ pc[t] = "store"
        /\ \A u \in Threads : u # t => pc'[u] = pc[u]
    BY <1>1, <1>2, <1>9, Constants DEF CursorInv, StoreClosed, Goto, Entries
  <2>2. \A k \in Entries :
            \/ fax_infos'[k].fd = -1
            \/ k # m[t] /\ fax_infos'[k] = fax_infos[k]
    BY <1>1, <2>1 DEF TypeOK, Entry
  <2> QED
    BY <2>1, <2>2 DEF Sheds, InGap, Gap
<1>10. ASSUME NEW t \in Threads, CopyTail(t) PROVE Sheds
  <2>1. \A k \in Entries : fax_infos'[k].fd = -1 \/ fax_infos'[k] = fax_infos[k]
    <3>1. \A k \in Entries : /\ Copied(fax_infos[k], r_fax_infos[k]) \in Entry
                             /\ Copied(fax_infos[k], r_fax_infos[k]).fd = -1
      BY <1>1, CopiedEntry DEF TypeOK
    <3>2. \A k \in Entries :
             [Copied(fax_infos[k], r_fax_infos[k]) EXCEPT !.id = r_fax_infos[k].id].fd = -1
      BY <3>1 DEF Entry
    <3>3. Blank.fd = -1
      BY DEF Blank
    <3> QED
      BY <1>10, <3>2, <3>3 DEF CopyTail
  <2>2. /\ UNCHANGED <<peer, m, i>> /\ pc[t] = "tail"
        /\ \A u \in Threads : u # t => pc'[u] = pc[u]
    BY <1>2, <1>10 DEF CopyTail, Goto
  <2> QED
    BY <2>1, <2>2 DEF Sheds, InGap, Gap
<1>11. ASSUME NEW t \in Threads, Connected(t) PROVE FdInv'
  <2>1. /\ m[t] \in Entries /\ Addr(fax_infos[m[t]]) = addr[t]
        /\ UNCHANGED <<m, i>> /\ pc[t] = "conn"
    <3>1. Addr(fax_infos[m[t]]) = addr[t]
      BY <1>11, Zenon DEF Connected
    <3>2. UNCHANGED <<m, i>> /\ pc[t] = "conn"
      BY <1>11 DEF Connected
    <3>3. m[t] \in Entries
      BY <1>1, <1>2, <3>2, Constants DEF CursorInv, Entries
    <3> QED
      BY <3>1, <3>2, <3>3
  <2>2. \A k \in Entries : InGap(k) <=> InGap(k)'
    <3>1. \E l \in {"next", "send"} : Goto(t, l)
      BY <1>11 DEF Connected
    <3> QED
      BY <1>2, <2>1, <3>1 DEF InGap, Gap, Goto
  <2>3. fax_infos \in [Entries -> Entry] /\ \A k \in Entries : fax_infos[k].fd \in Fds \cup {-1}
    BY <1>1 DEF TypeOK, Entry
  <2>4. CASE fax_infos' = [fax_infos EXCEPT ![m[t]].fd = -1] /\ peer' = peer
    <3>1. \A k \in Entries : fax_infos'[k].fd = -1 \/ fax_infos'[k] = fax_infos[k]
      BY <2>3, <2>4 DEF Entry
    <3> QED
      BY <1>4, <2>2, <2>4, <3>1, ShedsFd DEF Sheds
  <2>5. CASE /\ FreeFds(peer) # {}
             /\ fax_infos' = [fax_infos EXCEPT ![m[t]].fd = Lowest(peer)]
             /\ peer' = [peer EXCEPT ![Lowest(peer)] = FaxConn(addr[t])]
    <3>1. Lowest(peer) \in Fds /\ peer[Lowest(peer)] = Free
      BY <2>5, LowestFree
    <3>2. /\ fax_infos'[m[t]].fd = Lowest(peer) /\ Addr(fax_infos'[m[t]]) = addr[t]
          /\ \A k \in Entries : k # m[t] => fax_infos'[k] = fax_infos[k]
      BY <2>1, <2>3, <2>5 DEF Addr, Entry
    <3>3. \A k \in Entries : fax_infos[k].fd = Lowest(peer) => InGap(k)
      <4>1. Lowest(peer) > 0
        BY <3>1, FdPositive
      <4>2. \A a : FaxConn(a) # Free
        BY DEF FaxConn, Free
      <4> QED
        BY <1>4, <3>1, <4>1, <4>2 DEF FdInv
    <3>4. /\ peer'[Lowest(peer)] = FaxConn(addr[t])
          /\ \A f \in Fds : f # Lowest(peer) => peer'[f] = peer[f]
      BY <1>1, <2>5, <3>1 DEF TypeOK
    <3>5. ASSUME NEW k \in Entries, fax_infos'[k].fd > 0, ~InGap(k)'
          PROVE  /\ peer'[fax_infos'[k].fd] = FaxConn(Addr(fax_infos'[k]))
                 /\ \A l \in Entries : l # k /\ fax_infos'[l].fd = fax_infos'[k].fd => InGap(l)'
      <4>1. CASE k = m[t]
        BY <2>2, <3>2, <3>3, <3>4, <4>1
      <4>2. CASE k # m[t]
        <5>1. /\ fax_infos'[k] = fax_infos[k] /\ fax_infos[k].fd # Lowest(peer)
              /\ fax_infos[k].fd \in Fds
          BY <2>2, <2>3, <3>2, <3>3, <3>5, <4>2
        <5> QED
          BY <1>4, <2>2, <3>2, <3>4, <3>5, <5>1 DEF FdInv
      <4> QED
        BY <4>1, <4>2
    <3> QED
      BY <3>5 DEF FdInv
  <2> QED
    BY <1>11, <2>4, <2>5 DEF Connected
<1>12. ASSUME ConfStep \/ UNCHANGED vars PROVE Sheds
  <2>1. UNCHANGED <<peer, pc, m, i>>
    BY <1>12 DEF ConfStep, ReloadBegin, ReloadFill, ReloadCompare, ma_cmd_software_status, vars
  <2>2. \A k \in Entries : fax_infos'[k].fd = fax_infos[k].fd /\ Addr(fax_infos'[k]) = Addr(fax_infos[k])
    <3>1. CASE ma_cmd_software_status
      <4>1. PICK id : \E status \in {0, 1} : change_fax_status(id, status)
        BY <3>1 DEF ma_cmd_software_status
      <4>2. PICK status \in {0, 1} : change_fax_status(id, status)
        BY <4>1
      <4> QED
        BY <1>1, <4>2 DEF TypeOK, change_fax_status, Addr, Entry
    <3>2. CASE fax_infos' = fax_infos
      BY <3>2
    <3> QED
      BY <1>12, <3>1, <3>2 DEF ConfStep, ReloadBegin, ReloadFill, ReloadCompare, vars
  <2> QED
    BY <2>1, <2>2 DEF Sheds, InGap, Gap
<1> QED
  BY <1>4, <1>5, <1>6, <1>7, <1>8, <1>9, <1>10, <1>11, <1>12, ShedsFd DEF Next, Block, Round

-----------------------------------------------------------------------------
(* Reloads. *)

LEMMA InitReload == Init => ReloadInv
<1> SUFFICES ASSUME Init PROVE ReloadInv
  OBVIOUS
<1>1. TypeOK
  BY InitTable DEF TableInv
<1>2. PICK c \in Configs : /\ fax_num = Len(c) /\ listed = c
                           /\ \A k \in Entries : Addr(fax_infos[k]) = Addr(Loaded(c)[k])
  BY DEF Init, Addr, Loaded, Blank
<1>3. c \in Seq(Server) /\ Len(c) \in 0 .. MaxFax
  BY Constants
<1>4. ASSUME NEW k \in 0 .. Len(c) - 1 PROVE Matches(k)
  <2>1. k \in Entries /\ k + 1 \in 1 .. Len(c) /\ c[k + 1].ip \in Seq(Letters)
    <3>1. k \in Nat /\ k < Len(c) /\ Len(c) <= MaxFax /\ Len(c) \in Nat /\ MaxFax \in Nat
      BY <1>3, Constants
    <3>2. k \in Entries /\ k + 1 \in 1 .. Len(c)
      BY <3>1 DEF Entries
    <3>3. c[k + 1] \in Server
      BY <1>3, <3>2
    <3> QED
      BY <3>2, <3>3 DEF Server
  <2>2. fax_infos[k].ip = c[k + 1].ip /\ fax_infos[k].port = c[k + 1].port
    <3>1. k < Len(c)
      BY <1>3
    <3>2. Loaded(c)[k].ip = c[k + 1].ip /\ Loaded(c)[k].port = c[k + 1].port
      BY <2>1, <3>1 DEF Loaded
    <3> QED
      BY <1>2, <2>1, <3>2 DEF Addr
  <2> QED
    BY <1>2, <2>1, <2>2 DEF Matches, IsPrefix
<1>5. (\A t \in Threads : pc[t] = "idle") /\ conf = "idle"
  BY DEF Init
<1>6. ~svm_fax_reload
  BY Zenon DEF Init
<1> QED
  BY <1>2, <1>4, <1>5, <1>6 DEF ReloadInv, OneInBlock, FillPhase, CopyPhase, Settled, InBlock

(* A step that leaves the tables' addresses and the block alone. *)
Aside ==
    /\ UNCHANGED <<fax_num, r_fax_infos, r_fax_num, svm_fax_reload, conf, todo, listed>>
    /\ \A k \in Entries : Addr(fax_infos'[k]) = Addr(fax_infos[k])
    /\ \A u \in Threads : pc[u] \in InBlock \/ pc'[u] \in InBlock =>
          pc'[u] = pc[u] /\ i'[u] = i[u] /\ min'[u] = min[u]

LEMMA AsideReload ==
    ASSUME TableInv, TableInv', OneInBlock, FillPhase, CopyPhase, Settled, Aside
    PROVE  OneInBlock' /\ FillPhase' /\ CopyPhase' /\ Settled'
<1>1. ASSUME NEW k \in Entries, Matches(k) PROVE Matches(k)'
  BY <1>1 DEF Aside, Matches, Addr
<1>2. OneInBlock'
  BY DEF OneInBlock, Aside
<1>3. FillPhase'
  BY DEF FillPhase, Aside, Filled, InBlock
<1>4. ASSUME NEW n \in 0 .. MaxFax, \A k \in 0 .. n - 1 : Matches(k) PROVE \A k \in 0 .. n - 1 : Matches(k)'
  BY <1>1, <1>4, Constants DEF Entries
<1>5. fax_num \in 0 .. MaxFax /\ Len(listed) \in 0 .. MaxFax
      /\ i \in [Threads -> 0 .. MaxFax] /\ min \in [Threads -> 0 .. MaxFax]
  BY Constants DEF TableInv, TypeOK, FillInv
<1>6. CopyPhase'
  <2> SUFFICES ASSUME NEW t \in Threads, pc'[t] \in InBlock
               PROVE  /\ pc'[t] \in {"copy", "set", "tail"} => min'[t] = Smaller(fax_num', r_fax_num')
                      /\ pc'[t] \in {"copy", "set"} =>
                            i'[t] <= min'[t] /\ \A k \in 0 .. i'[t] - 1 : Matches(k)'
                      /\ pc'[t] = "tail" => \A k \in 0 .. min'[t] - 1 : Matches(k)'
                      /\ pc'[t] \in {"zero", "leave"} => \A k \in 0 .. Len(listed') - 1 : Matches(k)'
    BY DEF CopyPhase, InBlock
  <2>1. /\ pc'[t] = pc[t] /\ i'[t] = i[t] /\ min'[t] = min[t]
        /\ UNCHANGED <<fax_num, r_fax_num, listed>>
    BY DEF Aside
  <2> QED
    BY <1>4, <1>5, <2>1 DEF CopyPhase
<1>7. Settled'
  <2>1. UNCHANGED <<fax_num, svm_fax_reload, conf, listed>>
    BY DEF Aside
  <2> QED
    BY <1>4, <1>5, <2>1 DEF Settled
<1> QED
  BY <1>2, <1>3, <1>6, <1>7

(* What CopyPhase says of thread t. *)
CopyOf(t) ==
    /\ pc[t] \in {"copy", "set", "tail"} => min[t] = Smaller(fax_num, r_fax_num)
    /\ pc[t] \in {"copy", "set"} => i[t] <= min[t] /\ \A k \in 0 .. i[t] - 1 : Matches(k)
    /\ pc[t] = "tail" => \A k \in 0 .. min[t] - 1 : Matches(k)
    /\ pc[t] \in {"zero", "leave"} => \A k \in 0 .. Len(listed) - 1 : Matches(k)

(* The steps of the one thread in the block, except the last. *)
LEMMA BlockReload ==
    ASSUME NEW t \in Threads, pc[t] \in InBlock, OneInBlock, FillPhase, conf \in {"idle", "fill"},
           UNCHANGED <<r_fax_num, svm_fax_reload, conf, listed>>,
           \A u \in Threads : u # t => pc'[u] = pc[u], pc'[t] \in InBlock,
           pc'[t] \in {"zero", "leave"} \/ (r_fax_infos' = r_fax_infos /\ pc[t] \notin {"zero", "leave"}),
           CopyOf(t)'
    PROVE  OneInBlock' /\ FillPhase' /\ CopyPhase' /\ Settled'
<1>1. svm_fax_reload /\ svm_fax_reload' /\ conf' # "fill"
  BY DEF OneInBlock, FillPhase
<1>2. \A u \in Threads : u # t => pc[u] \notin InBlock /\ pc'[u] \notin InBlock
  BY DEF OneInBlock
<1>3. OneInBlock'
  BY <1>1, <1>2 DEF OneInBlock
<1>4. FillPhase'
  <2>1. CASE pc'[t] \in {"zero", "leave"}
    BY <1>1, <2>1 DEF FillPhase
  <2>2. CASE r_fax_infos' = r_fax_infos /\ pc[t] \notin {"zero", "leave"}
    BY <1>1, <1>2, <2>2 DEF FillPhase, Filled, InBlock
  <2> QED
    BY <2>1, <2>2
<1>5. CopyPhase'
  BY <1>2 DEF CopyPhase, CopyOf, InBlock
<1>6. Settled'
  BY <1>1 DEF Settled
<1> QED
  BY <1>3, <1>4, <1>5, <1>6

LEMMA StepReload ==
    TableInv /\ TableInv' /\ ReloadInv /\ [Next]_vars => ReloadInv'
<1> SUFFICES ASSUME TableInv, TableInv', ReloadInv, [Next]_vars, ~mixed'
             PROVE  OneInBlock' /\ FillPhase' /\ CopyPhase' /\ Settled'
  BY DEF ReloadInv
<1>1. TypeOK /\ CursorInv /\ FillInv
  BY DEF TableInv
<1>2. /\ pc \in [Threads -> PCs] /\ m \in [Threads -> 0 .. MaxFax]
      /\ i \in [Threads -> 0 .. MaxFax] /\ min \in [Threads -> 0 .. MaxFax]
      /\ fax_num \in 0 .. MaxFax /\ r_fax_num \in 0 .. MaxFax
      /\ fax_infos \in [Entries -> Entry] /\ r_fax_infos \in [Entries -> Server]
      /\ listed \in Seq(Server) /\ Len(listed) \in 0 .. MaxFax
  BY <1>1, Constants DEF TypeOK, FillInv
<1>3. ~mixed
  BY ZenonT(40) DEF Next, Block, Round, ConfStep, StartRound, Top, CopyEntry, SetEntry, CopyTail, ZeroReload,
         LeaveBlock, Look, Connected, Send, CloseFailed, StoreClosed, NextServer, EndRound,
         ReloadBegin, ReloadFill, ReloadCompare, ma_cmd_software_status, vars, mixes
<1>4. OneInBlock /\ FillPhase /\ CopyPhase /\ Settled
  BY <1>3 DEF ReloadInv
<1>5. ASSUME NEW t \in Threads,
             StartRound(t) \/ Look(t) \/ Send(t) \/ CloseFailed(t) \/ NextServer(t) \/ EndRound(t)
      PROVE  Aside
  <2>1. UNCHANGED <<fax_infos, fax_num, r_fax_infos, r_fax_num, svm_fax_reload, conf, todo, listed, i, min>>
    BY <1>5 DEF StartRound, Look, Send, CloseFailed, NextServer, EndRound, confVars
  <2>2. /\ pc[t] \notin InBlock
        /\ \E l \in PCs \ InBlock : Goto(t, l)
    BY <1>5 DEF StartRound, Look, Send, CloseFailed, NextServer, EndRound, PCs, InBlock
  <2> QED
    BY <1>2, <2>1, <2>2 DEF Aside, Goto
<1>6. ASSUME NEW t \in Threads, Connected(t) \/ StoreClosed(t) PROVE Aside
  <2>1. UNCHANGED <<fax_num, r_fax_infos, r_fax_num, svm_fax_reload, conf, todo, listed, i, min>>
    BY <1>6 DEF Connected, StoreClosed, confVars
  <2>2. pc[t] \in {"conn", "store"} /\ \E l \in {"next", "send"} : Goto(t, l)
    BY <1>6 DEF Connected, StoreClosed
  <2>3. \A u \in Threads : pc[u] \in InBlock \/ pc'[u] \in InBlock => pc'[u] = pc[u]
    BY <1>2, <2>2 DEF Goto, InBlock
  <2>4. \A k \in Entries : Addr(fax_infos'[k]) = Addr(fax_infos[k])
    <3>1. PICK f : fax_infos' = [fax_infos EXCEPT ![m[t]].fd = f]
      BY <1>6 DEF Connected, StoreClosed
    <3> QED
      BY <1>2, <3>1 DEF Addr, Entry
  <2> QED
    BY <2>1, <2>3, <2>4 DEF Aside
<1>7. ASSUME ma_cmd_software_status \/ UNCHANGED vars PROVE Aside
  <2>1. UNCHANGED <<fax_num, r_fax_infos, r_fax_num, svm_fax_reload, conf, todo, listed, i, min, pc>>
    BY <1>7 DEF ma_cmd_software_status, vars, confVars
  <2>2. \A k \in Entries : Addr(fax_infos'[k]) = Addr(fax_infos[k])
    <3>1. CASE ma_cmd_software_status
      <4>1. PICK id : \E status \in {0, 1} : change_fax_status(id, status)
        BY <3>1 DEF ma_cmd_software_status
      <4>2. PICK status \in {0, 1} : change_fax_status(id, status)
        BY <4>1
      <4> QED
        BY <1>2, <4>2 DEF change_fax_status, Addr, Entry
    <3>2. CASE UNCHANGED vars
      BY <3>2 DEF vars
    <3> QED
      BY <1>7, <3>1, <3>2
  <2> QED
    BY <2>1, <2>2 DEF Aside
<1>8. ASSUME NEW t \in Threads, Top(t) PROVE OneInBlock' /\ FillPhase' /\ CopyPhase' /\ Settled'
  <2>1. CASE svm_fax_reload
    <3>1. \A u \in Threads : pc[u] \notin InBlock
      BY <1>8, <2>1, Zenon DEF Top
    <3>2. /\ UNCHANGED <<fax_infos, fax_num, r_fax_infos, r_fax_num, svm_fax_reload, conf, todo, listed>>
          /\ pc' = [pc EXCEPT ![t] = "copy"] /\ i' = [i EXCEPT ![t] = 0]
          /\ min' = [min EXCEPT ![t] = Smaller(fax_num, r_fax_num)]
      BY <1>8, <2>1 DEF Top, Goto, confVars
    <3>3. \A u \in Threads : u # t => pc'[u] \notin InBlock
      BY <1>2, <3>1, <3>2
    <3>4. /\ pc'[t] = "copy" /\ i'[t] = 0 /\ min'[t] = Smaller(fax_num', r_fax_num')
          /\ Smaller(fax_num, r_fax_num) >= 0
      BY <1>2, <3>2 DEF Smaller
    <3>5. OneInBlock'
      BY <2>1, <3>2, <3>3 DEF OneInBlock
    <3>6. FillPhase'
      BY <1>4, <3>1, <3>2, <3>3 DEF FillPhase, Filled, InBlock
    <3>7. CopyPhase'
      BY <3>2, <3>3, <3>4 DEF CopyPhase, InBlock
    <3>8. Settled'
      BY <2>1, <3>2 DEF Settled
    <3> QED
      BY <3>5, <3>6, <3>7, <3>8
  <2>2. CASE ~svm_fax_reload
    <3>1. Aside
      BY <1>2, <1>8, <2>2 DEF Top, Goto, Aside, InBlock, confVars
    <3> QED
      BY <1>4, <3>1, AsideReload
  <2> QED
    BY <2>1, <2>2
<1>9. \A t \in Threads : CopyOf(t)
  BY <1>4 DEF CopyPhase, CopyOf
<1>10. ASSUME NEW t \in Threads, pc[t] \in InBlock
       PROVE  /\ r_fax_num = Len(listed) /\ conf \in {"idle", "fill"} /\ conf = "idle" /\ svm_fax_reload
              /\ pc[t] \notin {"zero", "leave"} => Filled(r_fax_num)
              /\ \A u \in Threads : u # t => pc[u] \notin InBlock
  BY <1>1, <1>4, <1>10 DEF TypeOK, OneInBlock, FillPhase, InBlock
<1>11. ASSUME NEW t \in Threads, CopyEntry(t) PROVE OneInBlock' /\ FillPhase' /\ CopyPhase' /\ Settled'
  <2>1. /\ UNCHANGED <<fax_infos, fax_num, r_fax_infos, r_fax_num, svm_fax_reload, conf, listed, min>>
        /\ pc[t] = "copy" /\ pc[t] \in InBlock
    BY <1>11 DEF CopyEntry, confVars, InBlock
  <2>2. /\ pc'[t] \in {"copy", "set", "tail"} /\ pc'[t] \in InBlock
        /\ \A u \in Threads : u # t => pc'[u] = pc[u]
    BY <1>2, <1>11 DEF CopyEntry, Goto, InBlock
  <2>3. /\ min[t] = Smaller(fax_num, r_fax_num) /\ i[t] <= min[t]
        /\ i[t] \in 0 .. MaxFax /\ min[t] \in 0 .. MaxFax
        /\ \A k \in 0 .. i[t] - 1 : Matches(k)
    BY <1>2, <1>9, <2>1 DEF CopyOf
  <2>4. \A k \in 0 .. i[t] - 1 : Matches(k)'
    BY <2>1, <2>3 DEF Matches
  <2>5. min[t] <= r_fax_num /\ Filled(r_fax_num)
    <3>1. Filled(r_fax_num)
      BY <1>10, <2>1
    <3>2. min[t] <= r_fax_num
      BY <1>2, <2>3 DEF Smaller
    <3> QED
      BY <3>1, <3>2
  <2>6. CopyOf(t)'
    <3>1. CASE i[t] >= min[t]
      <4>1. pc'[t] = "tail" /\ i[t] = min[t]
        BY <1>2, <1>11, <2>3, <3>1 DEF CopyEntry, Goto
      <4> QED
        BY <2>1, <2>3, <2>4, <4>1 DEF CopyOf
    <3>2. CASE i[t] < min[t] /\ ~Differs(fax_infos[i[t]], r_fax_infos[i[t]])
      <4>1. pc'[t] = "copy" /\ i'[t] = i[t] + 1
        BY <1>2, <1>11, <2>1, <2>3, <3>2 DEF CopyEntry
      <4>2. r_fax_infos[i[t]] = listed[i[t] + 1]
        BY <1>2, <2>3, <2>5, <3>2 DEF Filled
      <4>3. \A k : k = i[t] => Matches(k)'
        BY <2>1, <3>2, <4>2 DEF Differs, Matches
      <4>4. \A k \in 0 .. i[t] : k \in 0 .. i[t] - 1 \/ k = i[t]
        BY <2>3
      <4>5. \A k \in 0 .. i[t] : Matches(k)'
        BY <2>4, <4>3, <4>4, Zenon
      <4>6. i'[t] - 1 = i[t] /\ i'[t] <= min[t]
        BY <2>3, <3>2, <4>1
      <4> QED
        BY <2>1, <2>3, <4>1, <4>5, <4>6 DEF CopyOf
    <3>3. CASE i[t] < min[t] /\ Differs(fax_infos[i[t]], r_fax_infos[i[t]])
      <4>1. pc'[t] = "set" /\ i' = i
        BY <1>2, <1>11, <2>3, <3>3 DEF CopyEntry, Goto
      <4> QED
        BY <2>1, <2>3, <2>4, <4>1 DEF CopyOf
    <3> QED
      BY <2>3, <3>1, <3>2, <3>3
  <2> QED
    BY <1>4, <1>10, <2>1, <2>2, <2>6, BlockReload
<1>12. ASSUME NEW t \in Threads, SetEntry(t) PROVE OneInBlock' /\ FillPhase' /\ CopyPhase' /\ Settled'
  <2>1. /\ UNCHANGED <<fax_num, r_fax_infos, r_fax_num, svm_fax_reload, conf, listed, min>>
        /\ pc[t] = "set" /\ pc[t] \in InBlock
    BY <1>12 DEF SetEntry, confVars, InBlock
  <2>2. /\ pc'[t] = "copy" /\ pc'[t] \in InBlock /\ i'[t] = i[t] + 1
        /\ \A u \in Threads : u # t => pc'[u] = pc[u]
    BY <1>2, <1>12 DEF SetEntry, Goto, InBlock
  <2>3. /\ min[t] = Smaller(fax_num, r_fax_num) /\ i[t] < min[t]
        /\ i[t] \in 0 .. MaxFax /\ min[t] \in 0 .. MaxFax /\ i[t] \in Entries
        /\ \A k \in 0 .. i[t] - 1 : Matches(k)
    <3>1. /\ min[t] = Smaller(fax_num, r_fax_num) /\ i[t] < min[t]
          /\ \A k \in 0 .. i[t] - 1 : Matches(k)
      BY <1>1, <1>9, <2>1 DEF CopyOf, CursorInv
    <3>2. i[t] \in 0 .. MaxFax /\ min[t] \in 0 .. MaxFax
      BY <1>2
    <3> QED
      BY <3>1, <3>2, Constants DEF Entries
  <2>4. /\ r_fax_infos[i[t]] = listed[i[t] + 1]
        /\ r_fax_infos[i[t]] \in Server /\ fax_infos[i[t]] \in Entry
    <3>1. Filled(r_fax_num)
      BY <1>10, <2>1
    <3>2. min[t] <= r_fax_num
      BY <1>2, <2>3 DEF Smaller
    <3> QED
      BY <1>2, <2>3, <3>1, <3>2 DEF Filled
  <2>5. /\ fax_infos'[i[t]] = Copied(fax_infos[i[t]], r_fax_infos[i[t]])
        /\ \A k \in Entries : k # i[t] => fax_infos'[k] = fax_infos[k]
    BY <1>2, <1>12, <2>3 DEF SetEntry
  <2>6. \A k : k = i[t] => Matches(k)'
    <3>1. /\ Copied(fax_infos[i[t]], r_fax_infos[i[t]]).port = r_fax_infos[i[t]].port
          /\ IsPrefix(r_fax_infos[i[t]].ip, Copied(fax_infos[i[t]], r_fax_infos[i[t]]).ip)
      BY <2>4, CopiedEntry
    <3> QED
      BY <2>1, <2>4, <2>5, <3>1 DEF Matches
  <2>7. \A k \in 0 .. i[t] - 1 : Matches(k)'
    BY <2>1, <2>3, <2>5, Constants DEF Matches, Entries
  <2>8. CopyOf(t)'
    <3>1. \A k \in 0 .. i[t] : Matches(k)'
      BY <2>3, <2>6, <2>7
    <3> QED
      BY <2>1, <2>2, <2>3, <3>1 DEF CopyOf
  <2> QED
    BY <1>4, <1>10, <2>1, <2>2, <2>8, BlockReload
<1>13. ASSUME NEW t \in Threads, CopyTail(t) PROVE OneInBlock' /\ FillPhase' /\ CopyPhase' /\ Settled'
  <2>1. /\ UNCHANGED <<fax_num, r_fax_infos, r_fax_num, svm_fax_reload, conf, listed>>
        /\ pc[t] = "tail" /\ pc[t] \in InBlock
    BY <1>13 DEF CopyTail, confVars, InBlock
  <2>2. /\ pc'[t] = "zero" /\ pc'[t] \in InBlock
        /\ \A u \in Threads : u # t => pc'[u] = pc[u]
    BY <1>2, <1>13 DEF CopyTail, Goto, InBlock
  <2>3. /\ min[t] = Smaller(fax_num, r_fax_num) /\ min[t] \in 0 .. MaxFax
        /\ \A k \in 0 .. min[t] - 1 : Matches(k)
    BY <1>2, <1>9, <2>1 DEF CopyOf
  <2>4. ASSUME NEW k \in 0 .. r_fax_num - 1 PROVE Matches(k)'
    <3>1. k \in Entries /\ r_fax_infos[k] = listed[k + 1]
      <4>1. Filled(r_fax_num)
        BY <1>10, <2>1
      <4>2. k \in Nat /\ k < r_fax_num /\ r_fax_num <= MaxFax /\ r_fax_num \in Nat /\ MaxFax \in Nat
        BY <1>2, Constants
      <4> QED
        BY <4>1, <4>2 DEF Filled, Entries
    <3>2. CASE k < min[t]
      <4>1. fax_infos'[k] = fax_infos[k] /\ Matches(k)
        BY <1>2, <1>13, <2>3, <3>1, <3>2 DEF CopyTail
      <4> QED
        BY <2>1, <4>1 DEF Matches
    <3>3. CASE k >= min[t]
      <4>1. r_fax_num >= fax_num /\ k \in min[t] .. r_fax_num - 1
        BY <1>2, <2>3, <3>3 DEF Smaller
      <4>2. fax_infos'[k] = [Copied(fax_infos[k], r_fax_infos[k]) EXCEPT !.id = r_fax_infos[k].id]
        <5>1. ~(r_fax_num < fax_num)
          BY <1>2, <4>1
        <5> QED
          BY <1>13, <3>1, <4>1, <5>1 DEF CopyTail
      <4>3. /\ Copied(fax_infos[k], r_fax_infos[k]) \in Entry
            /\ Copied(fax_infos[k], r_fax_infos[k]).port = r_fax_infos[k].port
            /\ IsPrefix(r_fax_infos[k].ip, Copied(fax_infos[k], r_fax_infos[k]).ip)
        BY <1>2, <3>1, CopiedEntry
      <4>4. /\ fax_infos'[k].ip = Copied(fax_infos[k], r_fax_infos[k]).ip
            /\ fax_infos'[k].port = Copied(fax_infos[k], r_fax_infos[k]).port
        BY <4>2, <4>3 DEF Entry
      <4> QED
        BY <2>1, <3>1, <4>3, <4>4 DEF Matches
    <3> QED
      BY <1>2, <2>3, <3>2, <3>3
  <2>5. CopyOf(t)'
    BY <1>10, <2>1, <2>2, <2>4 DEF CopyOf
  <2> QED
    BY <1>4, <1>10, <2>1, <2>2, <2>5, BlockReload
<1>14. ASSUME NEW t \in Threads, ZeroReload(t) PROVE OneInBlock' /\ FillPhase' /\ CopyPhase' /\ Settled'
  <2>1. /\ UNCHANGED <<fax_infos, r_fax_num, svm_fax_reload, conf, listed>>
        /\ pc[t] = "zero" /\ pc[t] \in InBlock
    BY <1>14 DEF ZeroReload, confVars, InBlock
  <2>2. /\ pc'[t] = "leave" /\ pc'[t] \in InBlock
        /\ \A u \in Threads : u # t => pc'[u] = pc[u]
    BY <1>2, <1>14 DEF ZeroReload, Goto, InBlock
  <2>3. CopyOf(t)'
    BY <1>9, <2>1, <2>2 DEF CopyOf, Matches
  <2> QED
    BY <1>4, <1>10, <2>1, <2>2, <2>3, BlockReload
<1>15. ASSUME NEW t \in Threads, LeaveBlock(t) PROVE OneInBlock' /\ FillPhase' /\ CopyPhase' /\ Settled'
  <2>1. /\ UNCHANGED <<fax_infos, conf, listed>> /\ fax_num' = r_fax_num
        /\ pc[t] = "leave" /\ pc[t] \in InBlock
    BY <1>15 DEF LeaveBlock, confVars, InBlock
  <2>2. ~svm_fax_reload'
    BY <1>15, Zenon DEF LeaveBlock
  <2>3. \A u \in Threads : pc'[u] \notin InBlock
    BY <1>2, <1>10, <1>15, <2>1 DEF LeaveBlock, Goto, InBlock
  <2>4. conf' = "idle" /\ r_fax_num = Len(listed)
    BY <1>10, <2>1
  <2>5. Settled'
    <3>1. \A k \in 0 .. Len(listed) - 1 : Matches(k)
      BY <1>9, <2>1 DEF CopyOf
    <3> QED
      BY <2>1, <2>4, <3>1 DEF Settled, Matches
  <2>6. OneInBlock' /\ FillPhase' /\ CopyPhase'
    BY <2>2, <2>3, <2>4 DEF OneInBlock, FillPhase, CopyPhase, InBlock
  <2> QED
    BY <2>5, <2>6
<1>16. CASE ReloadBegin
  <2>1. ~svm_fax_reload /\ \A u \in Threads : pc[u] \notin InBlock
    BY <1>16, Zenon DEF ReloadBegin
  <2>2. UNCHANGED <<fax_infos, fax_num, svm_fax_reload, pc>> /\ r_fax_num' = 0 /\ conf = "idle"
    BY <1>16 DEF ReloadBegin
  <2>3. OneInBlock' /\ CopyPhase'
    BY <2>1, <2>2 DEF OneInBlock, CopyPhase, InBlock
  <2>4. CASE conf' = "fill" /\ todo' = listed' /\ listed' \in Configs
    <3>1. listed' \in Seq(Server) /\ SubSeq(listed', 1, Len(listed')) = listed'
      BY <2>4, Constants, SubSeqFull
    <3>2. FillPhase'
      BY <2>1, <2>2, <2>4, <3>1 DEF FillPhase, Filled
    <3> QED
      BY <2>3, <2>4, <3>2 DEF Settled
  <2>5. CASE UNCHANGED <<conf, todo, listed>>
    <3>1. FillPhase'
      BY <2>1, <2>2, <2>5 DEF FillPhase
    <3>2. Settled'
      BY <1>4, <2>1, <2>2, <2>5 DEF Settled, Matches
    <3> QED
      BY <2>3, <3>1, <3>2
  <2> QED
    BY <1>16, <2>4, <2>5 DEF ReloadBegin
<1>17. CASE ReloadFill
  <2>1. /\ UNCHANGED <<fax_infos, fax_num, svm_fax_reload, pc, conf, listed>> /\ conf = "fill"
        /\ todo # <<>> /\ todo' = Tail(todo) /\ r_fax_num' = r_fax_num + 1
        /\ r_fax_infos' = [r_fax_infos EXCEPT ![r_fax_num] = Head(todo)]
    BY <1>17 DEF ReloadFill
  <2>2. ~svm_fax_reload /\ Filled(r_fax_num) /\ todo = SubSeq(listed, r_fax_num + 1, Len(listed))
    BY <1>4, <2>1 DEF FillPhase
  <2>3. \A u \in Threads : pc'[u] \notin InBlock
    BY <1>4, <2>1, <2>2 DEF OneInBlock
  <2>4. OneInBlock' /\ CopyPhase' /\ Settled'
    BY <2>1, <2>3 DEF OneInBlock, CopyPhase, InBlock, Settled
  <2>5. todo \in Seq(Server) /\ r_fax_num + Len(todo) = Len(listed)
    BY <1>1, <2>1 DEF FillInv
  <2>6. r_fax_num < Len(listed) /\ r_fax_num \in Entries
    BY <1>2, <2>1, <2>5, Constants, EmptySeq DEF Entries
  <2>7. /\ Head(todo) = listed[r_fax_num + 1]
        /\ Tail(todo) = SubSeq(listed, r_fax_num + 2, Len(listed))
    BY <1>2, <2>2, <2>6
  <2>8. \A k \in 0 .. r_fax_num : r_fax_infos'[k] = listed[k + 1]
    <3>1. \A k \in 0 .. r_fax_num - 1 : r_fax_infos[k] = listed[k + 1]
      BY <2>2 DEF Filled
    <3>3. \A k \in 0 .. r_fax_num - 1 : k # r_fax_num /\ k \in Entries
      <4>1. r_fax_num \in Nat /\ r_fax_num <= MaxFax - 1 /\ MaxFax \in Nat
        BY <2>6, Constants DEF Entries
      <4> QED
        BY <4>1 DEF Entries
    <3>2. \A k \in 0 .. r_fax_num : k \in 0 .. r_fax_num - 1 \/ k = r_fax_num
      BY <1>2
    <3> QED
      BY <1>2, <2>1, <2>6, <2>7, <3>1, <3>2, <3>3
  <2>9. r_fax_num' - 1 = r_fax_num /\ r_fax_num' + 1 = r_fax_num + 2
    BY <1>2, <2>1
  <2>10. FillPhase'
    BY <2>1, <2>2, <2>7, <2>8, <2>9 DEF FillPhase, Filled
  <2> QED
    BY <2>4, <2>10
<1>18. CASE ReloadCompare
  <2>1. /\ UNCHANGED <<fax_infos, fax_num, r_fax_infos, r_fax_num, pc, listed>> /\ conf = "fill"
        /\ todo = <<>> /\ conf' = "idle"
    BY <1>18 DEF ReloadCompare
  <2>2. ~svm_fax_reload /\ Filled(r_fax_num) /\ r_fax_num = Len(listed)
    BY <1>1, <1>2, <1>4, <2>1 DEF FillPhase, FillInv
  <2>3. \A u \in Threads : pc'[u] \notin InBlock
    BY <1>4, <2>1, <2>2 DEF OneInBlock
  <2>4. OneInBlock' /\ CopyPhase'
    BY <2>3 DEF OneInBlock, CopyPhase, InBlock
  <2>5. FillPhase'
    BY <2>1, <2>2 DEF FillPhase, Filled
  <2>6. Settled'
    <3> SUFFICES ASSUME ~svm_fax_reload'
                 PROVE  fax_num = Len(listed) /\ \A k \in 0 .. fax_num - 1 : Matches(k)'
      BY <2>1 DEF Settled
    <3>1. fax_num = r_fax_num /\ \A k \in 0 .. fax_num - 1 : Addr(fax_infos[k]) = Addr(r_fax_infos[k])
      BY <1>18, Zenon DEF ReloadCompare
    <3>2. ASSUME NEW k \in 0 .. fax_num - 1 PROVE Matches(k)'
      <4>1. r_fax_infos[k] = listed[k + 1] /\ k \in Entries /\ r_fax_infos[k] \in Server
        BY <1>2, <2>2, <3>1, Constants DEF Filled, Entries
      <4>2. fax_infos[k].ip = listed[k + 1].ip /\ fax_infos[k].port = listed[k + 1].port
        BY <3>1, <4>1 DEF Addr
      <4>3. listed[k + 1].ip \in Seq(Letters)
        BY <4>1 DEF Server
      <4> QED
        BY <2>1, <4>2, <4>3 DEF Matches, IsPrefix
    <3> QED
      BY <2>2, <3>1, <3>2
  <2> QED
    BY <2>4, <2>5, <2>6
<1> QED
  BY <1>4, <1>5, <1>6, <1>7, <1>8, <1>11, <1>12, <1>13, <1>14, <1>15, <1>16, <1>17, <1>18, AsideReload
  DEF Next, Block, Round, ConfStep

-----------------------------------------------------------------------------
FaxInv == TableInv /\ RoundInv /\ (raced \/ FdInv) /\ ReloadInv

LEMMA FaxInvariant == Spec => []FaxInv
<1>1. Init => FaxInv
  BY InitTable, InitRound, InitFd, InitReload DEF FaxInv
<1>2. FaxInv /\ [Next]_vars => FaxInv'
  BY StepTable, StepRound, StepFd, StepReload DEF FaxInv
<1> QED
  BY <1>1, <1>2, PTL DEF Spec

(* The tables, cursors and descriptors keep their types: a thread's cursor   *)
(* gets behind the array only after a reload cut the list before it, or on   *)
(* the way to the next fax.                                                  *)
THEOREM DispatchTypes == Spec => []TypeOK
<1>1. FaxInv => TypeOK
  BY DEF FaxInv, TableInv
<1> QED
  BY <1>1, FaxInvariant, PTL

(* fax_pre, "traverse all fax service": a round that gives up with no reload  *)
(* in it has looked at every server, for any number of servers.              *)
THEOREM GivesUpAfterAll == Spec => []GiveUpTriedAll
<1>1. FaxInv => GiveUpTriedAll
  BY DEF FaxInv, RoundInv, GiveUpTriedAll
<1> QED
  BY <1>1, FaxInvariant, PTL

(* A descriptor in fax_infos leads to the server its entry names or is being *)
(* given up, unless two threads closed one entry or a reload changed one     *)
(* during its connect.                                                       *)
THEOREM DescriptorsNameServers == Spec => []FdNamesServer
<1>1. FaxInv => FdNamesServer
  BY DEF FaxInv, FdInv, FdNamesServer, InGap
<1> QED
  BY <1>1, FaxInvariant, PTL

(* The reload block of fax_pre installs the list of svm.yaml, while the      *)
(* other threads connect, send and close, if no other reload meets it.       *)
THEOREM ReloadsInstalled == Spec => []ReloadInstalled
<1>1. FaxInv => ReloadInstalled
  <2> SUFFICES ASSUME FaxInv, ~mixed, ~svm_fax_reload, conf = "idle"
               PROVE  /\ fax_num = Len(listed)
                      /\ \A k \in DOMAIN listed :
                            /\ IsPrefix(listed[k].ip, fax_infos[k - 1].ip)
                            /\ fax_infos[k - 1].port = listed[k].port
    BY DEF ReloadInstalled
  <2>1. fax_num = Len(listed) /\ \A k \in 0 .. fax_num - 1 : Matches(k)
    BY DEF FaxInv, ReloadInv, Settled
  <2>2. listed \in Seq(Server)
    BY Constants DEF FaxInv, TableInv, FillInv
  <2>3. ASSUME NEW k \in DOMAIN listed
        PROVE  /\ IsPrefix(listed[k].ip, fax_infos[k - 1].ip)
               /\ fax_infos[k - 1].port = listed[k].port
    <3>1. k - 1 \in 0 .. fax_num - 1 /\ (k - 1) + 1 = k
      BY <2>1, <2>2
    <3>2. Matches(k - 1)
      BY <2>1, <3>1
    <3> QED
      BY <3>1, <3>2 DEF Matches
  <2> QED
    BY <2>1, <2>3
<1> QED
  BY <1>1, FaxInvariant, PTL
=============================================================================
