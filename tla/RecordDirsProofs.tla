-------------------------- MODULE RecordDirsProofs --------------------------
(***************************************************************************)
(* The invariants of the list of disks, for any number of disks, workers,  *)
(* days, reloads and full disks.                                           *)
(***************************************************************************)
EXTENDS RecordDirs, SequenceTheorems, FiniteSetTheorems, TLAPS

(* No list is longer than the longest of vpu.yaml. *)
ListInv ==
    /\ num <= MaxNum /\ Len(r_file_dirs) <= MaxNum
    /\ conf = "fill" => Len(r_file_dirs) + Len(todo) <= MaxNum

BaseInv == TypeOK /\ ListInv

(* The disks a search at p that began at c < n still visits. *)
Left(p, c, n) ==
    IF p + 1 >= n THEN c ELSE IF p < c THEN c - p - 1 ELSE n - 1 - p + c

(* The steps made and those to come are less than the disks. *)
ScanInv ==
    \A w \in Workers :
        /\ pc[w] # "scan" => steps[w] = 0
        /\ pc[w] = "scan" /\ dir_no_cur[w] < num =>
               steps[w] + Left(dir_no[w], dir_no_cur[w], num) < num

NotAgain == {w \in Workers : pc[w] # "again"}
InReset  == {w \in Workers : pc[w] = "reset"}

(* Past the end of the list a worker counts on at most twice: with its       *)
(* second ticket, and with the next one that sends it to reset the counter.  *)
TicketInv ==
    /\ file_dir_no = 0 \/ file_dir_no < MaxNum + Cardinality(NotAgain) + Cardinality(InReset)
    /\ TicketBounded

(* Disk r has its directory for day d, or need not have it. *)
Ready(r, d) ==
    d < added[r] \/ d <= today - storage_time \/ <<r, d>> \in made \/ d - 1 \in LastDays

(* A reload is about to make the directories of r. *)
Making(r) == conf = "mkdir" /\ r \in RootsOf(r_file_dirs)

Ready2(r) == Ready(r, today) /\ (today > 1 => Ready(r, today - 1))

(* Every disk in use has its directories for today and yesterday, and for    *)
(* tomorrow once cycle_thread has seen the new day; a list that waits for    *)
(* worker 0 has all three.  So a call that is opened has its own.            *)
DirsInv ==
    ~mixed =>
        /\ conf = "fill" => ~vpu_dir_reload
        /\ \A r \in RootsOf(file_dirs) :
               Making(r) \/ (Ready2(r) /\ (last_day = today => Ready(r, today + 1)))
        /\ vpu_dir_reload =>
               \A r \in RootsOf(r_file_dirs) : Making(r) \/ (Ready2(r) /\ Ready(r, today + 1))
        /\ \A w \in Workers : pc[w] = "open" =>
               /\ pick[w].day \in {today - 1, today}
               /\ Making(pick[w].root) \/ Ready(pick[w].root, pick[w].day)

-----------------------------------------------------------------------------
(* Lists of disks. *)

Picks == [root : Roots \cup {"none"}, day : 0 .. MaxDay, noted : BOOLEAN]

LEMMA LongestList == MaxNum \in Nat \ {0} /\ \A c \in Configs : c \in Seq(Roots) /\ Len(c) <= MaxNum
<1>1. \A c \in Configs : c \in Seq(Roots)
  BY DirsAssumption
<1>2. PICK c \in Configs : c # <<>> /\ \A d \in Configs : Len(d) <= Len(c)
  BY DirsAssumption
<1>3. \E n \in {Len(d) : d \in Configs} : \A d \in Configs : Len(d) <= n
  BY <1>2
<1>4. MaxNum \in {Len(d) : d \in Configs} /\ \A d \in Configs : Len(d) <= MaxNum
  BY <1>3 DEF MaxNum
<1>5. PICK d \in Configs : MaxNum = Len(d)
  BY <1>4
<1>6. Len(c) \in Nat \ {0} /\ Len(d) \in Nat /\ Len(c) <= Len(d)
  BY <1>1, <1>2, <1>4, <1>5, EmptySeq
<1> QED
  BY <1>1, <1>4, <1>5, <1>6

LEMMA FreshList ==
    ASSUME NEW c \in Seq(Roots)
    PROVE  Fresh(c) \in Seq(Entry) /\ Len(Fresh(c)) = Len(c)
<1>1. \A k \in 1 .. Len(c) : [root |-> c[k], write_flag |-> 1] \in Entry
  BY DEF Entry
<1>2. Len(c) \in Nat
  OBVIOUS
<1> QED
  BY <1>1, <1>2 DEF Fresh

(* The disks of a list are disks. *)
LEMMA RootsTyped ==
    ASSUME NEW d \in Seq(Entry)
    PROVE  RootsOf(d) \subseteq Roots /\ \A k \in DOMAIN d : d[k].root \in RootsOf(d)
<1>1. \A k \in DOMAIN d : d[k] \in Entry
  OBVIOUS
<1> QED
  BY <1>1 DEF RootsOf, Entry

LEMMA InitBase == Init => BaseInv
<1> SUFFICES ASSUME Init PROVE BaseInv
  OBVIOUS
<1>1. PICK c \in Configs : file_dirs = Fresh(c)
  BY DEF Init
<1>2. c \in Seq(Roots) /\ Len(c) <= MaxNum /\ MaxNum \in Nat \ {0}
  BY LongestList
<1>3. file_dirs \in Seq(Entry) /\ Len(file_dirs) <= MaxNum
  BY <1>1, <1>2, FreshList
<1>4. r_file_dirs = <<>> /\ r_file_dirs \in Seq(Entry) /\ todo \in Seq(Roots) /\ Len(r_file_dirs) = 0
  BY EmptySeq DEF Init
<1>5. MaxDay \in Nat \ {0} /\ 1 \in 1 .. MaxDay
  BY DirsAssumption
<1>6. made \in SUBSET (Roots \X (1 .. MaxDay + 1))
  <2>1. RootsOf(file_dirs) \subseteq Roots /\ {1, 2} \subseteq 1 .. MaxDay + 1
    BY <1>3, <1>5, RootsTyped
  <2>2. made = RootsOf(file_dirs) \X {1, 2}
    BY DEF Init
  <2> QED
    BY <2>1, <2>2
<1>7. pick \in [Workers -> Picks] /\ \A w \in Workers : pick[w].root = "none" /\ pc[w] = "top"
  <2>1. NoPick \in Picks /\ NoPick.root = "none"
    BY <1>5 DEF NoPick, Picks
  <2> QED
    BY <2>1 DEF Init
<1>8. vpu_dir_reload \in BOOLEAN /\ mixed \in BOOLEAN
  BY Zenon DEF Init
<1>9. TypeOK
  <2>1. /\ file_dir_no \in Nat /\ dir_no \in [Workers -> Nat] /\ dir_no_cur \in [Workers -> Nat]
        /\ steps \in [Workers -> 0 .. MaxNum] /\ i \in Nat /\ added \in [Roots -> 0 .. MaxDay]
        /\ last_day \in 1 .. MaxDay /\ today \in 1 .. MaxDay
    BY <1>2, <1>5 DEF Init
  <2>2. /\ pc \in [Workers -> {"top", "reset", "again", "look", "scan", "open"}]
        /\ conf \in {"idle", "fill", "mkdir"} /\ cycle \in {"day", "sweep"}
        /\ full \subseteq Roots /\ noted \subseteq Roots
    BY DEF Init
  <2> QED
    BY <1>3, <1>4, <1>6, <1>7, <1>8, <2>1, <2>2 DEF TypeOK, Picks
<1>10. ListInv
  BY <1>2, <1>3, <1>4 DEF Init, ListInv, num
<1> QED
  BY <1>9, <1>10 DEF BaseInv

(* get_root_dir or get_filename has chosen a disk of the list. *)
LEMMA PickTyped ==
    ASSUME TypeOK, NEW k \in DOMAIN file_dirs, NEW d \in CallDay, NEW b \in BOOLEAN
    PROVE  /\ [root |-> file_dirs[k].root, day |-> d, noted |-> b] \in Picks
           /\ file_dirs[k].root # "none" /\ file_dirs[k].root \in RootsOf(file_dirs)
<1>1. file_dirs[k].root \in Roots /\ file_dirs[k].root \in RootsOf(file_dirs)
  BY RootsTyped DEF TypeOK
<1>2. d \in 0 .. MaxDay
  BY DEF CallDay
<1> QED
  BY <1>1, <1>2, DirsAssumption DEF Picks

(* What a worker's choice of disk k does. *)
LEMMA PickDirStep ==
    ASSUME TypeOK, NEW w \in Workers, NEW k \in Nat, write_flag(k) = 1, PickDir(w, k)
    PROVE  /\ \E r \in RootsOf(file_dirs), d \in CallDay, b \in BOOLEAN :
                 /\ pick' = [pick EXCEPT ![w] = [root |-> r, day |-> d, noted |-> b]]
                 /\ r \in Roots /\ r # "none"
           /\ pc' = [pc EXCEPT ![w] = "open"]
           /\ dir_no' = [dir_no EXCEPT ![w] = 0] /\ dir_no_cur' = [dir_no_cur EXCEPT ![w] = 0]
           /\ steps' = [steps EXCEPT ![w] = 0]
<1>1. k + 1 \in DOMAIN file_dirs
  BY DEF TypeOK, write_flag, num
<1>2. PICK d \in CallDay :
         pick' = [pick EXCEPT ![w] = [root |-> file_dirs[k + 1].root, day |-> d,
                                      noted |-> file_dirs[k + 1].root \in noted]]
  BY DEF PickDir
<1>2a. (file_dirs[k + 1].root \in noted) \in BOOLEAN
  OBVIOUS
<1>3. PICK b \in BOOLEAN : b = (file_dirs[k + 1].root \in noted)
  BY <1>2a, Zenon
<1>4. pick' = [pick EXCEPT ![w] = [root |-> file_dirs[k + 1].root, day |-> d, noted |-> b]]
  BY <1>2, <1>3, Zenon
<1>5. file_dirs[k + 1].root \in RootsOf(file_dirs) /\ file_dirs[k + 1].root \in Roots
  BY <1>1, RootsTyped DEF TypeOK
<1>6. file_dirs[k + 1].root # "none"
  BY <1>5, DirsAssumption
<1>7. \E r \in RootsOf(file_dirs), e \in CallDay, a \in BOOLEAN :
         /\ pick' = [pick EXCEPT ![w] = [root |-> r, day |-> e, noted |-> a]]
         /\ r \in Roots /\ r # "none"
  BY <1>4, <1>5, <1>6, Zenon
<1> QED
  BY <1>7 DEF PickDir, Goto, Forget

(* A worker's step that chooses a disk or stays without one. *)
Chooses(w) ==
    \/ /\ pick' = pick /\ pc[w] # "open" /\ pc'[w] # "open"
    \/ /\ pc'[w] = "open"
       /\ \E r \in RootsOf(file_dirs), d \in CallDay, b \in BOOLEAN :
             /\ pick' = [pick EXCEPT ![w] = [root |-> r, day |-> d, noted |-> b]]
             /\ r \in Roots /\ r # "none"
    \/ /\ pc'[w] # "open" /\ pick' = [pick EXCEPT ![w] = NoPick]

Places == {"top", "reset", "again", "look", "scan", "open"}

(* What the steps of a worker have in common. *)
WorkerMove(w) ==
    /\ Chooses(w)
    /\ \E l \in Places : pc' = [pc EXCEPT ![w] = l]
    /\ UNCHANGED <<file_dirs, vpu_dir_reload, made, confVars, cycleVars, worldVars>>
    /\ file_dir_no' \in Nat
    /\ \E n \in Nat : dir_no' = [dir_no EXCEPT ![w] = n]
    /\ \E n \in Nat : dir_no_cur' = [dir_no_cur EXCEPT ![w] = n]
    /\ \E n \in 0 .. MaxNum : steps' = [steps EXCEPT ![w] = n]

LEMMA WorkersMove ==
    ASSUME BaseInv, NEW w \in Workers, StartCall(w) \/ WorkerStep(w)
    PROVE  WorkerMove(w)
<1>1. TypeOK
  BY DEF BaseInv
<1>2. /\ pc \in [Workers -> Places] /\ dir_no \in [Workers -> Nat] /\ dir_no_cur \in [Workers -> Nat]
      /\ steps \in [Workers -> 0 .. MaxNum] /\ file_dir_no \in Nat /\ MaxNum \in Nat \ {0}
      /\ dir_no[w] \in Nat /\ dir_no_cur[w] \in Nat /\ steps[w] \in 0 .. MaxNum /\ pc[w] \in Places
      /\ num \in Nat
  BY <1>1, LongestList DEF TypeOK, Places, num
<1>3. /\ dir_no = [dir_no EXCEPT ![w] = dir_no[w]] /\ dir_no_cur = [dir_no_cur EXCEPT ![w] = dir_no_cur[w]]
      /\ steps = [steps EXCEPT ![w] = steps[w]] /\ pc = [pc EXCEPT ![w] = pc[w]]
  BY <1>2
<1>4. CASE Rejoin(w)
  <2>1. PICK k \in DOMAIN file_dirs, d \in CallDay :
           pick' = [pick EXCEPT ![w] = [root |-> file_dirs[k].root, day |-> d, noted |-> FALSE]]
    BY <1>4 DEF Rejoin
  <2>2. file_dirs[k].root \in RootsOf(file_dirs) /\ file_dirs[k].root \in Roots
        /\ file_dirs[k].root # "none" /\ FALSE \in BOOLEAN
    BY <1>1, RootsTyped, DirsAssumption DEF TypeOK
  <2>3. pc' = [pc EXCEPT ![w] = "open"] /\ pc'[w] = "open"
    BY <1>2, <1>4 DEF Rejoin, Goto
  <2>4. Chooses(w)
    BY <2>1, <2>2, <2>3, Zenon DEF Chooses
  <2> QED
    BY <1>2, <1>3, <1>4, <2>3, <2>4 DEF Rejoin, WorkerMove, Places
<1>5. CASE Ticket(w)
  <2>1. /\ dir_no' = [dir_no EXCEPT ![w] = file_dir_no] /\ file_dir_no' = file_dir_no + 1
        /\ pc[w] = "top" /\ UNCHANGED <<dir_no_cur, pick, steps>>
        /\ \E l \in {"reset", "look"} : pc' = [pc EXCEPT ![w] = l]
        /\ UNCHANGED <<file_dirs, vpu_dir_reload, made, confVars, cycleVars, worldVars>>
    BY <1>5 DEF Ticket, TakeTicket, Goto
  <2>2. file_dir_no' \in Nat /\ Chooses(w)
    BY <1>2, <2>1 DEF Chooses
  <2> QED
    BY <1>2, <1>3, <2>1, <2>2 DEF WorkerMove, Places
<1>6. CASE TicketReset(w)
  BY <1>2, <1>3, <1>6 DEF TicketReset, Goto, WorkerMove, Chooses, Places
<1>7. CASE TicketAgain(w)
  <2>1. /\ dir_no' = [dir_no EXCEPT ![w] = file_dir_no] /\ file_dir_no' = file_dir_no + 1
        /\ pc[w] = "again" /\ UNCHANGED <<dir_no_cur, pick, steps>> /\ pc' = [pc EXCEPT ![w] = "look"]
        /\ UNCHANGED <<file_dirs, vpu_dir_reload, made, confVars, cycleVars, worldVars>>
    BY <1>7 DEF TicketAgain, TakeTicket, Goto
  <2>2. file_dir_no' \in Nat /\ Chooses(w)
    BY <1>2, <2>1 DEF Chooses
  <2> QED
    BY <1>2, <1>3, <2>1, <2>2 DEF WorkerMove, Places
<1>8. ASSUME NEW k \in Nat, write_flag(k) = 1, PickDir(w, k), Look(w) \/ Scan(w) PROVE WorkerMove(w)
  <2>1. Chooses(w)
    BY <1>1, <1>2, <1>8, PickDirStep DEF Chooses
  <2>2. UNCHANGED <<file_dirs, vpu_dir_reload, made, confVars, cycleVars, worldVars, file_dir_no>>
    BY <1>8 DEF Look, Scan
  <2> QED
    BY <1>1, <1>2, <1>8, <2>1, <2>2, PickDirStep DEF WorkerMove, Places
<1>9. CASE Look(w)
  <2>1. CASE write_flag(dir_no[w]) = 1
    BY <1>2, <1>8, <1>9, <2>1 DEF Look
  <2>2. CASE write_flag(dir_no[w]) # 1
    BY <1>2, <1>3, <1>9, <2>2 DEF Look, Goto, WorkerMove, Chooses, Places
  <2> QED
    BY <2>1, <2>2
<1>10. CASE Scan(w)
  <2> DEFINE d == IF dir_no[w] + 1 >= num THEN 0 ELSE dir_no[w] + 1
  <2>1. d \in Nat
    BY <1>2
  <2>2. UNCHANGED <<file_dirs, vpu_dir_reload, made, confVars, cycleVars, worldVars, file_dir_no>>
        /\ pc[w] = "scan"
    BY <1>10 DEF Scan
  <2>3. \/ d = dir_no_cur[w] /\ Goto(w, "top") /\ Forget(w) /\ UNCHANGED pick
        \/ d # dir_no_cur[w] /\ write_flag(d) = 1 /\ PickDir(w, d)
        \/ /\ d # dir_no_cur[w] /\ write_flag(d) = 0
           /\ dir_no' = [dir_no EXCEPT ![w] = d]
           /\ steps' = [steps EXCEPT ![w] = IF @ < MaxNum THEN @ + 1 ELSE @]
           /\ UNCHANGED <<pick, pc, dir_no_cur>>
    BY <1>10 DEF Scan
  <2> HIDE DEF d
  <2>4. CASE Goto(w, "top") /\ Forget(w) /\ UNCHANGED pick
    <3>1. Chooses(w)
      BY <1>2, <2>2, <2>4 DEF Goto, Chooses
    <3>2. 0 \in 0 .. MaxNum
      BY <1>2
    <3> QED
      BY <1>2, <2>2, <2>4, <3>1, <3>2 DEF Goto, Forget, WorkerMove, Places
  <2>5. CASE /\ dir_no' = [dir_no EXCEPT ![w] = d]
             /\ steps' = [steps EXCEPT ![w] = IF @ < MaxNum THEN @ + 1 ELSE @]
             /\ UNCHANGED <<pick, pc, dir_no_cur>>
    <3>1. (IF steps[w] < MaxNum THEN steps[w] + 1 ELSE steps[w]) \in 0 .. MaxNum
      BY <1>2
    <3>2. \E n \in 0 .. MaxNum : steps' = [steps EXCEPT ![w] = n]
      BY <2>5, <3>1
    <3> QED
      BY <1>2, <1>3, <2>1, <2>2, <2>5, <3>2 DEF WorkerMove, Chooses, Places
  <2> QED
    BY <1>8, <1>10, <2>1, <2>3, <2>4, <2>5
<1>11. CASE Open(w)
  BY <1>2, <1>3, <1>11 DEF Open, Goto, WorkerMove, Chooses, Places
<1> QED
  BY <1>4, <1>5, <1>6, <1>7, <1>9, <1>10, <1>11 DEF StartCall, WorkerStep

(* The sweep changes write_flags and nothing else of the list. *)
LEMMA SweepKeeps ==
    ASSUME TypeOK, Sweep
    PROVE  file_dirs' \in Seq(Entry) /\ Len(file_dirs') = Len(file_dirs) /\ RootsOf(file_dirs') = RootsOf(file_dirs)
<1>1. file_dirs \in Seq(Entry) /\ i \in Nat
  BY DEF TypeOK
<1>2. CASE i < num
  <2>1. PICK f \in {0, 1} : file_dirs' = [file_dirs EXCEPT ![i + 1] = [file_dirs[i + 1] EXCEPT !.write_flag = f]]
    BY <1>2 DEF Sweep
  <2>2. i + 1 \in 1 .. Len(file_dirs) /\ file_dirs[i + 1] \in Entry
    BY <1>1, <1>2 DEF num
  <2>3. /\ [file_dirs[i + 1] EXCEPT !.write_flag = f] \in Entry
        /\ [file_dirs[i + 1] EXCEPT !.write_flag = f].root = file_dirs[i + 1].root
    BY <2>2 DEF Entry
  <2>4. file_dirs' \in Seq(Entry) /\ Len(file_dirs') = Len(file_dirs)
    BY <1>1, <2>1, <2>2, <2>3, ExceptSeq
  <2>5. DOMAIN file_dirs' = DOMAIN file_dirs /\ \A k \in DOMAIN file_dirs : file_dirs'[k].root = file_dirs[k].root
    BY <1>1, <2>1, <2>2, <2>3
  <2> QED
    BY <2>4, <2>5 DEF RootsOf
<1>3. CASE ~(i < num)
  BY <1>1, <1>3 DEF Sweep
<1> QED
  BY <1>2, <1>3

LEMMA StepBase == BaseInv /\ [Next]_vars => BaseInv'
<1> SUFFICES ASSUME BaseInv, [Next]_vars PROVE BaseInv'
  OBVIOUS
<1>1. TypeOK /\ ListInv
  BY DEF BaseInv
<1>2. MaxDay \in Nat \ {0} /\ MaxNum \in Nat \ {0}
  BY DirsAssumption, LongestList
<1>3. ASSUME NEW w \in Workers, StartCall(w) \/ WorkerStep(w) PROVE BaseInv'
  <2>1. WorkerMove(w)
    BY <1>3, WorkersMove
  <2>2. /\ pc' \in [Workers -> Places] /\ \A v \in Workers : v # w => pc'[v] = pc[v]
    BY <1>1, <2>1 DEF WorkerMove, TypeOK, Places
  <2>3. /\ pick' \in [Workers -> Picks] /\ \A v \in Workers : v # w => pick'[v] = pick[v]
        /\ pc'[w] = "open" <=> pick'[w].root # "none"
    <3>1. pick \in [Workers -> Picks] /\ (pc[w] = "open" <=> pick[w].root # "none")
      BY <1>1 DEF TypeOK, Picks
    <3>2. CASE pick' = pick /\ pc[w] # "open" /\ pc'[w] # "open"
      BY <3>1, <3>2
    <3>3. ASSUME NEW r \in Roots, NEW d \in CallDay, NEW b \in BOOLEAN, pc'[w] = "open", r # "none",
                 pick' = [pick EXCEPT ![w] = [root |-> r, day |-> d, noted |-> b]]
          PROVE  /\ pick' \in [Workers -> Picks] /\ \A v \in Workers : v # w => pick'[v] = pick[v]
                 /\ pc'[w] = "open" <=> pick'[w].root # "none"
      <4>1. [root |-> r, day |-> d, noted |-> b] \in Picks
        BY DEF Picks, CallDay
      <4> QED
        BY <3>1, <3>3, <4>1
    <3>4. CASE pc'[w] # "open" /\ pick' = [pick EXCEPT ![w] = NoPick]
      <4>1. NoPick \in Picks /\ NoPick.root = "none"
        BY <1>2 DEF NoPick, Picks
      <4> QED
        BY <3>1, <3>4, <4>1
    <3> QED
      BY <2>1, <3>2, <3>3, <3>4 DEF WorkerMove, Chooses
  <2>4. /\ file_dir_no' \in Nat /\ dir_no' \in [Workers -> Nat] /\ dir_no_cur' \in [Workers -> Nat]
        /\ steps' \in [Workers -> 0 .. MaxNum]
    BY <1>1, <2>1 DEF WorkerMove, TypeOK
  <2>5. UNCHANGED <<file_dirs, vpu_dir_reload, made, r_file_dirs, conf, todo, added, mixed,
                    cycle, i, last_day, noted, today, full>>
    BY <2>1 DEF WorkerMove, confVars, cycleVars, worldVars
  <2>6. TypeOK'
    BY <1>1, <2>2, <2>3, <2>4, <2>5 DEF TypeOK, Places, Picks
  <2>7. ListInv'
    BY <1>1, <2>5 DEF ListInv, num
  <2> QED
    BY <2>6, <2>7 DEF BaseInv
<1>4. CASE Install
  <2>1. vpu_dir_reload' \in BOOLEAN
    BY <1>4, Zenon DEF Install
  <2>2. TypeOK'
    BY <1>1, <1>2, <1>4, <2>1 DEF Install, TypeOK, confVars, cycleVars, worldVars
  <2>3. ListInv'
    BY <1>1, <1>4 DEF Install, ListInv, num, confVars
  <2> QED
    BY <2>2, <2>3 DEF BaseInv
<1>5. CASE ReloadBegin
  <2>1. mixed' \in BOOLEAN
    BY <1>1, <1>5, Zenon DEF TypeOK, ReloadBegin
  <2>2. todo' \in Seq(Roots) /\ Len(todo') <= MaxNum /\ r_file_dirs' = <<>> /\ r_file_dirs' \in Seq(Entry)
    BY <1>5, LongestList, EmptySeq DEF ReloadBegin
  <2>3. TypeOK'
    BY <1>1, <1>5, <2>1, <2>2 DEF ReloadBegin, TypeOK, workVars, cycleVars
  <2>4. ListInv'
    <3>1. Len(r_file_dirs') = 0 /\ Len(todo') \in Nat
      BY <2>2, EmptySeq
    <3> QED
      BY <1>1, <1>2, <1>5, <2>2, <3>1 DEF ReloadBegin, ListInv, num
  <2> QED
    BY <2>3, <2>4 DEF BaseInv
<1>6. CASE reload_fill_file_dirs
  <2>1. todo \in Seq(Roots) /\ todo # <<>> /\ r_file_dirs \in Seq(Entry)
    BY <1>1, <1>6 DEF TypeOK, reload_fill_file_dirs
  <2>2. Head(todo) \in Roots /\ Tail(todo) \in Seq(Roots) /\ Len(Tail(todo)) = Len(todo) - 1
    BY <2>1, HeadTailProperties
  <2>3. [root |-> Head(todo), write_flag |-> 1] \in Entry
    BY <2>2 DEF Entry
  <2>4. /\ r_file_dirs' \in Seq(Entry) /\ Len(r_file_dirs') = Len(r_file_dirs) + 1
        /\ todo' = Tail(todo) /\ conf = "fill"
    BY <1>6, <2>1, <2>3, AppendProperties DEF reload_fill_file_dirs
  <2>5. TypeOK'
    BY <1>1, <1>6, <2>2, <2>4 DEF reload_fill_file_dirs, TypeOK, workVars, cycleVars, worldVars
  <2>6. ListInv'
    <3>1. Len(todo) \in Nat \ {0} /\ Len(r_file_dirs) \in Nat
      BY <2>1, EmptySeq
    <3>2. Len(r_file_dirs) + Len(todo) <= MaxNum /\ num <= MaxNum
      BY <1>1, <2>4 DEF ListInv
    <3>3. Len(r_file_dirs') <= MaxNum /\ Len(r_file_dirs') + Len(todo') <= MaxNum
      BY <1>2, <2>2, <2>4, <3>1, <3>2
    <3> QED
      BY <1>6, <3>2, <3>3 DEF reload_fill_file_dirs, ListInv, num
  <2> QED
    BY <2>5, <2>6 DEF BaseInv
<1>7. CASE ReloadCompare
  <2>1. vpu_dir_reload' \in BOOLEAN
    BY <1>1, <1>7, Zenon DEF TypeOK, ReloadCompare
  <2>2. TypeOK'
    BY <1>1, <1>7, <2>1 DEF ReloadCompare, TypeOK, workVars, cycleVars, worldVars
  <2>3. ListInv'
    BY <1>1, <1>7 DEF ReloadCompare, ListInv, num
  <2> QED
    BY <2>2, <2>3 DEF BaseInv
<1>8. CASE init_reload_file_dirs
  <2>1. RootsOf(r_file_dirs) \subseteq Roots /\ today \in 1 .. MaxDay
    BY <1>1, RootsTyped DEF TypeOK
  <2>2. reload_mkdir(RootsOf(r_file_dirs)) \subseteq Roots \X (1 .. MaxDay + 1)
    <3>1. {today, today + 1} \subseteq 1 .. MaxDay + 1
      BY <1>2, <2>1
    <3> QED
      BY <2>1, <3>1 DEF reload_mkdir
  <2>3. made' \in SUBSET (Roots \X (1 .. MaxDay + 1))
    <3>1. made' = made \cup reload_mkdir(RootsOf(r_file_dirs)) /\ made \subseteq Roots \X (1 .. MaxDay + 1)
      BY <1>1, <1>8 DEF TypeOK, init_reload_file_dirs
    <3> QED
      BY <2>2, <3>1
  <2>4. added' \in [Roots -> 0 .. MaxDay]
    BY <1>1, <1>2, <1>8, <2>1 DEF TypeOK, init_reload_file_dirs
  <2>5. TypeOK'
    BY <1>1, <1>8, <2>3, <2>4 DEF init_reload_file_dirs, TypeOK, workVars, cycleVars, worldVars
  <2>6. ListInv'
    BY <1>1, <1>8 DEF init_reload_file_dirs, ListInv, num
  <2> QED
    BY <2>5, <2>6 DEF BaseInv
<1>9. CASE DayCheck
  <2>1. RootsOf(file_dirs) \subseteq Roots /\ today \in 1 .. MaxDay /\ today + 1 \in 1 .. MaxDay + 1
    BY <1>1, <1>2, RootsTyped DEF TypeOK
  <2>2. made' \in SUBSET (Roots \X (1 .. MaxDay + 1))
    <3>1. made' = made \/ made' = new_day_dirs(made, RootsOf(file_dirs))
      BY <1>9 DEF DayCheck
    <3>2. made \subseteq Roots \X (1 .. MaxDay + 1)
      BY <1>1 DEF TypeOK
    <3> QED
      BY <2>1, <3>1, <3>2 DEF new_day_dirs
  <2>3. TypeOK'
    BY <1>1, <1>9, <2>1, <2>2 DEF DayCheck, TypeOK, workVars, confVars, worldVars
  <2>4. ListInv'
    BY <1>1, <1>9 DEF DayCheck, ListInv, num, confVars
  <2> QED
    BY <2>3, <2>4 DEF BaseInv
<1>10. CASE Sweep
  <2>1. file_dirs' \in Seq(Entry) /\ Len(file_dirs') = Len(file_dirs)
    BY <1>1, <1>10, SweepKeeps
  <2>2. noted' \subseteq Roots
    <3>1. CASE i < num
      <4>1. file_dirs[i + 1].root \in Roots
        <5>1. i + 1 \in DOMAIN file_dirs
          BY <1>1, <3>1 DEF TypeOK, num
        <5> QED
          BY <1>1, <5>1, RootsTyped DEF TypeOK
      <4> QED
        BY <1>1, <1>10, <3>1, <4>1 DEF Sweep, TypeOK
    <3>2. CASE ~(i < num)
      BY <1>1, <1>10, <3>2 DEF Sweep, TypeOK
    <3> QED
      BY <3>1, <3>2
  <2>3. i' \in Nat /\ cycle' \in {"day", "sweep"}
    BY <1>1, <1>10 DEF Sweep, TypeOK
  <2>4. TypeOK'
    BY <1>1, <1>10, <2>1, <2>2, <2>3 DEF Sweep, TypeOK, workVars, confVars, worldVars
  <2>5. ListInv'
    BY <1>1, <1>10, <2>1 DEF Sweep, ListInv, num, confVars
  <2> QED
    BY <2>4, <2>5 DEF BaseInv
<1>11. CASE Midnight
  <2>1. TypeOK'
    BY <1>1, <1>2, <1>11 DEF Midnight, TypeOK, workVars, confVars, cycleVars
  <2>2. ListInv'
    BY <1>1, <1>11 DEF Midnight, ListInv, num, confVars
  <2> QED
    BY <2>1, <2>2 DEF BaseInv
<1>12. ASSUME NEW r \in Roots, DiskFill(r) PROVE BaseInv'
  <2>1. full' \subseteq Roots
    BY <1>1, <1>12 DEF DiskFill, TypeOK
  <2>2. TypeOK'
    BY <1>1, <1>12, <2>1 DEF DiskFill, TypeOK, workVars, confVars, cycleVars
  <2>3. ListInv'
    BY <1>1, <1>12 DEF DiskFill, ListInv, num, confVars
  <2> QED
    BY <2>2, <2>3 DEF BaseInv
<1>13. CASE UNCHANGED vars
  BY <1>1, <1>13 DEF BaseInv, TypeOK, ListInv, num, vars, workVars, confVars, cycleVars, worldVars
<1> QED
  BY <1>3, <1>4, <1>5, <1>6, <1>7, <1>8, <1>9, <1>10, <1>11, <1>12, <1>13 DEF Next, ConfStep

-----------------------------------------------------------------------------
(* The search for a disk. *)

LEMMA InitScan == Init => ScanInv
  BY DEF Init, ScanInv

(* One step of a search that goes on brings it nearer to its end. *)
LEMMA LeftStep ==
    ASSUME NEW n \in Nat, NEW c \in Nat, c < n, NEW p \in Nat, NEW d,
           d = IF p + 1 >= n THEN 0 ELSE p + 1
    PROVE  /\ Left(p, c, n) \in 0 .. n - 1
           /\ d # c => Left(d, c, n) = Left(p, c, n) - 1
  BY DEF Left

LEMMA StepScan == BaseInv /\ ScanInv /\ [Next]_vars => ScanInv'
<1> SUFFICES ASSUME BaseInv, ScanInv, [Next]_vars PROVE ScanInv'
  OBVIOUS
<1>1. TypeOK /\ ListInv
  BY DEF BaseInv
<1>2. /\ pc \in [Workers -> Places] /\ dir_no \in [Workers -> Nat] /\ dir_no_cur \in [Workers -> Nat]
      /\ steps \in [Workers -> 0 .. MaxNum] /\ MaxNum \in Nat \ {0} /\ num \in Nat /\ num <= MaxNum
  BY <1>1, LongestList DEF TypeOK, ListInv, Places, num
<1>3. ASSUME NEW w \in Workers, Rejoin(w) \/ Ticket(w) \/ TicketReset(w) \/ TicketAgain(w) \/ Open(w)
      PROVE  ScanInv'
  <2>1. /\ UNCHANGED <<file_dirs, dir_no_cur, steps>> /\ pc[w] # "scan" /\ pc'[w] # "scan"
        /\ \A v \in Workers : v # w => pc'[v] = pc[v] /\ dir_no'[v] = dir_no[v]
    BY <1>2, <1>3 DEF Rejoin, Ticket, TicketReset, TicketAgain, TakeTicket, Open, Goto
  <2> QED
    BY <2>1 DEF ScanInv, num
<1>4. ASSUME NEW w \in Workers, NEW k \in Nat, write_flag(k) = 1, PickDir(w, k), UNCHANGED file_dirs
      PROVE  ScanInv'
  <2>1. /\ pc' = [pc EXCEPT ![w] = "open"] /\ dir_no' = [dir_no EXCEPT ![w] = 0]
        /\ dir_no_cur' = [dir_no_cur EXCEPT ![w] = 0] /\ steps' = [steps EXCEPT ![w] = 0]
    BY <1>1, <1>4, PickDirStep
  <2> QED
    BY <1>2, <1>4, <2>1 DEF ScanInv, num
<1>5. ASSUME NEW w \in Workers, Look(w) PROVE ScanInv'
  <2>1. CASE write_flag(dir_no[w]) = 1
    BY <1>2, <1>4, <1>5, <2>1 DEF Look
  <2>2. CASE write_flag(dir_no[w]) # 1
    <3>1. /\ dir_no_cur' = [dir_no_cur EXCEPT ![w] = dir_no[w]] /\ pc[w] = "look"
          /\ pc' = [pc EXCEPT ![w] = "scan"] /\ UNCHANGED <<dir_no, steps, file_dirs>>
      BY <1>5, <2>2 DEF Look, Goto
    <3>2. steps[w] = 0 /\ dir_no[w] \in Nat
      BY <1>2, <3>1 DEF ScanInv
    <3>3. dir_no[w] < num => Left(dir_no[w], dir_no[w], num) \in 0 .. num - 1
      BY <1>2, <3>2, LeftStep
    <3>4. dir_no[w] < num => steps[w] + Left(dir_no[w], dir_no[w], num) < num
      BY <1>2, <3>2, <3>3
    <3> QED
      BY <1>2, <3>1, <3>4 DEF ScanInv, num
  <2> QED
    BY <2>1, <2>2
<1>6. ASSUME NEW w \in Workers, Scan(w) PROVE ScanInv'
  <2> DEFINE d == IF dir_no[w] + 1 >= num THEN 0 ELSE dir_no[w] + 1
  <2>1. d \in Nat
    BY <1>2
  <2>2. file_dirs' = file_dirs /\ pc[w] = "scan"
    BY <1>6 DEF Scan
  <2>3. \/ d = dir_no_cur[w] /\ Goto(w, "top") /\ Forget(w) /\ UNCHANGED pick
        \/ d # dir_no_cur[w] /\ write_flag(d) = 1 /\ PickDir(w, d)
        \/ /\ d # dir_no_cur[w] /\ write_flag(d) = 0
           /\ dir_no' = [dir_no EXCEPT ![w] = d]
           /\ steps' = [steps EXCEPT ![w] = IF @ < MaxNum THEN @ + 1 ELSE @]
           /\ UNCHANGED <<pick, pc, dir_no_cur>>
    BY <1>6 DEF Scan
  <2>4. CASE Goto(w, "top") /\ Forget(w)
    BY <1>2, <2>2, <2>4 DEF Goto, Forget, ScanInv, num
  <2>5. CASE /\ d # dir_no_cur[w]
             /\ dir_no' = [dir_no EXCEPT ![w] = d]
             /\ steps' = [steps EXCEPT ![w] = IF @ < MaxNum THEN @ + 1 ELSE @]
             /\ UNCHANGED <<pc, dir_no_cur>>
    <3>1. dir_no_cur[w] < num => Left(d, dir_no_cur[w], num) = Left(dir_no[w], dir_no_cur[w], num) - 1
                                 /\ Left(dir_no[w], dir_no_cur[w], num) \in 0 .. num - 1
      BY <1>2, <2>5, LeftStep
    <3>2. dir_no_cur[w] < num => steps[w] + Left(dir_no[w], dir_no_cur[w], num) < num
      BY <2>2 DEF ScanInv
    <3>3. steps[w] \in 0 .. MaxNum
      BY <1>2
    <3>4. steps'[w] \in {steps[w], steps[w] + 1} /\ dir_no'[w] = d
      BY <1>2, <2>5
    <3>5. dir_no_cur[w] < num => steps'[w] + Left(d, dir_no_cur[w], num) < num
      BY <1>2, <3>1, <3>2, <3>3, <3>4
    <3>6. \A v \in Workers : v # w => steps'[v] = steps[v] /\ dir_no'[v] = dir_no[v]
      BY <1>2, <2>5
    <3> HIDE DEF d
    <3> QED
      BY <2>2, <2>5, <3>4, <3>5, <3>6 DEF ScanInv, num
  <2> HIDE DEF d
  <2> QED
    BY <1>4, <2>1, <2>2, <2>3, <2>4, <2>5
<1>7. CASE Install
  <2>1. \A w \in Workers : steps'[w] = 0 /\ dir_no'[w] \in Nat /\ dir_no_cur'[w] \in Nat
    BY <1>2, <1>7 DEF Install
  <2>2. num' \in Nat
    BY <1>1, <1>7 DEF Install, num, TypeOK
  <2>3. \A w \in Workers : dir_no_cur'[w] < num' => Left(dir_no'[w], dir_no_cur'[w], num') \in 0 .. num' - 1
    BY <2>1, <2>2, LeftStep
  <2>4. \A w \in Workers : dir_no_cur'[w] < num' => steps'[w] + Left(dir_no'[w], dir_no_cur'[w], num') < num'
    BY <2>1, <2>2, <2>3
  <2> QED
    BY <2>1, <2>4 DEF ScanInv
<1>8. CASE UNCHANGED <<workVars, num>>
  BY <1>8 DEF ScanInv, workVars
<1>9. ASSUME ReloadBegin \/ ConfStep \/ DayCheck \/ Midnight \/ (\E r \in Roots : DiskFill(r)) \/ UNCHANGED vars
      PROVE  UNCHANGED <<workVars, num>>
  BY <1>9 DEF ReloadBegin, ConfStep, reload_fill_file_dirs, ReloadCompare, init_reload_file_dirs,
              DayCheck, Midnight, DiskFill, vars, num
<1>10. CASE Sweep
  BY <1>1, <1>8, <1>10, SweepKeeps DEF Sweep, num
<1> QED
  BY <1>3, <1>5, <1>6, <1>7, <1>8, <1>9, <1>10 DEF Next, StartCall, WorkerStep

-----------------------------------------------------------------------------
(* Tickets. *)

LEMMA InitTicket == Init => TicketInv
<1> SUFFICES ASSUME Init PROVE TicketInv
  OBVIOUS
<1>1. Cardinality(Workers) \in Nat \ {0}
  BY DirsAssumption, FS_CardinalityType, FS_EmptySet
<1>2. \A w \in Workers : dir_no[w] = 0
  BY DEF Init
<1>3. 0 <= MaxNum + 2 * (Cardinality(Workers) - 1)
  BY <1>1, LongestList
<1> QED
  BY <1>2, <1>3 DEF Init, TicketInv, TicketBounded

(* The workers counted, and the one at w among them. *)
LEMMA Counts ==
    ASSUME NEW w \in Workers
    PROVE  LET A == Cardinality(NotAgain)
               B == Cardinality(InReset)
               N == Cardinality(Workers)
           IN  /\ IsFiniteSet(NotAgain) /\ IsFiniteSet(InReset)
               /\ A \in Nat /\ B \in Nat /\ N \in Nat \ {0} /\ A <= N /\ B <= N
               /\ pc[w] # "reset" => B <= N - 1
               /\ pc[w] = "again" => A <= N - 1
               /\ pc[w] # "again" => A >= 1
<1>1. IsFiniteSet(Workers) /\ NotAgain \subseteq Workers /\ InReset \subseteq Workers
  BY DirsAssumption DEF NotAgain, InReset
<1>2. IsFiniteSet(NotAgain) /\ IsFiniteSet(InReset)
  BY <1>1, FS_Subset
<1>3. /\ Cardinality(NotAgain) \in Nat /\ Cardinality(InReset) \in Nat /\ Cardinality(Workers) \in Nat
      /\ Cardinality(NotAgain) <= Cardinality(Workers) /\ Cardinality(InReset) <= Cardinality(Workers)
  BY <1>1, <1>2, FS_Subset, FS_CardinalityType
<1>4. /\ IsFiniteSet(Workers \ {w}) /\ Cardinality(Workers \ {w}) = Cardinality(Workers) - 1
      /\ Cardinality(Workers \ {w}) \in Nat
  BY <1>1, FS_RemoveElement, FS_CardinalityType
<1>5. pc[w] # "reset" => Cardinality(InReset) <= Cardinality(Workers) - 1
  <2>1. pc[w] # "reset" => InReset \subseteq Workers \ {w}
    BY DEF InReset
  <2> QED
    BY <1>4, <2>1, FS_Subset
<1>6. pc[w] = "again" => Cardinality(NotAgain) <= Cardinality(Workers) - 1
  <2>1. pc[w] = "again" => NotAgain \subseteq Workers \ {w}
    BY DEF NotAgain
  <2> QED
    BY <1>4, <2>1, FS_Subset
<1>7. pc[w] # "again" => Cardinality(NotAgain) >= 1
  <2>1. pc[w] # "again" => NotAgain # {}
    BY DEF NotAgain
  <2>2. NotAgain # {} => Cardinality(NotAgain) # 0
    BY <1>2, FS_EmptySet
  <2> QED
    BY <1>3, <2>1, <2>2
<1>8. Cardinality(Workers) # 0
  BY <1>3, <1>4
<1> QED
  BY <1>2, <1>3, <1>5, <1>6, <1>7, <1>8

LEMMA StepTicket == BaseInv /\ BaseInv' /\ TicketInv /\ [Next]_vars => TicketInv'
<1> SUFFICES ASSUME BaseInv, BaseInv', TicketInv, [Next]_vars PROVE TicketInv'
  OBVIOUS
<1>1. TypeOK /\ ListInv /\ TypeOK'
  BY DEF BaseInv
<1>2. /\ pc \in [Workers -> Places] /\ dir_no \in [Workers -> Nat] /\ file_dir_no \in Nat
      /\ MaxNum \in Nat \ {0} /\ num \in Nat /\ num <= MaxNum
  BY <1>1, LongestList DEF TypeOK, ListInv, Places, num
<1> DEFINE A == Cardinality(NotAgain)
           B == Cardinality(InReset)
           N == Cardinality(Workers)
           Top == MaxNum + 2 * (N - 1)
<1>3. /\ file_dir_no = 0 \/ file_dir_no < MaxNum + A + B
      /\ \A v \in Workers : dir_no[v] <= Top
  BY DEF TicketInv, TicketBounded
<1>4. ASSUME NEW w \in Workers, dir_no' = [dir_no EXCEPT ![w] = file_dir_no],
             pc[w] \in {"top", "again"}
      PROVE  \A v \in Workers : dir_no'[v] <= Top
  <2>1. A \in Nat /\ B \in Nat /\ N \in Nat \ {0} /\ A + B <= 2 * N - 1
    BY <1>4, Counts
  <2>2. file_dir_no <= Top
    BY <1>2, <1>3, <2>1
  <2> QED
    BY <1>2, <1>3, <1>4, <2>2
<1>5. ASSUME NEW w \in Workers, Ticket(w) PROVE TicketInv'
  <2>1. /\ dir_no' = [dir_no EXCEPT ![w] = file_dir_no] /\ file_dir_no' = file_dir_no + 1
        /\ pc[w] = "top" /\ pc' = [pc EXCEPT ![w] = IF file_dir_no >= num THEN "reset" ELSE "look"]
    BY <1>5 DEF Ticket, TakeTicket, Goto
  <2>2. NotAgain' = NotAgain
    BY <1>2, <2>1 DEF NotAgain
  <2>3. IsFiniteSet(InReset) /\ w \notin InReset /\ A \in Nat \ {0} /\ B \in Nat
    BY <2>1, Counts DEF InReset
  <2>4. file_dir_no' < MaxNum + A + Cardinality(InReset')
    <3>1. CASE file_dir_no >= num
      <4>1. InReset' = InReset \cup {w}
        BY <1>2, <2>1, <3>1 DEF InReset
      <4>2. Cardinality(InReset') = B + 1
        BY <2>3, <4>1, FS_AddElement
      <4> QED
        BY <1>2, <1>3, <2>1, <2>3, <4>2
    <3>2. CASE ~(file_dir_no >= num)
      <4>1. InReset' = InReset
        BY <1>2, <2>1, <3>2 DEF InReset
      <4> QED
        BY <1>2, <2>1, <2>3, <3>2, <4>1
    <3> QED
      BY <3>1, <3>2
  <2> QED
    BY <1>4, <2>1, <2>2, <2>4 DEF TicketInv, TicketBounded
<1>6. ASSUME NEW w \in Workers, TicketAgain(w) PROVE TicketInv'
  <2>1. /\ dir_no' = [dir_no EXCEPT ![w] = file_dir_no] /\ file_dir_no' = file_dir_no + 1
        /\ pc[w] = "again" /\ pc' = [pc EXCEPT ![w] = "look"]
    BY <1>6 DEF TicketAgain, TakeTicket, Goto
  <2>2. InReset' = InReset /\ NotAgain' = NotAgain \cup {w} /\ w \notin NotAgain
    BY <1>2, <2>1 DEF NotAgain, InReset
  <2>3. IsFiniteSet(NotAgain) /\ A \in Nat /\ B \in Nat
    BY Counts
  <2>4. Cardinality(NotAgain') = A + 1
    BY <2>2, <2>3, FS_AddElement
  <2>5. file_dir_no' < MaxNum + Cardinality(NotAgain') + B
    BY <1>2, <1>3, <2>1, <2>3, <2>4
  <2> QED
    BY <1>4, <2>1, <2>2, <2>5 DEF TicketInv, TicketBounded
<1>7. ASSUME NEW w \in Workers, TicketReset(w) PROVE TicketInv'
  <2>1. file_dir_no' = 0 /\ dir_no' = dir_no
    BY <1>7 DEF TicketReset
  <2> QED
    BY <1>3, <2>1 DEF TicketInv, TicketBounded
<1>8. ASSUME NEW w \in Workers, UNCHANGED file_dir_no,
             pc[w] \notin {"reset", "again"}, pc'[w] \notin {"reset", "again"},
             \A v \in Workers : v # w => pc'[v] = pc[v],
             \A v \in Workers : dir_no'[v] <= Top
      PROVE  TicketInv'
  <2>1. NotAgain' = NotAgain /\ InReset' = InReset
    BY <1>8 DEF NotAgain, InReset
  <2> QED
    BY <1>3, <1>8, <2>1 DEF TicketInv, TicketBounded
<1>9. 0 <= Top
  <2>1. N \in Nat \ {0}
    BY DirsAssumption, FS_CardinalityType, FS_EmptySet
  <2> QED
    BY <1>2, <2>1
<1> HIDE DEF Top
<1>10. ASSUME NEW w \in Workers, Rejoin(w) \/ Open(w) PROVE TicketInv'
  <2>1. /\ UNCHANGED <<file_dir_no, dir_no>> /\ pc[w] \in {"top", "open"}
        /\ \E l \in {"top", "open"} : pc' = [pc EXCEPT ![w] = l]
    BY <1>10 DEF Rejoin, Open, Goto
  <2> QED
    BY <1>2, <1>3, <1>8, <2>1
<1>11. ASSUME NEW w \in Workers, Look(w) PROVE TicketInv'
  <2>1. /\ file_dir_no' = file_dir_no /\ pc[w] = "look"
        /\ \E l \in {"scan", "open"} : pc' = [pc EXCEPT ![w] = l]
        /\ dir_no' = dir_no \/ dir_no' = [dir_no EXCEPT ![w] = 0]
    BY <1>11 DEF Look, PickDir, Goto, Forget
  <2> QED
    BY <1>2, <1>3, <1>8, <1>9, <2>1
<1>12. ASSUME NEW w \in Workers, Scan(w) PROVE TicketInv'
  <2>1. file_dir_no' = file_dir_no /\ pc[w] = "scan"
    BY <1>12 DEF Scan
  <2>2. pc' = pc \/ \E l \in {"top", "open"} : pc' = [pc EXCEPT ![w] = l]
    BY <1>12 DEF Scan, PickDir, Goto
  <2>3. \/ dir_no' = [dir_no EXCEPT ![w] = 0]
        \/ dir_no' = [dir_no EXCEPT ![w] = dir_no[w] + 1] /\ dir_no[w] + 1 < num
    <3>1. dir_no[w] + 1 >= num \/ dir_no[w] + 1 < num
      BY <1>2
    <3> QED
      BY <1>12, <3>1 DEF Scan, PickDir, Forget
  <2>4. MaxNum <= Top
    <3>1. N \in Nat \ {0}
      BY DirsAssumption, FS_CardinalityType, FS_EmptySet
    <3> QED
      BY <1>2, <3>1 DEF Top
  <2>5. \A v \in Workers : dir_no'[v] <= Top
    <3>1. Top \in Int
      BY <1>2, DirsAssumption, FS_CardinalityType DEF Top
    <3> QED
      BY <1>2, <1>3, <1>9, <2>3, <2>4, <3>1
  <2> QED
    BY <1>2, <1>8, <2>1, <2>2, <2>5
<1>13. CASE UNCHANGED <<pc, dir_no, file_dir_no>>
  BY <1>3, <1>13 DEF TicketInv, TicketBounded, NotAgain, InReset
<1>14. ASSUME \/ Install \/ ReloadBegin \/ ConfStep \/ DayCheck \/ Sweep \/ Midnight
              \/ (\E r \in Roots : DiskFill(r)) \/ UNCHANGED vars
       PROVE  UNCHANGED <<pc, dir_no, file_dir_no>>
  BY <1>14 DEF Install, ReloadBegin, ConfStep, reload_fill_file_dirs, ReloadCompare, init_reload_file_dirs,
               DayCheck, Sweep, Midnight, DiskFill, vars, workVars
<1> QED
  BY <1>5, <1>6, <1>7, <1>10, <1>11, <1>12, <1>13, <1>14 DEF Next, StartCall, WorkerStep

-----------------------------------------------------------------------------
(* Directories. *)

LEMMA InitDirs == Init => DirsInv
<1> SUFFICES ASSUME Init PROVE DirsInv
  OBVIOUS
<1>1. /\ today = 1 /\ last_day = 1 /\ conf = "idle" /\ made = RootsOf(file_dirs) \X {1, 2}
      /\ \A w \in Workers : pc[w] = "top"
  BY DEF Init
<1>2. ~vpu_dir_reload
  BY Zenon DEF Init
<1>3. \A r \in RootsOf(file_dirs) : <<r, 1>> \in made /\ <<r, 2>> \in made
  BY <1>1
<1> QED
  BY <1>1, <1>2, <1>3 DEF DirsInv, Ready2, Ready

(* A day that was kept enough stays so as time goes on. *)
LEMMA KeptEnough ==
    ASSUME NEW a \in Int, NEW b \in Int, NEW c \in Int, NEW d \in Int, b >= a, d <= a - c
    PROVE  d <= b - c
  OBVIOUS

(* A step of the world or of cycle_thread takes no directory that is needed. *)
LEMMA ReadyStays ==
    ASSUME NEW r, NEW d \in Int, Ready(r, d), added' = added,
           today \in Int, today' \in Int, today' >= today,
           <<r, d>> \in made => <<r, d>> \in made' \/ d <= today - storage_time
    PROVE  Ready(r, d)'
<1>1. storage_time \in Int
  BY DirsAssumption
<1>2. d <= today - storage_time => d <= today' - storage_time
  BY <1>1, KeptEnough
<1> QED
  BY <1>2, Zenon DEF Ready

LEMMA StepDirs == BaseInv /\ DirsInv /\ [Next]_vars => DirsInv'
<1> SUFFICES ASSUME BaseInv, DirsInv, [Next]_vars, ~mixed' PROVE DirsInv'
  BY DEF DirsInv
<1>1. TypeOK
  BY DEF BaseInv
<1>2. /\ pc \in [Workers -> Places] /\ pick \in [Workers -> Picks] /\ today \in 1 .. MaxDay
      /\ RootsOf(file_dirs) \subseteq Roots /\ RootsOf(r_file_dirs) \subseteq Roots
      /\ MaxDay \in Nat /\ storage_time \in Nat \ {0}
      /\ \A w \in Workers : pick[w].day \in 0 .. MaxDay
  BY <1>1, RootsTyped, DirsAssumption DEF TypeOK, Places, Picks
<1>3. ~mixed
  BY DEF Next, StartCall, WorkerStep, ConfStep, Install, Rejoin, Ticket, TicketReset, TicketAgain, Look, Scan,
         Open, ReloadBegin, reload_fill_file_dirs, ReloadCompare, init_reload_file_dirs, DayCheck, Sweep,
         Midnight, DiskFill, vars, confVars
<1> DEFINE InUse == \A r \in RootsOf(file_dirs) :
                       Making(r) \/ (Ready2(r) /\ (last_day = today => Ready(r, today + 1)))
           Waiting == vpu_dir_reload =>
                         \A r \in RootsOf(r_file_dirs) : Making(r) \/ (Ready2(r) /\ Ready(r, today + 1))
           Opening == \A w \in Workers : pc[w] = "open" =>
                         /\ pick[w].day \in {today - 1, today}
                         /\ Making(pick[w].root) \/ Ready(pick[w].root, pick[w].day)
<1>4. (conf = "fill" => ~vpu_dir_reload) /\ InUse /\ Waiting /\ Opening
  BY <1>3 DEF DirsInv
<1>5. ASSUME (conf' = "fill" => ~vpu_dir_reload'), InUse', Waiting', Opening' PROVE DirsInv'
  BY <1>5 DEF DirsInv
<1>6. ASSUME NEW w \in Workers, StartCall(w) \/ WorkerStep(w) PROVE DirsInv'
  <2>1. WorkerMove(w)
    BY <1>6, WorkersMove
  <2>2. UNCHANGED <<file_dirs, vpu_dir_reload, made, r_file_dirs, conf, added, last_day, today>>
    BY <2>1 DEF WorkerMove, confVars, cycleVars, worldVars
  <2>3. \A r, d : (Making(r) <=> Making(r)') /\ (Ready(r, d) <=> Ready(r, d)') /\ (Ready2(r) <=> Ready2(r)')
    BY <2>2 DEF Making, Ready, Ready2
  <2>4. Opening'
    <3>1. ASSUME NEW v \in Workers, v # w, pc'[v] = "open"
          PROVE  /\ pick'[v].day \in {today - 1, today}
                 /\ Making(pick[v].root) \/ Ready(pick[v].root, pick[v].day)
                 /\ pick'[v] = pick[v]
      <4>1. pc[v] = "open" /\ pick'[v] = pick[v]
        BY <1>2, <2>1, <3>1 DEF WorkerMove, Chooses
      <4> QED
        BY <1>4, <4>1
    <3>2. ASSUME pc'[w] = "open"
          PROVE  \E r \in RootsOf(file_dirs), d \in CallDay :
                    /\ pick'[w].root = r /\ pick'[w].day = d
                    /\ Making(r) \/ Ready(r, d)
      <4>1. PICK r \in RootsOf(file_dirs), d \in CallDay, b \in BOOLEAN :
               pick' = [pick EXCEPT ![w] = [root |-> r, day |-> d, noted |-> b]]
        BY <2>1, <3>2 DEF WorkerMove, Chooses
      <4>2. pick'[w].root = r /\ pick'[w].day = d
        BY <1>2, <4>1
      <4>3. d = today \/ (d = today - 1 /\ today > 1)
        BY <1>2 DEF CallDay
      <4>4. Making(r) \/ Ready(r, d)
        BY <1>4, <4>3 DEF Ready2
      <4> QED
        BY <4>2, <4>4
    <3>3. \A d \in CallDay : d \in {today - 1, today}
      BY DEF CallDay
    <3> QED
      BY <2>2, <2>3, <3>1, <3>2, <3>3
  <2>5. InUse' /\ Waiting'
    BY <1>4, <2>2, <2>3 DEF Making, Ready, Ready2
  <2> QED
    BY <1>4, <1>5, <2>2, <2>4, <2>5
<1>7. CASE Install
  <2>1. /\ UNCHANGED <<made, r_file_dirs, conf, added, last_day, today, pc, pick>>
        /\ file_dirs' = r_file_dirs
    BY <1>7 DEF Install, confVars, cycleVars, worldVars
  <2>2. vpu_dir_reload /\ ~vpu_dir_reload'
    BY <1>7, Zenon DEF Install
  <2>3. InUse'
    BY <1>4, <2>1, <2>2 DEF Making, Ready, Ready2
  <2>4. Opening'
    BY <1>4, <2>1 DEF Making, Ready
  <2> QED
    BY <1>5, <2>2, <2>3, <2>4
<1>8. CASE ReloadBegin
  <2>1. ~vpu_dir_reload
    BY <1>8, Zenon DEF ReloadBegin
  <2>2. /\ UNCHANGED <<file_dirs, vpu_dir_reload, made, added, last_day, today, pc, pick>> /\ conf = "idle"
    BY <1>8 DEF ReloadBegin, workVars, cycleVars
  <2>3. InUse'
    BY <1>4, <2>2 DEF Making, Ready, Ready2
  <2>4. Opening'
    BY <1>4, <2>2 DEF Making, Ready
  <2> QED
    BY <1>5, <2>1, <2>2, <2>3, <2>4
<1>9. CASE reload_fill_file_dirs
  <2>1. /\ UNCHANGED <<file_dirs, vpu_dir_reload, made, added, last_day, today, pc, pick, conf>> /\ conf = "fill"
    BY <1>9 DEF reload_fill_file_dirs, workVars, cycleVars, worldVars
  <2>2. InUse'
    BY <1>4, <2>1 DEF Making, Ready, Ready2
  <2>3. Opening'
    BY <1>4, <2>1 DEF Making, Ready
  <2> QED
    BY <1>4, <1>5, <2>1, <2>2, <2>3
<1>10. CASE ReloadCompare
  <2>1. /\ UNCHANGED <<file_dirs, r_file_dirs, made, added, last_day, today, pc, pick>> /\ conf = "fill"
    BY <1>10 DEF ReloadCompare, workVars, cycleVars, worldVars
  <2>2. conf' = "mkdir" \/ (conf' = "idle" /\ vpu_dir_reload' = vpu_dir_reload)
    BY <1>10 DEF ReloadCompare
  <2>3. InUse'
    BY <1>4, <2>1, <2>2 DEF Making, Ready, Ready2
  <2>4. Opening'
    BY <1>4, <2>1, <2>2 DEF Making, Ready
  <2>5. Waiting'
    BY <1>4, <2>1, <2>2 DEF Making
  <2> QED
    BY <1>5, <2>2, <2>3, <2>4, <2>5
<1>11. CASE init_reload_file_dirs
  <2>1. /\ UNCHANGED <<file_dirs, vpu_dir_reload, r_file_dirs, last_day, today, pc, pick>>
        /\ conf = "mkdir" /\ conf' = "idle"
    BY <1>11 DEF init_reload_file_dirs, workVars, cycleVars, worldVars
  <2>2. ASSUME NEW r \in RootsOf(r_file_dirs)
        PROVE  Ready(r, today)' /\ Ready(r, today + 1)' /\ \A d : d = today - 1 => Ready(r, d)'
    <3>1. made' = made \cup (RootsOf(r_file_dirs) \X (IF today \in LastDays THEN {today} ELSE {today, today + 1}))
      BY <1>11 DEF init_reload_file_dirs, reload_mkdir
    <3>2. <<r, today>> \in made' /\ (today \notin LastDays => <<r, today + 1>> \in made')
      BY <3>1
    <3>3. (today + 1) - 1 = today
      BY <1>2
    <3>4. <<r, today - 1>> \in made' \/ added'[r] = today
      BY <1>2, <1>11, <3>1 DEF init_reload_file_dirs
    <3>5. \A d : d = today - 1 => Ready(r, d)'
      BY <1>2, <2>1, <3>4 DEF Ready
    <3> QED
      BY <2>1, <3>2, <3>3, <3>5 DEF Ready
  <2>3. ASSUME NEW r \in Roots, r \notin RootsOf(r_file_dirs), NEW d, Ready(r, d) PROVE Ready(r, d)'
    <3>1. added'[r] = added[r] /\ made \subseteq made'
      BY <1>11, <2>3 DEF init_reload_file_dirs
    <3> QED
      BY <2>1, <2>3, <3>1 DEF Ready
  <2>4. \A r \in RootsOf(r_file_dirs) : Ready2(r)' /\ Ready(r, today + 1)'
    BY <2>1, <2>2 DEF Ready2
  <2>5. InUse'
    <3> SUFFICES ASSUME NEW r \in RootsOf(file_dirs), r \notin RootsOf(r_file_dirs)
                 PROVE  Ready2(r)' /\ (last_day = today => Ready(r, today + 1)')
      BY <2>1, <2>4
    <3>1. Ready2(r) /\ (last_day = today => Ready(r, today + 1)) /\ r \in Roots
      BY <1>2, <1>4 DEF Making
    <3>2. \A d : Ready(r, d) => Ready(r, d)'
      BY <2>3, <3>1
    <3> QED
      BY <2>1, <3>1, <3>2 DEF Ready2
  <2>6. Opening'
    <3> SUFFICES ASSUME NEW w \in Workers, pc[w] = "open"
                 PROVE  /\ pick[w].day \in {today - 1, today}
                        /\ Ready(pick[w].root, pick[w].day)'
      BY <2>1
    <3>1. pick[w].day \in {today - 1, today} /\ (Making(pick[w].root) \/ Ready(pick[w].root, pick[w].day))
      BY <1>4
    <3>2. CASE pick[w].root \in RootsOf(r_file_dirs)
      BY <2>1, <2>2, <3>1, <3>2 DEF Ready
    <3>3. CASE pick[w].root \notin RootsOf(r_file_dirs)
      <4>1. pick[w].root \in Roots
        BY <1>1 DEF TypeOK
      <4> QED
        BY <2>1, <2>3, <3>1, <3>3, <4>1 DEF Making, Ready
    <3> QED
      BY <3>2, <3>3
  <2> QED
    BY <1>5, <2>1, <2>4, <2>5, <2>6
<1>12. CASE DayCheck
  <2>1. /\ UNCHANGED <<file_dirs, vpu_dir_reload, r_file_dirs, conf, added, today, pc, pick>> /\ last_day' = today
    BY <1>12 DEF DayCheck, workVars, confVars, worldVars
  <2>2. \A r, d : <<r, d>> \in made => <<r, d>> \in made' \/ d = today - storage_time
    BY <1>12 DEF DayCheck, new_day_dirs
  <2>3. \A r : \A d \in Int : Ready(r, d) => Ready(r, d)'
    <3>1. today \in Int /\ today' \in Int /\ today' >= today /\ added' = added
      BY <1>2, <2>1
    <3>2. \A d \in Int : d = today - storage_time => d <= today - storage_time
      BY <1>2, <3>1
    <3> QED
      BY <2>2, <3>1, <3>2, ReadyStays
  <2>4. \A r : Ready2(r) => Ready2(r)'
    BY <1>2, <2>1, <2>3 DEF Ready2
  <2>5. today \in Int /\ today + 1 \in Int /\ \A w \in Workers : pick[w].day \in Int
    BY <1>2
  <2>6. ASSUME NEW r \in RootsOf(file_dirs), last_day = today => Ready(r, today + 1)
        PROVE  \A d : d = today + 1 => Ready(r, d)'
    <3>1. CASE last_day = today
      BY <2>3, <2>5, <2>6, <3>1
    <3>2. CASE last_day # today
      <4>1. today + 1 # today - storage_time
        BY <1>2
      <4>2. <<r, today + 1>> \in made'
        BY <1>12, <3>2, <4>1 DEF DayCheck, new_day_dirs
      <4> QED
        BY <4>2 DEF Ready
    <3> QED
      BY <3>1, <3>2
  <2>7. InUse'
    BY <1>4, <2>1, <2>4, <2>6 DEF Making
  <2>8. Waiting'
    <3>1. \A r : Ready(r, today + 1) => Ready(r, today + 1)'
      BY <2>1, <2>3, <2>5 DEF Ready
    <3> QED
      BY <1>4, <2>1, <2>4, <3>1 DEF Making
  <2>9. Opening'
    <3>1. \A w \in Workers : Ready(pick[w].root, pick[w].day) => Ready(pick[w].root, pick[w].day)'
      BY <2>1, <2>3, <2>5 DEF Ready
    <3> QED
      BY <1>4, <2>1, <3>1 DEF Making
  <2> QED
    BY <1>4, <1>5, <2>1, <2>7, <2>8, <2>9
<1>13. CASE Sweep
  <2>1. UNCHANGED <<vpu_dir_reload, r_file_dirs, conf, added, today, pc, pick, made, last_day>>
    BY <1>13 DEF Sweep, workVars, confVars, worldVars
  <2>2. RootsOf(file_dirs') = RootsOf(file_dirs)
    BY <1>1, <1>13, SweepKeeps
  <2>3. InUse'
    BY <1>4, <2>1, <2>2 DEF Making, Ready2, Ready
  <2>4. Waiting' /\ Opening'
    BY <1>4, <2>1 DEF Making, Ready2, Ready
  <2> QED
    BY <1>4, <1>5, <2>1, <2>3, <2>4
<1>14. CASE Midnight
  <2>1. /\ UNCHANGED <<file_dirs, vpu_dir_reload, r_file_dirs, conf, added, pc, pick, made, last_day>>
        /\ today' = today + 1 /\ last_day = today
        /\ \A w \in Workers : pc[w] = "open" => pick[w].day = today
    BY <1>14 DEF Midnight, workVars, confVars, cycleVars
  <2>2. ~vpu_dir_reload
    BY <1>14 DEF Midnight
  <2>3. today \in Int /\ today + 1 \in Int /\ today' - 1 = today /\ last_day # today'
    BY <1>2, <2>1
  <2>4. \A r : \A d \in Int : Ready(r, d) => Ready(r, d)'
    <3>1. today \in Int /\ today' \in Int /\ today' >= today /\ added' = added /\ made' = made
      BY <1>2, <2>1
    <3> QED
      BY <3>1, ReadyStays
  <2>5. InUse'
    <3>1. ASSUME NEW r, Ready(r, today), Ready(r, today + 1) PROVE Ready2(r)'
      <4>1. \A d : d = today \/ d = today' => Ready(r, d)'
        BY <2>1, <2>3, <2>4, <3>1
      <4> QED
        BY <2>3, <4>1 DEF Ready2
    <3> QED
      BY <1>4, <2>1, <2>3, <3>1 DEF Making, Ready2
  <2>6. Opening'
    <3> SUFFICES ASSUME NEW w \in Workers, pc[w] = "open"
                 PROVE  pick[w].day = today' - 1 /\ (Making(pick[w].root)' \/ Ready(pick[w].root, pick[w].day)')
      BY <2>1
    <3>1. pick[w].day = today /\ (Making(pick[w].root) \/ Ready(pick[w].root, today))
      BY <1>4, <2>1
    <3>2. \A d : d = today /\ Ready(pick[w].root, d) => Ready(pick[w].root, d)'
      BY <2>1, <2>3, <2>4 DEF Ready
    <3> QED
      BY <2>1, <2>3, <3>1, <3>2 DEF Making, Ready
  <2> QED
    BY <1>5, <2>1, <2>2, <2>5, <2>6
<1>15. ASSUME (\E r \in Roots : DiskFill(r)) \/ UNCHANGED vars PROVE DirsInv'
  <2>1. UNCHANGED <<file_dirs, vpu_dir_reload, r_file_dirs, conf, added, today, pc, pick, made, last_day>>
    BY <1>15 DEF DiskFill, vars, workVars, confVars, cycleVars, worldVars
  <2>2. InUse' /\ Waiting' /\ Opening'
    BY <1>4, <2>1 DEF Making, Ready2, Ready
  <2> QED
    BY <1>4, <1>5, <2>1, <2>2
<1> HIDE DEF InUse, Waiting, Opening
<1> QED
  BY <1>6, <1>7, <1>8, <1>9, <1>10, <1>11, <1>12, <1>13, <1>14, <1>15 DEF Next, ConfStep

-----------------------------------------------------------------------------
RecordInv == BaseInv /\ ScanInv /\ TicketInv /\ DirsInv

LEMMA RecordInvariant == Spec => []RecordInv
<1>1. Init => RecordInv
  BY InitBase, InitScan, InitTicket, InitDirs DEF RecordInv
<1>2. RecordInv /\ [Next]_vars => RecordInv'
  BY StepBase, StepScan, StepTicket, StepDirs DEF RecordInv
<1> QED
  BY <1>1, <1>2, PTL DEF Spec

(* The lists, tickets and directories keep their types; a worker at fopen    *)
(* has a disk.                                                               *)
THEOREM DirTypes == Spec => []TypeOK
<1>1. RecordInv => TypeOK
  BY DEF RecordInv, BaseInv
<1> QED
  BY <1>1, RecordInvariant, PTL

(* However many workers race in get_root_dir, a ticket is past the longest   *)
(* list by at most two for every other worker.                               *)
THEOREM TicketsAreBounded == Spec => []TicketBounded
<1>1. RecordInv => TicketBounded
  BY DEF RecordInv, TicketInv
<1> QED
  BY <1>1, RecordInvariant, PTL

(* The search of get_root_dir that began inside the list visits no disk      *)
(* twice, though cycle_thread changes write_flags and a reload the list.     *)
THEOREM ScansAreBounded == Spec => []ScanBounded
<1>1. RecordInv => ScanBounded
  <2> SUFFICES ASSUME RecordInv, NEW w \in Workers, pc[w] = "scan", dir_no_cur[w] < num
               PROVE  steps[w] < num
    BY DEF ScanBounded
  <2>1. num \in Nat /\ dir_no[w] \in Nat /\ dir_no_cur[w] \in Nat /\ steps[w] \in Int
    BY LongestList DEF RecordInv, BaseInv, TypeOK, num
  <2>2. Left(dir_no[w], dir_no_cur[w], num) \in 0 .. num - 1
    BY <2>1, LeftStep
  <2>3. steps[w] + Left(dir_no[w], dir_no_cur[w], num) < num
    BY DEF RecordInv, ScanInv
  <2> QED
    BY <2>1, <2>2, <2>3
<1> QED
  BY <1>1, RecordInvariant, PTL

(* fopen finds the directory of its call's day, except in the gaps that      *)
(* OpenReady names.                                                          *)
THEOREM OpensAreReady == Spec => []OpenReady
<1>1. RecordInv => OpenReady
  <2> SUFFICES ASSUME RecordInv, ~mixed, NEW w \in Workers, pc[w] = "open", conf # "mkdir",
                      pick[w].day >= added[pick[w].root], pick[w].day > today - storage_time
               PROVE  <<pick[w].root, pick[w].day>> \in made \/ pick[w].day - 1 \in LastDays
    BY DEF OpenReady
  <2>1. Ready(pick[w].root, pick[w].day)
    BY DEF RecordInv, DirsInv, Making
  <2>2. pick[w].day \in Int /\ today \in Int /\ storage_time \in Int /\ added[pick[w].root] \in Int
    <3>1. pick[w].root \in Roots
      BY DEF RecordInv, BaseInv, TypeOK
    <3> QED
      BY <3>1, DirsAssumption DEF RecordInv, BaseInv, TypeOK
  <2> QED
    BY <2>1, <2>2 DEF Ready
<1> QED
  BY <1>1, RecordInvariant, PTL
=============================================================================
