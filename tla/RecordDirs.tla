----------------------------- MODULE RecordDirs -----------------------------
(***************************************************************************)
(* file_dirs: the disks that recordings go to.  The workers take a ticket  *)
(* to spread the calls over them (get_root_dir, get_filename), cycle_thread *)
(* marks full disks, makes the next day's directories and removes old      *)
(* ones, and a reload of vpu.yaml (conn_ma, conf.c) prepares a new list    *)
(* that worker 0 copies in.  There is no lock.                             *)
(*                                                                         *)
(* An array is the sequence of its first num entries; the entries behind   *)
(* are zero, so their write_flag is 0.  A day stands for the tree of       *)
(* directories create_file_dirs makes for it.  A recording goes to the day *)
(* its call began (in its id): today, or yesterday for a call that is not  *)
(* yet too long.                                                           *)
(***************************************************************************)
EXTENDS Integers, Sequences, FiniteSets

CONSTANTS
    Roots,          \* disks
    Workers, Zero,  \* worker threads (8 in the code); worker 0
    Configs,        \* the lists of roots vpu.yaml may have
    LastDays,       \* days that are the last of a month
    storage_time,   \* days a recording is kept
    MaxDay,         \* bound: days
    MaxChanges      \* bound: reloads, and disks filling up or being emptied

ASSUME DirsAssumption ==
    /\ IsFiniteSet(Workers) /\ Zero \in Workers
    /\ "none" \notin Roots /\ Configs \subseteq Seq(Roots)
    /\ \E c \in Configs : c # <<>> /\ \A d \in Configs : Len(d) <= Len(c)
    /\ storage_time \in Nat \ {0} /\ MaxDay \in Nat \ {0}

VARIABLES
    file_dirs, r_file_dirs, vpu_dir_reload, file_dir_no,
    pc, dir_no, dir_no_cur, pick,   \* the workers, in get_root_dir
    conf, todo,                     \* conn_ma: where it is, roots still to fill in
    cycle, i, last_day,             \* cycle_thread
    today, made, full,              \* the world: date, directories, full disks
    steps,                          \* history: scan steps over this list, per worker
    noted,                          \* history: disks the last sweep found full
    added,                          \* history: per disk, day of the reload it has its directories from
    mixed,                          \* history: a reload began before the last one was copied in
    changes                         \* counts up to the bound

workVars  == <<file_dir_no, pc, dir_no, dir_no_cur, pick, steps>>
confVars  == <<r_file_dirs, conf, todo, added, mixed>>
cycleVars == <<cycle, i, last_day, noted>>
worldVars == <<today, full, changes>>
vars == <<file_dirs, vpu_dir_reload, made, workVars, confVars, cycleVars, worldVars>>

Entry  == [root : Roots, write_flag : {0, 1}]
num    == Len(file_dirs)
MaxNum == CHOOSE n \in {Len(c) : c \in Configs} : \A c \in Configs : Len(c) <= n

NoPick == [root |-> "none", day |-> 0, noted |-> FALSE]

TypeOK ==
    /\ file_dirs \in Seq(Entry) /\ r_file_dirs \in Seq(Entry)
    /\ vpu_dir_reload \in BOOLEAN /\ file_dir_no \in Nat
    /\ pc \in [Workers -> {"top", "reset", "again", "look", "scan", "open"}]
    /\ dir_no \in [Workers -> Nat] /\ dir_no_cur \in [Workers -> Nat]
    /\ steps \in [Workers -> 0 .. MaxNum]
    /\ pick \in [Workers -> [root : Roots \cup {"none"}, day : 0 .. MaxDay, noted : BOOLEAN]]
    /\ \A w \in Workers : pc[w] = "open" <=> pick[w].root # "none"
    /\ conf \in {"idle", "fill", "mkdir"} /\ todo \in Seq(Roots)
    /\ cycle \in {"day", "sweep"} /\ i \in Nat
    /\ last_day \in 1 .. MaxDay /\ today \in 1 .. MaxDay
    /\ made \in SUBSET (Roots \X (1 .. MaxDay + 1))
    /\ full \subseteq Roots /\ noted \subseteq Roots
    /\ added \in [Roots -> 0 .. MaxDay] /\ mixed \in BOOLEAN

Fresh(list) == [k \in 1 .. Len(list) |-> [root |-> list[k], write_flag |-> 1]]

RootsOf(d) == {d[k].root : k \in DOMAIN d}

(* file_dirs_parser and init_file_dirs; num = 0 ends the program. *)
Init ==
    /\ \E c \in Configs : c # <<>> /\ file_dirs = Fresh(c)
    /\ made = RootsOf(file_dirs) \X {1, 2}
    /\ r_file_dirs = <<>> /\ vpu_dir_reload = FALSE /\ file_dir_no = 0
    /\ pc = [w \in Workers |-> "top"]
    /\ dir_no = [w \in Workers |-> 0] /\ dir_no_cur = [w \in Workers |-> 0]
    /\ pick = [w \in Workers |-> NoPick] /\ steps = [w \in Workers |-> 0]
    /\ conf = "idle" /\ todo = <<>>
    /\ cycle = "day" /\ i = 0 /\ last_day = 1 /\ today = 1
    /\ full = {} /\ noted = {} /\ added = [r \in Roots |-> 0] /\ mixed = FALSE
    /\ changes = 0

(* write_flag of dirs[k]; k counts from 0. *)
write_flag(k) == IF k < num THEN file_dirs[k + 1].write_flag ELSE 0

-----------------------------------------------------------------------------
(* The workers *)

(* Worker 0 copies a new list in before its next packet. *)
Install ==
    /\ pc[Zero] = "top" /\ vpu_dir_reload
    /\ file_dirs' = r_file_dirs
    /\ vpu_dir_reload' = FALSE
    /\ steps' = [w \in Workers |-> 0]
    /\ UNCHANGED <<made, file_dir_no, pc, dir_no, dir_no_cur, pick, confVars, cycleVars, worldVars>>

Goto(w, l) == pc' = [pc EXCEPT ![w] = l]

(* The day in a call's id; older calls are too long to be started. *)
CallDay == {today - 1, today} \cap 1 .. MaxDay

(* get_filename, not the first packet of the call: a disk that has its file. *)
Rejoin(w) ==
    /\ pc[w] = "top" /\ ~vpu_dir_reload
    /\ \E k \in DOMAIN file_dirs, d \in CallDay :
          /\ <<file_dirs[k].root, d>> \in made
          /\ pick' = [pick EXCEPT ![w] = [root |-> file_dirs[k].root, day |-> d, noted |-> FALSE]]
    /\ Goto(w, "open")
    /\ UNCHANGED <<file_dirs, vpu_dir_reload, made, file_dir_no, dir_no, dir_no_cur, steps,
                   confVars, cycleVars, worldVars>>

TakeTicket(w) ==
    /\ dir_no' = [dir_no EXCEPT ![w] = file_dir_no]
    /\ file_dir_no' = file_dir_no + 1

(* A new call; the others wait for worker 0 while a reload is pending. *)
Ticket(w) ==
    /\ pc[w] = "top" /\ ~vpu_dir_reload
    /\ TakeTicket(w)
    /\ Goto(w, IF file_dir_no >= num THEN "reset" ELSE "look")
    /\ UNCHANGED <<file_dirs, vpu_dir_reload, made, dir_no_cur, pick, steps, confVars, cycleVars, worldVars>>

no_reset_TicketReset(w) ==
    /\ pc[w] = "reset" /\ file_dir_no < 9
    /\ Goto(w, "again")
    /\ UNCHANGED <<file_dirs, vpu_dir_reload, made, file_dir_no, dir_no, dir_no_cur, pick, steps,
                   confVars, cycleVars, worldVars>>

TicketReset(w) ==
    /\ pc[w] = "reset"
    /\ file_dir_no' = 0
    /\ Goto(w, "again")
    /\ UNCHANGED <<file_dirs, vpu_dir_reload, made, dir_no, dir_no_cur, pick, steps,
                   confVars, cycleVars, worldVars>>

(* Not checked a second time: other workers may have counted on meanwhile. *)
TicketAgain(w) ==
    /\ pc[w] = "again"
    /\ TakeTicket(w)
    /\ Goto(w, "look")
    /\ UNCHANGED <<file_dirs, vpu_dir_reload, made, dir_no_cur, pick, steps, confVars, cycleVars, worldVars>>

(* get_root_dir returns; its locals are gone. *)
Forget(w) ==
    /\ dir_no' = [dir_no EXCEPT ![w] = 0]
    /\ dir_no_cur' = [dir_no_cur EXCEPT ![w] = 0]
    /\ steps' = [steps EXCEPT ![w] = 0]

PickDir(w, k) ==
    LET r == file_dirs[k + 1].root
    IN  /\ \E d \in CallDay : pick' = [pick EXCEPT ![w] = [root |-> r, day |-> d, noted |-> r \in noted]]
        /\ Goto(w, "open")
        /\ Forget(w)

Look(w) ==
    /\ pc[w] = "look"
    /\ IF write_flag(dir_no[w]) = 1
       THEN PickDir(w, dir_no[w])
       ELSE /\ dir_no_cur' = [dir_no_cur EXCEPT ![w] = dir_no[w]]
            /\ Goto(w, "scan") /\ UNCHANGED <<pick, dir_no, steps>>
    /\ UNCHANGED <<file_dirs, vpu_dir_reload, made, file_dir_no, confVars, cycleVars, worldVars>>

no_break_Scan(w) ==
    LET d == IF dir_no[w] + 1 >= num THEN 0 ELSE dir_no[w] + 1
    IN  /\ pc[w] = "scan"
        /\ \/ write_flag(d) = 1 /\ PickDir(w, d)
           \/ /\ write_flag(d) = 0
              /\ dir_no' = [dir_no EXCEPT ![w] = d]
              /\ steps' = [steps EXCEPT ![w] = IF @ < MaxNum THEN @ + 1 ELSE @]
              /\ UNCHANGED <<pick, pc, dir_no_cur>>
        /\ UNCHANGED <<file_dirs, vpu_dir_reload, made, file_dir_no,
                       confVars, cycleVars, worldVars>>

(* The next disk; back at the first one, the call gets no file. *)
Scan(w) ==
    LET d == IF dir_no[w] + 1 >= num THEN 0 ELSE dir_no[w] + 1
    IN  /\ pc[w] = "scan"
        /\ \/ d = dir_no_cur[w] /\ Goto(w, "top") /\ Forget(w) /\ UNCHANGED pick
           \/ d # dir_no_cur[w] /\ write_flag(d) = 1 /\ PickDir(w, d)
           \/ /\ d # dir_no_cur[w] /\ write_flag(d) = 0
              /\ dir_no' = [dir_no EXCEPT ![w] = d]
              /\ steps' = [steps EXCEPT ![w] = IF @ < MaxNum THEN @ + 1 ELSE @]
              /\ UNCHANGED <<pick, pc, dir_no_cur>>
        /\ UNCHANGED <<file_dirs, vpu_dir_reload, made, file_dir_no,
                       confVars, cycleVars, worldVars>>

(* fopen of both files, in the directory of the call's day. *)
Open(w) ==
    /\ pc[w] = "open"
    /\ pick' = [pick EXCEPT ![w] = NoPick]
    /\ Goto(w, "top")
    /\ UNCHANGED <<file_dirs, vpu_dir_reload, made, file_dir_no, dir_no, dir_no_cur, steps,
                   confVars, cycleVars, worldVars>>

-----------------------------------------------------------------------------
(* conn_ma: reload_file_dirs *)

ReloadBegin ==
    /\ conf = "idle" /\ changes < MaxChanges /\ changes' = changes + 1
    /\ r_file_dirs' = <<>>
    /\ todo' \in Configs
    /\ conf' = "fill"
    /\ mixed' = (mixed \/ vpu_dir_reload)
    /\ UNCHANGED <<added, file_dirs, vpu_dir_reload, made, workVars, cycleVars, today, full>>

reload_fill_file_dirs ==
    /\ conf = "fill" /\ todo # <<>>
    /\ r_file_dirs' = Append(r_file_dirs, [root |-> Head(todo), write_flag |-> 1])
    /\ todo' = Tail(todo)
    /\ UNCHANGED <<conf, added, mixed, file_dirs, vpu_dir_reload, made, workVars, cycleVars, worldVars>>

(* An empty list is not announced, nor one equal to the list in use, its    *)
(* write_flags included.                                                    *)
ReloadCompare ==
    /\ conf = "fill" /\ todo = <<>>
    /\ IF r_file_dirs # file_dirs /\ r_file_dirs # <<>>
       THEN vpu_dir_reload' = TRUE /\ conf' = "mkdir"
       ELSE vpu_dir_reload' = vpu_dir_reload /\ conf' = "idle"
    /\ UNCHANGED <<r_file_dirs, todo, added, mixed, file_dirs, made, workVars, cycleVars, worldVars>>

(* tm_mday + 1 is no date on the last day of a month. *)
reload_mkdir(roots) == roots \X (IF today \in LastDays THEN {today} ELSE {today, today + 1})

init_reload_file_dirs ==
    /\ conf = "mkdir"
    /\ made' = made \cup reload_mkdir(RootsOf(r_file_dirs))
    /\ added' = [r \in Roots |->
                    IF r \in RootsOf(r_file_dirs) /\ ~({<<r, today - 1>>, <<r, today>>} \subseteq made)
                    THEN today ELSE added[r]]
    /\ conf' = "idle"
    /\ UNCHANGED <<r_file_dirs, todo, mixed, file_dirs, vpu_dir_reload, workVars, cycleVars, worldVars>>

-----------------------------------------------------------------------------
(* cycle_thread *)

no_nextday_dirs(d, roots) == d \ (roots \X {today - storage_time})

(* create_all_dirs for tomorrow, and rm -rf of a day that was kept enough. *)
new_day_dirs(d, roots) ==
    (d \cup (roots \X {today + 1})) \ (roots \X {today - storage_time})

DayCheck ==
    /\ cycle = "day"
    /\ made' = IF today # last_day THEN new_day_dirs(made, RootsOf(file_dirs)) ELSE made
    /\ last_day' = today
    /\ cycle' = "sweep" /\ i' = 0
    /\ UNCHANGED <<noted, file_dirs, vpu_dir_reload, workVars, confVars, worldVars>>

(* statfs of one disk; the slots in between are in VoiceSlot. *)
Sweep ==
    /\ cycle = "sweep"
    /\ IF i < num
       THEN LET r == file_dirs[i + 1].root
            IN  /\ file_dirs' = [file_dirs EXCEPT ![i + 1].write_flag = IF r \in full THEN 0 ELSE 1]
                /\ noted' = IF r \in full THEN noted \cup {r} ELSE noted \ {r}
                /\ i' = i + 1 /\ cycle' = cycle
       ELSE cycle' = "day" /\ i' = 0 /\ UNCHANGED <<file_dirs, noted>>
    /\ UNCHANGED <<last_day, vpu_dir_reload, made, workVars, confVars, worldVars>>

-----------------------------------------------------------------------------
(* The world.  cycle_thread looks at the date every minute, worker 0 is not   *)
(* held up over midnight, and opening a file takes less than a day.           *)
Midnight ==
    /\ today < MaxDay /\ last_day = today /\ ~vpu_dir_reload
    /\ \A w \in Workers : pc[w] = "open" => pick[w].day = today
    /\ today' = today + 1
    /\ UNCHANGED <<full, changes, file_dirs, vpu_dir_reload, made, workVars, confVars, cycleVars>>

DiskFill(r) ==
    /\ changes < MaxChanges /\ changes' = changes + 1
    /\ full' = IF r \in full THEN full \ {r} ELSE full \cup {r}
    /\ UNCHANGED <<today, file_dirs, vpu_dir_reload, made, workVars, confVars, cycleVars>>

StartCall(w)  == Rejoin(w) \/ Ticket(w)
WorkerStep(w) == TicketReset(w) \/ TicketAgain(w) \/ Look(w) \/ Scan(w) \/ Open(w)

ConfStep == reload_fill_file_dirs \/ ReloadCompare \/ init_reload_file_dirs

Next ==
    \/ Install \/ (\E w \in Workers : StartCall(w) \/ WorkerStep(w))
    \/ ReloadBegin \/ ConfStep
    \/ DayCheck \/ Sweep
    \/ Midnight \/ (\E r \in Roots : DiskFill(r))

Spec == Init /\ [][Next]_vars
-----------------------------------------------------------------------------
(* The second ticket is used unchecked, but however the workers race it is    *)
(* past the end of the list by at most two for every other worker.            *)
TicketBounded ==
    \A w \in Workers : dir_no[w] <= MaxNum + 2 * (Cardinality(Workers) - 1)

(* When a recording is opened, the directory of its call's day is there, as   *)
(* it was made a day ahead for every disk in use, or by the reload the disk    *)
(* has its directories from, and is not yet removed (with storage_time = 1    *)
(* yesterday's is).                                                           *)
(* Three gaps: while a reload still makes the directories of a list it        *)
(* already announced; on the first of a month (a reload on the last day of a  *)
(* month does not make it); and once a second reload began before worker 0    *)
(* had copied the first one's list, as it may then copy a list that is being  *)
(* filled, which afterwards counts as unchanged and gets no directories.      *)
OpenReady ==
    \A w \in Workers :
        LET r == pick[w].root
            d == pick[w].day
        IN  pc[w] = "open" /\ d >= added[r] /\ d > today - storage_time
                => <<r, d>> \in made \/ conf = "mkdir" \/ d - 1 \in LastDays \/ mixed

(* The search for a disk that is not full visits no disk twice and then gives *)
(* up, also when all are full, unless it began past the end of the list (see  *)
(* TicketBounded, or a reload made the list shorter): then it goes round      *)
(* until a disk has room, with the slot's mutex held.                         *)
ScanBounded ==
    \A w \in Workers : pc[w] = "scan" /\ dir_no_cur[w] < num => steps[w] < num

(* "left ...GB space only, no more data write to it!": a disk that the last    *)
(* sweep found full is not picked for a new call.                              *)
FullNotWritten == \A w \in Workers : pc[w] = "open" => ~pick[w].noted
=============================================================================
