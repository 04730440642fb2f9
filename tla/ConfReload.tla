----------------------------- MODULE ConfReload -----------------------------
(***************************************************************************)
(* Reloading the configuration while the program runs.  The management     *)
(* server tells conn_ma (conn_serv.c) to read vpu.yaml, svm.yaml or        *)
(* dms.yaml again; the reload functions of conf.c store what has changed   *)
(* and set a flag for the thread concerned, which closes its connection    *)
(* and makes it again with the stored address.  Values and flags are       *)
(* shared without a lock.                                                  *)
(*                                                                         *)
(* A file that cannot be read to its end leaves the tree behind:           *)
(* ConfDeInit is only called after a complete one, and ConfInit keeps an   *)
(* old tree.  The list of fax servers is in FaxDispatch, the list of       *)
(* disks in RecordDirs; the logging parameters are left out.               *)
(***************************************************************************)
EXTENDS ConfTree

CONSTANTS
    Files,          \* what a reload may find: [name, doc, cut], see Load
    Numbers,        \* the numbers that occur as text
    FirstAddr,      \* the addresses stored by get_svm_conf and get_dms_conf
    DevMac, Dev,    \* vpu_conf.dev_mac and vpu_conf.dev
    MaxCmds,        \* bound on the commands of the management server
    MaxLost         \* bound on the connections lost

Clients == {"cdr", "server", "sguard", "ma"}
Changeable == {"cdr", "server"}     \* whose address a reload stores
ServerPort == 9000
MaxDays    == 1024
NoAddr     == [ip |-> "", port |-> 0]

ASSUME ConfAssumption ==
    /\ Numbers \subseteq Nat /\ {0, 1} \subseteq Numbers
    /\ \A f \in Files : f.name \in {"vpu.yaml", "svm.yaml", "dms.yaml"}
    /\ FirstAddr \in [Clients -> [ip : STRING, port : Nat]]
    /\ MaxCmds \in Nat /\ MaxLost \in Nat

VARIABLES
    conf,           \* the tree, root of yaml_conf.c
    pc,             \* where conn_ma is
    file, before,   \* the file being applied, and the tree before it was read
    new, target,    \* the address about to be stored, and whose it is
    addr,           \* cdr_ip and cdr_port, server_ip and server_port, vpu_conf's ports
    reload,         \* svm_cdr_reload, svm_vpu_reload, dms_sguard_reload, dms_ma_reload, vpu_dev_reload
    vpu_id, storage_time, disk_left,
    conn,           \* the address each connection was made with
    port_read,      \* the port a thread has read on its way to connect, or None
    reopened,       \* the io thread has opened the device, and not yet cleared its flag
    cmds, lost

mavars  == <<conf, pc, file, before, new, target, addr, vpu_id, storage_time, disk_left, cmds>>
vars    == <<mavars, reload, conn, port_read, reopened, lost>>

Pcs == {"idle", "cdr", "server", "store_ip", "store_port", "store_flag", "vpu_id", "dev", "days",
        "clamp", "disk", "clamp_disk", "sguard", "ma", "deinit", "crashed"}

Running == pc # "crashed"       \* a NULL value ends the program

NoFile == [name |-> "", doc |-> <<>>, cut |-> 0]

(* connect2cdr, connect2sguard, connect2ma: an empty address or a closed     *)
(* port is an error; create_tcp_server has a port of its own for port 0.     *)
Reached(c, a) ==
    IF c = "server" THEN [a EXCEPT !.port = IF @ = 0 THEN ServerPort ELSE @] ELSE a

Usable(c, a) == a.ip # "" /\ Reached(c, a).port # 0

(* The threads have made their first connections where they can. *)
Init ==
    /\ conf = EmptyTree
    /\ pc = "idle"
    /\ file = NoFile /\ before = EmptyTree
    /\ new = NoAddr /\ target = "cdr"
    /\ addr = FirstAddr
    /\ conn = [c \in Clients |-> IF Usable(c, FirstAddr[c]) THEN Reached(c, FirstAddr[c]) ELSE NoAddr]
    /\ reload = [c \in Clients \cup {"dev"} |-> FALSE]
    /\ vpu_id = 1 /\ storage_time = 90 /\ disk_left = 5
    /\ port_read = [c \in Clients |-> None]
    /\ reopened = FALSE
    /\ cmds = 0 /\ lost = 0

(* atoi: text that is no number is 0. *)
Atoi(s) == IF \E k \in Numbers : ToString(k) = s THEN CHOOSE k \in Numbers : ToString(k) = s ELSE 0

-----------------------------------------------------------------------------
(* conn_ma: reading a file *)

Complete(f) == f.cut = Len(Events(f.doc))

First(name) == CASE name = "svm.yaml" -> "cdr" [] name = "vpu.yaml" -> "vpu_id" [] name = "dms.yaml" -> "sguard"

no_error_Load(f) ==
    /\ conf' = ConfYamlLoadFile(conf, Events(f.doc), f.cut)
    /\ before' = conf
    /\ pc' = First(f.name)
    /\ file' = f

(* ConfInit and ConfYamlLoadFile: the file is opened and its first cut       *)
(* events can be read.  On an error the reload function returns.             *)
Load(f) ==
    /\ conf' = ConfYamlLoadFile(conf, Events(f.doc), f.cut)
    /\ IF Complete(f)
       THEN before' = conf /\ pc' = First(f.name) /\ file' = f
       ELSE before' = EmptyTree /\ pc' = "idle" /\ file' = NoFile

(* A command of the management server.  ma_cmd_reload adds the length of an  *)
(* element to left where it should take it away, so that it may go on with   *)
(* an older command behind the message: a second command here.               *)
ma_cmd_reload ==
    /\ pc = "idle"
    /\ conn["ma"] # NoAddr
    /\ cmds < MaxCmds
    /\ cmds' = cmds + 1
    /\ \E f \in Files : Load(f)
    /\ UNCHANGED <<new, target, addr, vpu_id, storage_time, disk_left,
                   reload, conn, port_read, reopened, lost>>

-----------------------------------------------------------------------------
(* conn_ma: what the reload functions make of the tree *)

Scalar(key) == ConfGet(conf, <<key>>)

CdrIp   == ConfGet(conf, <<"cdr", "ip">>)
CdrPort == ConfGet(conf, <<"cdr", "vpuport">>)

CdrAddr == [ip |-> IF CdrIp = NotFound THEN "" ELSE CdrIp,
            port |-> IF CdrPort = NotFound THEN 0 ELSE Atoi(CdrPort)]

(* The list vpu: an entry is read up to an id or a mac that is not ours, or   *)
(* to a value that is not there.  Only entries that begin with the id count. *)
Stops(sub) ==
    \/ sub[1] = "id" /\ (Atoi(sub[2]) = 0 \/ Atoi(sub[2]) # vpu_id)
    \/ sub[1] = "mac" /\ sub[2] # DevMac
    \/ sub[1] \in {"ip", "port"} /\ sub[2] = NULL

StopAt(item) == Min({j \in DOMAIN item.subs : Stops(item.subs[j])} \cup {Len(item.subs) + 1})

ServerCrash ==
    \E item \in Range(Items(conf, "vpu")) :
        \/ item.val = NULL
        \/ item.val = "id" /\ StopAt(item) \in DOMAIN item.subs /\ item.subs[StopAt(item)][2] = NULL

ServerSubs ==
    LET items == SelectSeq(Items(conf, "vpu"), LAMBDA item : item.val = "id")
    IN  FlattenSeq([j \in DOMAIN items |-> SubSeq(items[j].subs, 1, StopAt(items[j]) - 1)])

(* The last value read; a wrong mac after the right id has none. *)
LastSub(name, default) ==
    LET js == {j \in DOMAIN ServerSubs : ServerSubs[j][1] = name}
    IN  IF js = {} THEN default ELSE ServerSubs[Max(js)][2]

ServerAddr == [ip |-> LastSub("ip", ""), port |-> Atoi(LastSub("port", ""))]

(* strlen, strcmp or atoi of a node that never got its value. *)
Faulty ==
    CASE pc = "cdr"    -> NULL \in {CdrIp, CdrPort}
      [] pc = "server" -> ServerCrash
      [] pc = "vpu_id" -> Scalar("id") = NULL
      [] pc = "dev"    -> Scalar("dev") = NULL
      [] pc = "days"   -> Scalar("storage-time") = NULL
      [] pc = "disk"   -> Scalar("disk-left") = NULL
      [] pc = "sguard" -> ConfGet(conf, <<"ma", "sguardport">>) = NULL
      [] pc = "ma"     -> ConfGet(conf, <<"ma", "maport">>) = NULL
      [] OTHER         -> FALSE

NullUsed ==
    /\ Faulty
    /\ pc' = "crashed"
    /\ UNCHANGED <<conf, file, before, new, target, addr, vpu_id, storage_time, disk_left, cmds,
                   reload, conn, port_read, reopened, lost>>

(* A step of the reload functions; what it changes is added by the caller. *)
Step(from, to) ==
    /\ pc = from /\ ~Faulty
    /\ pc' = to
    /\ UNCHANGED <<file, before, cmds, conn, port_read, reopened, lost>>

-----------------------------------------------------------------------------
(* conn_ma: svm.yaml *)

After(c) == IF c = "cdr" THEN "server" ELSE "deinit"

(* Compare with the stored address; if it differs, it is stored next. *)
Compare(c, a) ==
    /\ Step(c, IF a # addr[c] THEN "store_ip" ELSE After(c))
    /\ new' = a /\ target' = c
    /\ UNCHANGED <<conf, addr, reload, vpu_id, storage_time, disk_left>>

reload_cdr_ip_port == Compare("cdr", CdrAddr)

(* Without an entry of our id nothing is stored. *)
reload_server_ip_port == Compare("server", IF LastSub("id", "") # "" THEN ServerAddr ELSE addr["server"])

StoreIp ==
    /\ Step("store_ip", "store_port")
    /\ addr' = [addr EXCEPT ![target].ip = new.ip]
    /\ UNCHANGED <<conf, new, target, reload, vpu_id, storage_time, disk_left>>

StorePort ==
    /\ Step("store_port", "store_flag")
    /\ addr' = [addr EXCEPT ![target].port = new.port]
    /\ UNCHANGED <<conf, new, target, reload, vpu_id, storage_time, disk_left>>

SetReload ==
    /\ Step("store_flag", After(target))
    /\ reload' = [reload EXCEPT ![target] = TRUE]
    /\ UNCHANGED <<conf, new, target, addr, vpu_id, storage_time, disk_left>>

-----------------------------------------------------------------------------
(* conn_ma: vpu.yaml and dms.yaml *)

(* The number in the file, or what it was if the file does not have it. *)
NumberOr(v, old) == IF v = NotFound THEN old ELSE Atoi(v)

InRange(n, default) == IF n <= 0 \/ n > MaxDays THEN default ELSE n

reload_vpu_id ==
    /\ Step("vpu_id", "dev")
    /\ vpu_id' = NumberOr(Scalar("id"), vpu_id)
    /\ UNCHANGED <<conf, new, target, addr, reload, storage_time, disk_left>>

(* The name is compared and not stored. *)
reload_dev_parser ==
    /\ Step("dev", "days")
    /\ reload' = [reload EXCEPT !["dev"] = @ \/ Scalar("dev") \notin {NotFound, Dev}]
    /\ UNCHANGED <<conf, new, target, addr, vpu_id, storage_time, disk_left>>

(* The number is stored as it stands and brought into range afterwards, both *)
(* in the variable that cycle_thread reads; disk_left likewise.              *)
reload_storage_time ==
    /\ Step("days", "clamp")
    /\ storage_time' = NumberOr(Scalar("storage-time"), storage_time)
    /\ UNCHANGED <<conf, new, target, addr, reload, vpu_id, disk_left>>

off_by_one_ClampStorage ==
    /\ Step("clamp", "disk")
    /\ storage_time' = IF storage_time > MaxDays + 1 THEN 90 ELSE storage_time
    /\ UNCHANGED <<conf, new, target, addr, reload, vpu_id, disk_left>>

ClampStorage ==
    /\ Step("clamp", "disk")
    /\ storage_time' = InRange(storage_time, 90)
    /\ UNCHANGED <<conf, new, target, addr, reload, vpu_id, disk_left>>

reload_disk_left ==
    /\ Step("disk", "clamp_disk")
    /\ disk_left' = NumberOr(Scalar("disk-left"), disk_left)
    /\ UNCHANGED <<conf, new, target, addr, reload, vpu_id, storage_time>>

ClampDisk ==
    /\ Step("clamp_disk", "deinit")
    /\ disk_left' = InRange(disk_left, 5)
    /\ UNCHANGED <<conf, new, target, addr, reload, vpu_id, storage_time>>

(* Like the device, a changed port only sets the flag. *)
ReloadPort(c, key, to) ==
    LET v == ConfGet(conf, <<"ma", key>>)
    IN  /\ Step(c, to)
        /\ reload' = [reload EXCEPT ![c] = @ \/ (v # NotFound /\ Atoi(v) \notin {0, addr[c].port})]
        /\ UNCHANGED <<conf, new, target, addr, vpu_id, storage_time, disk_left>>

reload_sguard_port == ReloadPort("sguard", "sguardport", "ma")
reload_ma_port     == ReloadPort("ma", "maport", "deinit")

ConfDeInit ==
    /\ pc = "deinit"
    /\ pc' = "idle"
    /\ conf' = EmptyTree /\ before' = EmptyTree /\ file' = NoFile
    /\ UNCHANGED <<new, target, addr, vpu_id, storage_time, disk_left, cmds,
                   reload, conn, port_read, reopened, lost>>

-----------------------------------------------------------------------------
(* The threads whose address it is.  conn_ma makes its own connection only   *)
(* between two commands.                                                     *)

AtTop(c) == Running /\ port_read[c] = None /\ (c = "ma" => pc = "idle")

(* The flag: close, and clear it before the address is read. *)
CloseOnReload(c) ==
    /\ AtTop(c) /\ reload[c]
    /\ conn' = [conn EXCEPT ![c] = NoAddr]
    /\ reload' = [reload EXCEPT ![c] = FALSE]
    /\ UNCHANGED <<mavars, port_read, reopened, lost>>

ReadPort(c) ==
    /\ AtTop(c) /\ conn[c] = NoAddr
    /\ port_read' = [port_read EXCEPT ![c] = addr[c].port]
    /\ UNCHANGED <<mavars, reload, conn, reopened, lost>>

late_clear_Connect(c) ==
    LET a == [ip |-> addr[c].ip, port |-> port_read[c]]
    IN  /\ Running /\ port_read[c] # None /\ Usable(c, a)
        /\ conn' = [conn EXCEPT ![c] = Reached(c, a)]
        /\ port_read' = [port_read EXCEPT ![c] = None]
        /\ reload' = [reload EXCEPT ![c] = FALSE]
        /\ UNCHANGED <<mavars, reopened, lost>>

Connect(c) ==
    LET a == [ip |-> addr[c].ip, port |-> port_read[c]]
    IN  /\ Running /\ port_read[c] # None /\ Usable(c, a)
        /\ conn' = [conn EXCEPT ![c] = Reached(c, a)]
        /\ port_read' = [port_read EXCEPT ![c] = None]
        /\ UNCHANGED <<mavars, reload, reopened, lost>>

ConnectFails(c) ==
    /\ Running /\ port_read[c] # None
    /\ port_read' = [port_read EXCEPT ![c] = None]
    /\ UNCHANGED <<mavars, reload, conn, reopened, lost>>

(* The peer goes away; the file server's socket only listens. *)
Lose(c) ==
    /\ AtTop(c) /\ conn[c] # NoAddr /\ c # "server"
    /\ lost < MaxLost /\ lost' = lost + 1
    /\ conn' = [conn EXCEPT ![c] = NoAddr]
    /\ UNCHANGED <<mavars, reload, port_read, reopened>>

(* vpu_io_thread opens the device again, the same one as before, and then    *)
(* clears the flag.                                                          *)
ReopenDev ==
    /\ Running /\ reload["dev"] /\ ~reopened /\ reopened' = TRUE
    /\ UNCHANGED <<mavars, reload, conn, port_read, lost>>

ClearDev ==
    /\ Running /\ reopened /\ reopened' = FALSE
    /\ reload' = [reload EXCEPT !["dev"] = FALSE]
    /\ UNCHANGED <<mavars, conn, port_read, lost>>

-----------------------------------------------------------------------------
Applying ==
    \/ NullUsed
    \/ reload_cdr_ip_port \/ reload_server_ip_port \/ StoreIp \/ StorePort \/ SetReload
    \/ reload_vpu_id \/ reload_dev_parser \/ reload_storage_time \/ ClampStorage
    \/ reload_disk_left \/ ClampDisk
    \/ reload_sguard_port \/ reload_ma_port
    \/ ConfDeInit

Next ==
    \/ ma_cmd_reload
    \/ Applying
    \/ \E c \in Clients : CloseOnReload(c) \/ ReadPort(c) \/ Connect(c) \/ ConnectFails(c) \/ Lose(c)
    \/ ReopenDev \/ ClearDev

Spec == Init /\ [][Next]_vars

(* The threads run; a server that can be reached answers some day.  A reload  *)
(* under way goes on: the first conjunct says that conn_ma leaves each place, *)
(* which is weak fairness of Applying, as all its steps move pc.              *)
FairSpec ==
    /\ Spec
    /\ WF_pc(pc \notin {"idle", "crashed"} /\ pc' \in Pcs)
    /\ \A c \in Clients :
          /\ WF_vars(CloseOnReload(c)) /\ WF_vars(ReadPort(c))
          /\ WF_vars(Connect(c) \/ ConnectFails(c)) /\ SF_vars(Connect(c))
    /\ WF_vars(ReopenDev) /\ WF_vars(ClearDev)

-----------------------------------------------------------------------------
(* Properties *)

(* The shared values; storage_time and disk_left are in range except between *)
(* the two stores of their reload functions.                                 *)
TypeOK ==
    /\ pc \in Pcs
    /\ reopened \in BOOLEAN
    /\ reload \in [Clients \cup {"dev"} -> BOOLEAN]
    /\ \A c \in Clients : addr[c].port \in Nat /\ conn[c].port \in Nat /\ port_read[c] \in Nat \cup {None}
    /\ vpu_id \in Numbers
    /\ pc # "clamp" => storage_time \in 1 .. MaxDays
    /\ pc # "clamp_disk" => disk_left \in 1 .. MaxDays
    /\ cmds \in 0 .. MaxCmds /\ lost \in 0 .. MaxLost
    /\ pc = "idle" => file = NoFile

(* While a file is applied, the tree says what the file says: a value of the *)
(* file hides an old one, what the file does not have is what an earlier     *)
(* failed reload left, and lists are appended to what it left.  A key        *)
(* written with an underscore does not find the old value, which stays.      *)
Paths == {<<"cdr", "ip">>, <<"cdr", "vpuport">>, <<"ma", "sguardport">>, <<"ma", "maport">>,
          <<"id">>, <<"dev">>, <<"storage-time">>, <<"disk-left">>}

WrittenMangled(doc, path) ==
    \E j \in DOMAIN doc : doc[j].key # path[1] /\ Mangle(doc[j].key) = path[1]

LoadMeans ==
    pc # "idle" =>
        /\ \A path \in Paths :
              ConfGet(conf, path) =
                  IF DocScalar(file.doc, path) = NotFound
                     \/ (WrittenMangled(file.doc, path) /\ ConfGet(before, path) # NotFound)
                  THEN ConfGet(before, path) ELSE DocScalar(file.doc, path)
        /\ Items(conf, "vpu") = Items(before, "vpu") \o DocItems(file.doc, "vpu")

(* A reload crashes only on what an earlier failed one left in the tree. *)
CrashOnlyAfterFailure == ~Running => before # EmptyTree

(* The address of c is between the store of a half and its flag. *)
Storing(c, places) == pc \in places /\ target = c

(* A reload is never forgotten, although values and flags are shared without *)
(* a lock: a thread that is connected to an address other than the stored    *)
(* one, or on its way there with a port other than the stored one, finds its *)
(* flag up, or conn_ma is about to set it.                                   *)
StaleFlagged ==
    \A c \in Clients :
        /\ conn[c] \notin {NoAddr, Reached(c, addr[c])} =>
               reload[c] \/ Storing(c, {"store_port", "store_flag"})
        /\ port_read[c] \notin {None, addr[c].port} =>
               reload[c] \/ Storing(c, {"store_flag"})

(* Once no more commands come, each thread ends up on the address that is    *)
(* stored for it, in spite of threads that read one half old and half new.   *)
Settles ==
    \A c \in Changeable : <>[](~Running \/ (Usable(c, addr[c]) => conn[c] = Reached(c, addr[c])))
=============================================================================
