--------------------------- MODULE ControlProofs ----------------------------
(***************************************************************************)
(* What steers the program from outside: the reload of its configuration   *)
(* (ConfReload), for any files, numbers and first addresses, and its stop  *)
(* (Shutdown), for any number of threads, calls and signals.               *)
(***************************************************************************)
EXTENDS ConfReload, Shutdown, TLAPS

(* An address; what ip is does not matter here. *)
IsAddr(a) == \E ip : \E port \in Nat : a = [ip |-> ip, port |-> port]

(* conn_ma's own variables, the values it stores, and the threads' sides. *)
MaTypes ==
    /\ pc \in Pcs
    /\ IsAddr(new) /\ target \in Changeable
    /\ cmds \in 0 .. MaxCmds
    /\ pc = "idle" => file = NoFile

StoredTypes ==
    /\ addr = [c \in Clients |-> addr[c]] /\ \A c \in Clients : IsAddr(addr[c])
    /\ vpu_id \in Numbers
    /\ storage_time \in Nat /\ (pc # "clamp" => storage_time \in 1 .. MaxDays)
    /\ disk_left \in Nat /\ (pc # "clamp_disk" => disk_left \in 1 .. MaxDays)

ConnTypes ==
    /\ conn = [c \in Clients |-> conn[c]] /\ \A c \in Clients : IsAddr(conn[c])
    /\ port_read \in [Clients -> Nat \cup {None}]
    /\ lost \in 0 .. MaxLost

FlagTypes ==
    /\ reload \in [Clients \cup {"dev"} -> BOOLEAN]
    /\ reopened \in BOOLEAN

ConfTypes == MaTypes /\ StoredTypes /\ ConnTypes /\ FlagTypes

-----------------------------------------------------------------------------
(* The operators *)

LEMMA AtoiNumber == \A s : Atoi(s) \in Numbers
BY ConfAssumption DEF Atoi

LEMMA NumberKept == ASSUME NEW v, NEW old \in Nat PROVE NumberOr(v, old) \in Nat
BY AtoiNumber, ConfAssumption DEF NumberOr

LEMMA RangeKept == ASSUME NEW n \in Nat, NEW d \in 1 .. MaxDays PROVE InRange(n, d) \in 1 .. MaxDays
BY DEF InRange, MaxDays

LEMMA ReachedAddr == ASSUME NEW c, NEW a, IsAddr(a) PROVE IsAddr(Reached(c, a))
<1>0. PICK ip : \E port \in Nat : a = [ip |-> ip, port |-> port]
  BY DEF IsAddr
<1>1. PICK port \in Nat : a = [ip |-> ip, port |-> port]
  BY <1>0
<1>2. [a EXCEPT !.port = IF @ = 0 THEN ServerPort ELSE @]
          = [ip |-> ip, port |-> IF port = 0 THEN ServerPort ELSE port]
  BY <1>1
<1>3. (IF port = 0 THEN ServerPort ELSE port) \in Nat
  BY DEF ServerPort
<1> QED
  BY <1>1, <1>2, <1>3 DEF IsAddr, Reached

LEMMA NewAddr == /\ IsAddr(CdrAddr) /\ IsAddr(ServerAddr) /\ IsAddr(NoAddr)
<1>1. \A ip, s : IsAddr([ip |-> ip, port |-> Atoi(s)]) /\ IsAddr([ip |-> ip, port |-> 0])
  BY AtoiNumber, ConfAssumption DEF IsAddr
<1> QED
  BY <1>1 DEF CdrAddr, ServerAddr, NoAddr

(* Nothing is looked up while a value is brought into range. *)
LEMMA NoFaultBetween ==
    pc \in {"idle", "store_ip", "store_port", "store_flag", "clamp", "clamp_disk", "deinit", "crashed"}
        => ~Faulty
BY DEF Faulty

-----------------------------------------------------------------------------
(* Types *)

LEMMA ConfTypesInit == Init => ConfTypes
<1> SUFFICES ASSUME Init PROVE ConfTypes
  OBVIOUS
<1>1. \A c \in Clients : IsAddr(FirstAddr[c])
  BY ConfAssumption DEF IsAddr
<1>2. MaTypes
  BY NewAddr, ConfAssumption DEF Init, MaTypes, Pcs, Changeable
<1>3. StoredTypes
  BY <1>1, ConfAssumption DEF Init, StoredTypes, MaxDays
<1>4. ConnTypes
  BY <1>1, NewAddr, ReachedAddr, ConfAssumption DEF Init, ConnTypes
<1>5. FlagTypes
  BY Zenon DEF Init, FlagTypes
<1> QED
  BY <1>2, <1>3, <1>4, <1>5 DEF ConfTypes

(* A command leaves everything but the tree and its place alone. *)
LEMMA CommandTypes == ConfTypes /\ ma_cmd_reload => ConfTypes'
<1> SUFFICES ASSUME ConfTypes, ma_cmd_reload PROVE ConfTypes'
  OBVIOUS
<1>1. PICK f \in Files : Load(f)
  BY DEF ma_cmd_reload
<1>2. First(f.name) \in Pcs \ {"idle", "clamp", "clamp_disk"}
  BY ConfAssumption DEF First, Pcs
<1>3. \/ pc' = First(f.name)
      \/ pc' = "idle" /\ file' = NoFile
  BY <1>1 DEF Load
<1>4. /\ pc = "idle" /\ cmds < MaxCmds /\ cmds' = cmds + 1
      /\ UNCHANGED <<new, target, addr, vpu_id, storage_time, disk_left,
                     reload, conn, port_read, reopened, lost>>
  BY DEF ma_cmd_reload
<1>5. MaTypes'
  BY <1>2, <1>3, <1>4, ConfAssumption DEF ConfTypes, MaTypes, Pcs
<1>6. StoredTypes'
  BY <1>2, <1>3, <1>4 DEF ConfTypes, StoredTypes
<1>7. ConnTypes' /\ FlagTypes'
  BY <1>4 DEF ConfTypes, ConnTypes, FlagTypes
<1> QED
  BY <1>5, <1>6, <1>7 DEF ConfTypes

(* The reload functions leave the threads' sides alone, and but for the      *)
(* flags they move pc forward.                                               *)
LEMMA StoreTypes ==
    ASSUME ConfTypes, reload_cdr_ip_port \/ reload_server_ip_port \/ StoreIp \/ StorePort \/ SetReload
    PROVE  ConfTypes'
<1> USE DEF ConfTypes
<1>1. ASSUME NEW c \in Changeable, NEW a, IsAddr(a), Compare(c, a) PROVE ConfTypes'
  <2>1. /\ pc = c /\ pc' \in {"store_ip", "server", "deinit"}
        /\ new' = a /\ target' = c
        /\ UNCHANGED <<file, cmds, conn, port_read, reopened, lost,
                       addr, reload, vpu_id, storage_time, disk_left>>
    BY <1>1 DEF Compare, Step, After
  <2>2. MaTypes'
    BY <1>1, <2>1 DEF MaTypes, Pcs
  <2>3. StoredTypes' /\ ConnTypes' /\ FlagTypes'
    BY <1>1, <2>1 DEF StoredTypes, ConnTypes, FlagTypes, Changeable
  <2> QED
    BY <2>2, <2>3
<1>2. CASE reload_cdr_ip_port
  BY <1>1, <1>2, NewAddr DEF reload_cdr_ip_port, Changeable
<1>3. CASE reload_server_ip_port
  <2>1. IsAddr(IF LastSub("id", "") # "" THEN ServerAddr ELSE addr["server"])
    BY NewAddr DEF StoredTypes, Clients
  <2> QED
    BY <1>1, <1>3, <2>1 DEF reload_server_ip_port, Changeable
<1>4. ASSUME StoreIp \/ StorePort PROVE ConfTypes'
  <2>1. /\ pc \in {"store_ip", "store_port"} /\ pc' \in {"store_port", "store_flag"}
        /\ UNCHANGED <<file, cmds, conn, port_read, reopened, lost,
                       new, target, reload, vpu_id, storage_time, disk_left>>
    BY <1>4 DEF StoreIp, StorePort, Step
  <2>0. PICK ip : \E port \in Nat : addr[target] = [ip |-> ip, port |-> port]
    BY DEF StoredTypes, MaTypes, Changeable, Clients, IsAddr
  <2>2. PICK port \in Nat : addr[target] = [ip |-> ip, port |-> port]
    BY <2>0
  <2>3. new.port \in Nat
    BY DEF MaTypes, IsAddr
  <2>4. \/ addr' = [addr EXCEPT ![target] = [ip |-> new.ip, port |-> port]]
        \/ addr' = [addr EXCEPT ![target] = [ip |-> ip, port |-> new.port]]
    BY <1>4, <2>2 DEF StoreIp, StorePort
  <2>5. IsAddr([ip |-> new.ip, port |-> port]) /\ IsAddr([ip |-> ip, port |-> new.port])
    BY <2>3 DEF IsAddr
  <2>6. addr' = [c \in Clients |-> addr'[c]] /\ \A c \in Clients : IsAddr(addr'[c])
    BY <2>4, <2>5 DEF StoredTypes
  <2>7. MaTypes' /\ StoredTypes'
    BY <2>1, <2>6 DEF MaTypes, StoredTypes, Pcs
  <2>8. ConnTypes' /\ FlagTypes'
    BY <2>1 DEF ConnTypes, FlagTypes
  <2> QED
    BY <2>7, <2>8
<1>5. CASE SetReload
  <2>1. /\ pc = "store_flag" /\ pc' \in {"server", "deinit"}
        /\ reload' = [reload EXCEPT ![target] = TRUE]
        /\ UNCHANGED <<file, cmds, conn, port_read, reopened, lost,
                       addr, new, target, vpu_id, storage_time, disk_left>>
    BY <1>5 DEF SetReload, Step, After
  <2>2. MaTypes' /\ StoredTypes' /\ ConnTypes'
    BY <2>1 DEF MaTypes, StoredTypes, ConnTypes, Pcs
  <2>3. FlagTypes'
    BY <2>1, Zenon DEF FlagTypes
  <2> QED
    BY <2>2, <2>3
<1> QED
  BY <1>2, <1>3, <1>4, <1>5

LEMMA NumberTypes ==
    ASSUME ConfTypes,
           \/ reload_vpu_id \/ reload_storage_time \/ ClampStorage \/ reload_disk_left \/ ClampDisk
    PROVE  ConfTypes'
<1> USE DEF ConfTypes
<1>0. /\ pc \in {"vpu_id", "days", "clamp", "disk", "clamp_disk"}
      /\ pc' \in Pcs \ {"idle"}
      /\ UNCHANGED <<file, cmds, conn, port_read, reopened, lost, addr, new, target, reload>>
  BY DEF reload_vpu_id, reload_storage_time, ClampStorage, reload_disk_left, ClampDisk, Step, Pcs
<1>1. MaTypes' /\ ConnTypes' /\ FlagTypes'
  BY <1>0 DEF MaTypes, ConnTypes, FlagTypes
<1> 90 \in 1 .. MaxDays /\ 5 \in 1 .. MaxDays
  BY DEF MaxDays
<1>2. CASE reload_vpu_id
  <2>1. vpu_id' \in Numbers
    BY <1>2, AtoiNumber DEF reload_vpu_id, NumberOr, StoredTypes
  <2> QED
    BY <1>0, <1>1, <1>2, <2>1 DEF reload_vpu_id, Step, StoredTypes
<1>3. CASE reload_storage_time
  <2>1. storage_time' \in Nat
    BY <1>3, NumberKept DEF reload_storage_time, StoredTypes
  <2> QED
    BY <1>0, <1>1, <1>3, <2>1 DEF reload_storage_time, Step, StoredTypes
<1>4. CASE ClampStorage
  <2>1. storage_time' \in 1 .. MaxDays
    BY <1>4, RangeKept DEF ClampStorage, StoredTypes
  <2> QED
    BY <1>0, <1>1, <1>4, <2>1 DEF ClampStorage, Step, StoredTypes
<1>5. CASE reload_disk_left
  <2>1. disk_left' \in Nat
    BY <1>5, NumberKept DEF reload_disk_left, StoredTypes
  <2> QED
    BY <1>0, <1>1, <1>5, <2>1 DEF reload_disk_left, Step, StoredTypes
<1>6. CASE ClampDisk
  <2>1. disk_left' \in 1 .. MaxDays
    BY <1>6, RangeKept DEF ClampDisk, StoredTypes
  <2> QED
    BY <1>0, <1>1, <1>6, <2>1 DEF ClampDisk, Step, StoredTypes
<1> QED
  BY <1>2, <1>3, <1>4, <1>5, <1>6

(* A flag that may go up. *)
LEMMA FlagUp ==
    ASSUME NEW r \in [Clients \cup {"dev"} -> BOOLEAN], NEW c, NEW b \in BOOLEAN
    PROVE  [r EXCEPT ![c] = @ \/ b] \in [Clients \cup {"dev"} -> BOOLEAN]
<1>1. c \in Clients \cup {"dev"} => (r[c] \/ b) \in BOOLEAN
  OBVIOUS
<1> QED
  BY <1>1, Zenon

LEMMA OtherTypes ==
    ASSUME ConfTypes,
           \/ reload_dev_parser \/ reload_sguard_port \/ reload_ma_port \/ ConfDeInit \/ NullUsed
    PROVE  ConfTypes'
<1> USE DEF ConfTypes
<1>1. CASE reload_dev_parser \/ reload_sguard_port \/ reload_ma_port
  <2>1. /\ pc \in {"dev", "sguard", "ma"} /\ pc' \in {"days", "ma", "deinit"}
        /\ UNCHANGED <<file, cmds, conn, port_read, reopened, lost,
                       addr, new, target, vpu_id, storage_time, disk_left>>
    BY <1>1 DEF reload_dev_parser, reload_sguard_port, reload_ma_port, ReloadPort, Step
  <2>2. MaTypes' /\ StoredTypes' /\ ConnTypes'
    BY <2>1 DEF MaTypes, StoredTypes, ConnTypes, Pcs
  <2>3. \E c : \E b \in BOOLEAN : reload' = [reload EXCEPT ![c] = @ \/ b]
    <3>1. CASE reload_dev_parser
      BY <3>1 DEF reload_dev_parser
    <3>2. ASSUME NEW c, NEW key, NEW to, ReloadPort(c, key, to)
          PROVE  \E b \in BOOLEAN : reload' = [reload EXCEPT ![c] = @ \/ b]
      BY <3>2 DEF ReloadPort
    <3> QED
      BY <1>1, <3>1, <3>2 DEF reload_sguard_port, reload_ma_port
  <2>4. FlagTypes'
    BY <2>1, <2>3, FlagUp, Zenon DEF FlagTypes
  <2> QED
    BY <2>2, <2>4
<1>2. CASE ConfDeInit
  BY <1>2 DEF ConfDeInit, MaTypes, StoredTypes, ConnTypes, FlagTypes, Pcs
<1>3. CASE NullUsed
  <2>1. /\ Faulty /\ pc' = "crashed"
        /\ UNCHANGED <<file, new, target, addr, vpu_id, storage_time, disk_left, cmds,
                       reload, conn, port_read, reopened, lost>>
    BY <1>3 DEF NullUsed
  <2>2. pc # "clamp" /\ pc # "clamp_disk"
    BY <2>1, NoFaultBetween
  <2>3. MaTypes' /\ StoredTypes'
    BY <2>1, <2>2 DEF MaTypes, StoredTypes, Pcs
  <2>4. ConnTypes' /\ FlagTypes'
    BY <2>1 DEF ConnTypes, FlagTypes
  <2> QED
    BY <2>3, <2>4
<1> QED
  BY <1>1, <1>2, <1>3

(* The threads that connect, and the io thread. *)
LEMMA ThreadTypes ==
    ASSUME ConfTypes,
           \/ \E c \in Clients : CloseOnReload(c) \/ ReadPort(c) \/ Connect(c) \/ ConnectFails(c) \/ Lose(c)
           \/ ReopenDev \/ ClearDev
    PROVE  ConfTypes'
<1> USE DEF ConfTypes
<1>0. UNCHANGED mavars
  BY DEF CloseOnReload, ReadPort, Connect, ConnectFails, Lose, ReopenDev, ClearDev
<1>1. MaTypes' /\ StoredTypes'
  BY <1>0 DEF mavars, MaTypes, StoredTypes
<1>2. ASSUME NEW c \in Clients, CloseOnReload(c) \/ Lose(c) PROVE ConnTypes'
  <2>1. conn' = [conn EXCEPT ![c] = NoAddr] /\ UNCHANGED port_read
    BY <1>2 DEF CloseOnReload, Lose
  <2>2. lost' \in 0 .. MaxLost
    BY <1>2, ConfAssumption DEF CloseOnReload, Lose, ConnTypes
  <2> QED
    BY <2>1, <2>2, NewAddr DEF ConnTypes
<1>3. ASSUME NEW c \in Clients, ReadPort(c) PROVE ConnTypes'
  <2>1. addr[c].port \in Nat
    BY DEF StoredTypes, IsAddr
  <2> QED
    BY <1>3, <2>1 DEF ReadPort, ConnTypes
<1>4. ASSUME NEW c \in Clients, Connect(c) PROVE ConnTypes'
  <2>1. port_read[c] \in Nat
    BY <1>4 DEF Connect, ConnTypes
  <2>2. IsAddr([ip |-> addr[c].ip, port |-> port_read[c]])
    BY <2>1 DEF IsAddr
  <2>3. IsAddr(Reached(c, [ip |-> addr[c].ip, port |-> port_read[c]]))
    BY <2>2, ReachedAddr
  <2> QED
    BY <1>4, <2>3 DEF Connect, ConnTypes
<1>5. ASSUME NEW c \in Clients, ConnectFails(c) PROVE ConnTypes'
  BY <1>5 DEF ConnectFails, ConnTypes
<1>6. CASE ReopenDev \/ ClearDev
  <2>1. ConnTypes'
    BY <1>6 DEF ReopenDev, ClearDev, ConnTypes
  <2>2. FlagTypes'
    BY <1>6, Zenon DEF ReopenDev, ClearDev, FlagTypes
  <2> QED
    BY <1>1, <2>1, <2>2
<1>7. ASSUME NEW c \in Clients,
             CloseOnReload(c) \/ ReadPort(c) \/ Connect(c) \/ ConnectFails(c) \/ Lose(c)
      PROVE  FlagTypes'
  BY <1>7, Zenon DEF CloseOnReload, ReadPort, Connect, ConnectFails, Lose, FlagTypes
<1> QED
  BY <1>1, <1>2, <1>3, <1>4, <1>5, <1>6, <1>7

LEMMA ConfTypesStep == ConfTypes /\ [Next]_vars => ConfTypes'
<1> SUFFICES ASSUME ConfTypes, [Next]_vars PROVE ConfTypes'
  OBVIOUS
<1>1. CASE UNCHANGED vars
  BY <1>1 DEF vars, mavars, ConfTypes, MaTypes, StoredTypes, ConnTypes, FlagTypes
<1> QED
  BY <1>1, CommandTypes, StoreTypes, NumberTypes, OtherTypes, ThreadTypes DEF Next, Applying

(* What conn_ma, the connecting threads and the io thread share keeps its    *)
(* type whatever a file holds and wherever it ends: storage_time and         *)
(* disk_left, which cycle_thread reads, are in range except between the two  *)
(* stores of their reload functions.                                         *)
THEOREM ConfTypesCorrect == Spec => []TypeOK
<1>1. ConfTypes => TypeOK
  <2> SUFFICES ASSUME ConfTypes PROVE TypeOK
    OBVIOUS
  <2>1. \A c \in Clients : addr[c].port \in Nat /\ conn[c].port \in Nat /\ port_read[c] \in Nat \cup {None}
    BY DEF ConfTypes, StoredTypes, ConnTypes, IsAddr
  <2> QED
    BY <2>1 DEF ConfTypes, MaTypes, StoredTypes, ConnTypes, FlagTypes, TypeOK
<1> QED
  BY <1>1, ConfTypesInit, ConfTypesStep, PTL DEF Spec

-----------------------------------------------------------------------------
(* No reload is forgotten *)

(* A step that changes no address, no connection and no port read, and takes *)
(* no flag down, disturbs nothing outside the stores.                        *)
LEMMA StaleKept ==
    ASSUME ConfTypes, StaleFlagged,
           UNCHANGED <<addr, conn, port_read>>,
           \A c \in Clients : reload[c] => reload'[c],
           pc \notin {"store_port", "store_flag"}
    PROVE  StaleFlagged'
<1>1. \A c \in Clients : /\ ~Storing(c, {"store_port", "store_flag"})
                         /\ ~Storing(c, {"store_flag"})
  BY DEF Storing
<1> QED
  BY <1>1 DEF StaleFlagged

LEMMA StaleStores ==
    ASSUME ConfTypes, StaleFlagged, StoreIp \/ StorePort \/ SetReload
    PROVE  StaleFlagged'
<1> DEFINE Conn(c) == conn[c] \notin {NoAddr, Reached(c, addr[c])} =>
                          reload[c] \/ Storing(c, {"store_port", "store_flag"})
           Port(c) == port_read[c] \notin {None, addr[c].port} =>
                          reload[c] \/ Storing(c, {"store_flag"})
<1>0. /\ target \in Clients /\ target' = target /\ conn' = conn /\ port_read' = port_read
      /\ addr = [c \in Clients |-> addr[c]]
      /\ \A c \in Clients : Conn(c) /\ Port(c)
  BY DEF ConfTypes, MaTypes, StoredTypes, Changeable, Clients, StoreIp, StorePort, SetReload, Step,
         StaleFlagged
<1>1. ASSUME NEW c \in Clients, c # target PROVE Conn(c)' /\ Port(c)'
  <2>1. addr'[c] = addr[c] /\ reload'[c] = reload[c]
    BY <1>0, <1>1 DEF StoreIp, StorePort, SetReload, ConfTypes, FlagTypes
  <2>2. reload[c] \/ (conn[c] \in {NoAddr, Reached(c, addr[c])} /\ port_read[c] \in {None, addr[c].port})
    BY <1>0, <1>1 DEF Storing
  <2> QED
    BY <1>0, <2>1, <2>2
<1>2. CASE StoreIp
  <2>1. /\ pc = "store_ip" /\ pc' = "store_port" /\ reload' = reload
        /\ addr' = [addr EXCEPT ![target].ip = new.ip]
    BY <1>2 DEF StoreIp, Step
  <2>2. addr'[target].port = addr[target].port
    BY <1>0, <2>1 DEF ConfTypes, StoredTypes, IsAddr
  <2>3. Conn(target)' /\ Port(target)'
    BY <1>0, <2>1, <2>2 DEF Storing
  <2> QED
    BY <1>0, <1>1, <2>3 DEF StaleFlagged
<1>3. CASE StorePort
  <2>1. pc' = "store_flag"
    BY <1>3 DEF StorePort, Step
  <2>2. Conn(target)' /\ Port(target)'
    BY <1>0, <2>1 DEF Storing
  <2> QED
    BY <1>0, <1>1, <2>2 DEF StaleFlagged
<1>4. CASE SetReload
  <2>1. reload'[target]
    BY <1>0, <1>4 DEF SetReload, ConfTypes, FlagTypes
  <2>2. Conn(target)' /\ Port(target)'
    BY <1>0, <2>1
  <2> QED
    BY <1>0, <1>1, <2>2 DEF StaleFlagged
<1> QED
  BY <1>2, <1>3, <1>4

(* A thread at its own connection. *)
LEMMA StaleThread ==
    ASSUME ConfTypes, StaleFlagged, NEW d \in Clients,
           CloseOnReload(d) \/ ReadPort(d) \/ Connect(d) \/ ConnectFails(d) \/ Lose(d)
    PROVE  StaleFlagged'
<1>0. UNCHANGED <<pc, target, addr>>
  BY DEF CloseOnReload, ReadPort, Connect, ConnectFails, Lose, mavars
<1>1. \A c \in Clients : c # d =>
          conn'[c] = conn[c] /\ port_read'[c] = port_read[c] /\ reload'[c] = reload[c]
  BY DEF CloseOnReload, ReadPort, Connect, ConnectFails, Lose, ConfTypes, ConnTypes, FlagTypes
<1>2. port_read'[d] \in {None, addr[d].port}
  <2>1. CASE CloseOnReload(d) \/ Lose(d)
    BY <2>1 DEF CloseOnReload, Lose, AtTop
  <2>2. CASE ReadPort(d) \/ Connect(d) \/ ConnectFails(d)
    BY <2>2 DEF ReadPort, Connect, ConnectFails, ConfTypes, ConnTypes
  <2> QED
    BY <2>1, <2>2
<1>3. \/ conn'[d] \in {NoAddr, Reached(d, addr[d])}
      \/ conn'[d] = conn[d] /\ reload'[d] = reload[d]
      \/ /\ port_read[d] \notin {None, addr[d].port} /\ reload'[d] = reload[d]
  <2>1. CASE Connect(d)
    <3>1. /\ conn'[d] = Reached(d, [ip |-> addr[d].ip, port |-> port_read[d]])
          /\ port_read[d] # None /\ reload' = reload
      BY <2>1 DEF Connect, ConfTypes, ConnTypes
    <3>2. [ip |-> addr[d].ip, port |-> addr[d].port] = addr[d]
      BY DEF ConfTypes, StoredTypes, IsAddr
    <3> QED
      BY <3>1, <3>2
  <2> QED
    BY <2>1 DEF CloseOnReload, ReadPort, ConnectFails, Lose, ConfTypes, ConnTypes
<1>4. \A c \in Clients : Storing(c, {"store_flag"}) => Storing(c, {"store_port", "store_flag"})
  BY DEF Storing
<1> SUFFICES ASSUME NEW c \in Clients
             PROVE  /\ conn'[c] \notin {NoAddr, Reached(c, addr[c])} =>
                           reload'[c] \/ Storing(c, {"store_port", "store_flag"})
                    /\ port_read'[c] \notin {None, addr[c].port} =>
                           reload'[c] \/ Storing(c, {"store_flag"})
  BY <1>0 DEF StaleFlagged, Storing
<1>5. CASE c # d
  BY <1>1, <1>5 DEF StaleFlagged
<1>6. CASE c = d
  BY <1>2, <1>3, <1>4, <1>6 DEF StaleFlagged
<1> QED
  BY <1>5, <1>6

LEMMA StaleInit == Init => StaleFlagged
BY DEF Init, StaleFlagged

LEMMA StaleStep == ConfTypes /\ StaleFlagged /\ [Next]_vars => StaleFlagged'
<1> SUFFICES ASSUME ConfTypes, StaleFlagged, [Next]_vars PROVE StaleFlagged'
  OBVIOUS
<1>1. CASE ma_cmd_reload
  BY <1>1, StaleKept DEF ma_cmd_reload
<1>2. CASE reload_cdr_ip_port \/ reload_server_ip_port
  <2>1. pc \in {"cdr", "server"} /\ UNCHANGED <<addr, conn, port_read, reload>>
    BY <1>2 DEF reload_cdr_ip_port, reload_server_ip_port, Compare, Step
  <2> QED
    BY <2>1, StaleKept
<1>3. CASE \/ reload_vpu_id \/ reload_storage_time \/ ClampStorage \/ reload_disk_left \/ ClampDisk
  <2>1. pc \notin {"store_port", "store_flag"} /\ UNCHANGED <<addr, conn, port_read, reload>>
    BY <1>3 DEF reload_vpu_id, reload_storage_time, ClampStorage, reload_disk_left, ClampDisk, Step
  <2> QED
    BY <2>1, StaleKept
<1>4. CASE reload_dev_parser \/ reload_sguard_port \/ reload_ma_port
  <2>1. pc \notin {"store_port", "store_flag"} /\ UNCHANGED <<addr, conn, port_read>>
    BY <1>4 DEF reload_dev_parser, reload_sguard_port, reload_ma_port, ReloadPort, Step
  <2>2. \A c \in Clients : reload[c] => reload'[c]
    BY <1>4 DEF reload_dev_parser, reload_sguard_port, reload_ma_port, ReloadPort, ConfTypes, FlagTypes
  <2> QED
    BY <2>1, <2>2, StaleKept
<1>5. CASE ConfDeInit
  BY <1>5, StaleKept DEF ConfDeInit
<1>6. CASE NullUsed
  BY <1>6, StaleKept, NoFaultBetween DEF NullUsed
<1>7. CASE ReopenDev \/ ClearDev
  <2>1. UNCHANGED <<pc, target, addr, conn, port_read>>
    BY <1>7 DEF ReopenDev, ClearDev, mavars
  <2>2. \A c \in Clients : reload'[c] = reload[c]
    BY <1>7 DEF ReopenDev, ClearDev, ConfTypes, FlagTypes, Clients
  <2> QED
    BY <2>1, <2>2 DEF StaleFlagged, Storing
<1>8. CASE UNCHANGED vars
  BY <1>8 DEF vars, mavars, StaleFlagged, Storing
<1> QED
  BY <1>1, <1>2, <1>3, <1>4, <1>5, <1>6, <1>7, <1>8, StaleStores, StaleThread DEF Next, Applying

(* Although conn_ma stores an address in two halves and sets its flag after  *)
(* them, and the thread concerned clears the flag before it reads the        *)
(* address, without a lock, no reload is forgotten: whoever is connected to  *)
(* another address than the stored one will still find the flag.             *)
THEOREM NoReloadForgotten == Spec => []StaleFlagged
BY ConfTypesInit, ConfTypesStep, StaleInit, StaleStep, PTL DEF Spec

-----------------------------------------------------------------------------
(* Shutdown *)

Threads == Others \cup Workers \cup FaxThreads

StopTypes ==
    /\ flags \subseteq {"STOP", "DONE"} /\ or_val \subseteq {"STOP", "DONE"}
    /\ sig \in {"idle", "done", "not_done"} /\ sigs \in 0 .. MaxSigs
    /\ cycle \in {"sweep", "or", "exited"}
    /\ alive \subseteq Threads /\ busy \subseteq Workers
    /\ rec \in [Calls -> {"none", "slot", "fq", "held", "ring", "acked"}]
    /\ held_by \in [Calls -> FaxThreads \cup {NoThread}]
    /\ upd \in [Calls -> BOOLEAN] /\ late \in [Calls -> BOOLEAN]
    /\ returned \in BOOLEAN

(* A worker that handles a packet has not left its loop. *)
BusyAlive == busy \subseteq alive

(* A record in hand is in the hand of a fax thread that still runs: the      *)
(* thread looks at SVM_DONE only between two records.                        *)
HeldAlive ==
    \A c \in Calls :
        /\ rec[c] = "held" <=> held_by[c] # NoThread
        /\ rec[c] = "held" => held_by[c] \in alive

(* Once cycle_thread has found no call online, the calls in the slots are    *)
(* those that began since.                                                   *)
LateOnly == cycle # "sweep" => \A c \in Calls : rec[c] = "slot" => late[c]

(* main has joined every thread but conn_cdr_thread. *)
Joined == returned => cycle = "exited" /\ alive = {}

(* SVM_DONE, once a handler has read it, stands until that handler writes.   *)
DoneStands == sig = "done" => "DONE" \in flags

StopInv == DoneStands /\ StopTypes /\ BusyAlive /\ HeldAlive /\ LateOnly /\ Joined

LEMMA StopInvInit == StopInit => StopInv
<1> SUFFICES ASSUME StopInit PROVE StopInv
  OBVIOUS
<1>1. /\ [c \in Calls |-> FALSE] \in [Calls -> BOOLEAN]
      /\ [c \in Calls |-> NoThread] \in [Calls -> FaxThreads \cup {NoThread}]
      /\ FALSE \in BOOLEAN
  OBVIOUS
<1>2. StopTypes
  <2>1. upd \in [Calls -> BOOLEAN] /\ late \in [Calls -> BOOLEAN] /\ returned \in BOOLEAN
    BY <1>1, Zenon DEF StopInit
  <2>2. sigs \in 0 .. MaxSigs
    BY ThreadAssumption DEF StopInit
  <2> QED
    BY <1>1, <2>1, <2>2, Zenon DEF StopInit, StopTypes, Threads
<1> QED
  BY <1>2 DEF StopInit, StopInv, BusyAlive, HeldAlive, LateOnly, Joined, DoneStands

LEMMA StopInvStep == StopInv /\ [StopNext]_stop_vars => StopInv'
<1> USE ThreadAssumption
<1> SUFFICES ASSUME StopInv, [StopNext]_stop_vars PROVE StopInv'
  OBVIOUS
<1> USE DEF StopInv, StopTypes, BusyAlive, HeldAlive, LateOnly, Joined, DoneStands,
            Threads
<1>1. CASE SigRead
  BY <1>1 DEF SigRead
<1>2. CASE SigWrite
  BY <1>2 DEF SigWrite
<1>3. CASE SetDone
  BY <1>3 DEF SetDone
<1>4. CASE Return
  BY <1>4 DEF Return
<1>5. CASE Look
  BY <1>5 DEF Look, Online
<1>6. ASSUME NEW c \in Calls, TimeOut(c) PROVE StopInv'
  BY <1>6 DEF TimeOut, Finish
<1>7. ASSUME NEW c \in Calls, Acked(c) PROVE StopInv'
  BY <1>7 DEF Acked
<1>8. ASSUME NEW t \in Threads, Exit(t) PROVE StopInv'
  <2>1. BusyAlive' /\ HeldAlive'
    BY <1>8 DEF Exit
  <2> QED
    BY <1>8, <2>1 DEF Exit
<1>9. ASSUME NEW w \in Workers, TakePkt(w) PROVE StopInv'
  BY <1>9 DEF TakePkt
<1>10. ASSUME NEW w \in Workers, voice_parser(w) PROVE StopInv'
  <2>0. /\ w \in alive /\ busy' = busy \ {w}
        /\ UNCHANGED <<flags, sig, sigs, cycle, or_val, alive, held_by, returned>>
    BY <1>10 DEF voice_parser
  <2>1. ASSUME NEW c \in Calls, FirstPkt(c) PROVE StopInv'
    BY <2>0, <2>1 DEF FirstPkt
  <2>2. ASSUME NEW c \in Calls, NextPkt(c) \/ LastPkt(c) PROVE StopInv'
    BY <2>0, <2>2 DEF NextPkt, LastPkt, Finish
  <2>3. CASE UNCHANGED <<rec, upd, late>>
    BY <2>0, <2>3
  <2> QED
    BY <1>10, <2>1, <2>2, <2>3 DEF voice_parser
<1>11. ASSUME NEW f \in FaxThreads, NEW c \in Calls, FETCH_PHEAD(f, c) PROVE StopInv'
  BY <1>11 DEF FETCH_PHEAD
<1>12. ASSUME NEW f \in FaxThreads, NEW c \in Calls, cdr_insert(f, c) PROVE StopInv'
  BY <1>12 DEF cdr_insert
<1>13. CASE UNCHANGED stop_vars
  BY <1>13 DEF stop_vars
<1> QED
  BY <1>1, <1>2, <1>3, <1>4, <1>5, <1>6, <1>7, <1>8, <1>9, <1>10, <1>11, <1>12, <1>13
  DEF StopNext

(* When main returns no fax thread is in the middle of a record, and a call  *)
(* is cut off only if it began after cycle_thread had found none online.     *)
THEOREM StopsClean == StopSpec => []StopClean
<1>1. StopInv => StopClean
  BY DEF StopInv, StopTypes, HeldAlive, LateOnly, Joined, StopClean
<1> QED
  BY <1>1, StopInvInit, StopInvStep, PTL DEF StopSpec

(* cycle_thread has set SVM_DONE, and a handler that had read the flags      *)
(* before has written it away again.                                         *)
DoneLost == cycle = "exited" /\ "DONE" \notin flags

(* flags |= SVM_STOP is no atomic operation: a SVM_DONE that the handler     *)
(* wrote away stays away, whatever signals follow, and no thread that still  *)
(* runs ever leaves its loop.  This is one of the two ways the run of        *)
(* Shutdown finds the program never to stop.                                 *)
THEOREM DoneLostForEver == StopSpec => [][DoneLost => DoneLost' /\ alive' = alive]_stop_vars
<1>1. StopInv /\ [StopNext]_stop_vars => [DoneLost => DoneLost' /\ alive' = alive]_stop_vars
  <2> SUFFICES ASSUME StopInv, StopNext, DoneLost PROVE DoneLost' /\ alive' = alive
    OBVIOUS
  <2> USE DEF DoneLost, StopInv, DoneStands
  <2>1. CASE SigRead \/ SigWrite \/ SetDone \/ Return \/ Look
    BY <2>1 DEF SigRead, SigWrite, SetDone, Return, Look
  <2>2. ASSUME NEW c \in Calls, TimeOut(c) \/ Acked(c) PROVE DoneLost' /\ alive' = alive
    BY <2>2 DEF TimeOut, Acked
  <2>3. ASSUME NEW t \in Threads, Exit(t) PROVE FALSE
    BY <2>3 DEF Exit
  <2>4. ASSUME NEW w \in Workers, TakePkt(w) \/ voice_parser(w)
        PROVE  DoneLost' /\ alive' = alive
    BY <2>4 DEF TakePkt, voice_parser
  <2>5. ASSUME NEW f \in FaxThreads, NEW c \in Calls, FETCH_PHEAD(f, c) \/ cdr_insert(f, c)
        PROVE  DoneLost' /\ alive' = alive
    BY <2>5 DEF FETCH_PHEAD, cdr_insert
  <2> QED
    BY <2>1, <2>2, <2>3, <2>4, <2>5 DEF StopNext, Threads
<1> QED
  BY <1>1, StopInvInit, StopInvStep, PTL DEF StopSpec
=============================================================================
