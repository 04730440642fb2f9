-------------------------- MODULE FileServerProofs --------------------------
(***************************************************************************)
(* The invariants of the file server, for any number of connections and    *)
(* descriptors, any read size and recordings of any length.                *)
(***************************************************************************)
EXTENDS FileServer, TLAPS

USE ServerAssumption

PlayedType == [size : 0 .. 2 * MaxLen, pos_up : 0 .. MaxLen, pos_down : 0 .. MaxLen]

(* The kernel never gives two open connections the same descriptor. *)
FdUnique == \A c, d \in Clients : fd[c] = fd[d] /\ fd[c] # 0 => c = d

(* A connection that waits for its answer is open, and who listens has a     *)
(* thread that ended.                                                        *)
ThreadFd ==
    \A c \in Clients :
        /\ thr[c] = "none" => fd[c] = 0
        /\ thr[c] \in {"none", "read", "attach"} => answer[c] = 0
        /\ thr[c] = "attach" => fd[c] # 0
        /\ thr[c] = "read" => fd[c] # 0
        /\ c \in live => thr[c] = "end"

(* tx_fd is the open connection of a listener, except from its close to the  *)
(* store of 0.                                                               *)
TxOwned ==
    /\ tx_fd # 0 /\ slot # "clear" => \E c \in live : fd[c] = tx_fd
    /\ slot \in {"write", "fail"} => tx_fd # 0

(* file_tx_thread never reads past what was written, and reads the same      *)
(* amount of both files before it goes on.                                   *)
Positions ==
    \A c \in Clients :
        /\ played[c].pos_up <= up /\ played[c].pos_down <= down
        /\ played[c].pos_down <= played[c].pos_up
        /\ thr[c] \in {"none", "read", "attach", "stream"} =>
               played[c].pos_up = played[c].pos_down

ServerInv == TypeOK /\ FdUnique /\ ThreadFd /\ TxOwned /\ Positions

LEMMA ServerInvInit == Init => ServerInv
<1> SUFFICES ASSUME Init PROVE ServerInv
  OBVIOUS
<1>1. TypeOK
  <2>1. played \in [Clients -> PlayedType] /\ answer \in [Clients -> 0 .. 1]
    BY DEF Init, NotPlayed, PlayedType
  <2>2. svm_vpu_reload \in BOOLEAN /\ raced \in BOOLEAN
    BY Zenon DEF Init
  <2>3. reloads \in 0 .. MaxReloads /\ up \in 0 .. MaxLen /\ down \in 0 .. up
    BY DEF Init
  <2> QED
    BY <2>1, <2>2, <2>3 DEF Init, TypeOK, PlayedType
<1>2. FdUnique /\ ThreadFd /\ TxOwned
  BY DEF Init, FdUnique, ThreadFd, TxOwned
<1>3. Positions
  BY DEF Init, Positions, NotPlayed
<1> QED
  BY <1>1, <1>2, <1>3 DEF ServerInv

LEMMA ServerInvStep == ServerInv /\ [Next]_vars => ServerInv'
<1> SUFFICES ASSUME ServerInv, [Next]_vars PROVE ServerInv'
  OBVIOUS
<1> USE DEF ServerInv, TypeOK, FdUnique, ThreadFd, TxOwned, Positions,
            serverVars, slotVars, fileVars
<1>1. CASE RequestReload
  BY <1>1 DEF RequestReload
<1>2. CASE ServerReload
  BY <1>2 DEF ServerReload
<1>3. CASE create_tcp_server
  BY <1>3 DEF create_tcp_server
<1>4. CASE ServerExit
  BY <1>4 DEF ServerExit
<1>5. ASSUME NEW c \in Clients, Accept(c) PROVE ServerInv'
  BY <1>5 DEF Accept, InUse
<1>6. ASSUME NEW c \in Clients, Refuse(c) PROVE ServerInv'
  BY <1>6 DEF Refuse, send_result, CloseConn
<1>7. ASSUME NEW c \in Clients, Ignore(c) PROVE ServerInv'
  BY <1>7 DEF Ignore
<1>8. ASSUME NEW c \in Clients, Play(c) PROVE ServerInv'
  BY <1>8 DEF Play, send_result, file_size
<1>9. ASSUME NEW c \in Clients, SendFaxPics(c) PROVE ServerInv'
  BY <1>9 DEF SendFaxPics, send_result, CloseConn
<1>10. ASSUME NEW c \in Clients, ReadUp(c) PROVE ServerInv'
  BY <1>10 DEF ReadUp, read_len
<1>11. ASSUME NEW c \in Clients, ReadDown(c) PROVE ServerInv'
  <2>1. CASE goon(up_len(c), read_len(played[c].pos_down, down))
    <3>1. /\ played' = [played EXCEPT ![c].pos_down = @ + up_len(c)]
          /\ thr' = [thr EXCEPT ![c] = "stream"]
          /\ UNCHANGED <<serverVars, fd, answer, live, tx_fd, slotVars, fileVars, raced>>
      BY <1>11, <2>1 DEF ReadDown, goon
    <3>2. up_len(c) \in Nat /\ played[c].pos_down + up_len(c) = played[c].pos_up
      BY DEF up_len
    <3>3. up_len(c) <= down - played[c].pos_down
      BY <2>1 DEF goon, read_len
    <3> QED
      BY <1>11, <3>1, <3>2, <3>3 DEF ReadDown
  <2>2. CASE ~goon(up_len(c), read_len(played[c].pos_down, down))
    <3>1. /\ thr[c] = "readdown" /\ thr' = [thr EXCEPT ![c] = "end"]
          /\ fd' = [fd EXCEPT ![c] = 0]
          /\ UNCHANGED <<serverVars, answer, live, played, tx_fd, slotVars, fileVars, raced>>
      BY <1>11, <2>2 DEF ReadDown, CloseConn
    <3> QED
      BY <3>1
  <2> QED
    BY <2>1, <2>2
<1>12. ASSUME NEW c \in Clients, LiveCheck(c) PROVE ServerInv'
  <2>1. CASE tx_fd > 0
    <3>1. /\ thr[c] = "read" /\ thr' = [thr EXCEPT ![c] = "end"]
          /\ answer' = [answer EXCEPT ![c] = @ + 1] /\ fd' = [fd EXCEPT ![c] = 0]
          /\ UNCHANGED <<serverVars, live, played, tx_fd, slotVars, fileVars, raced>>
      BY <1>12, <2>1 DEF LiveCheck, send_result, CloseConn
    <3> QED
      BY <3>1
  <2>2. CASE ~(tx_fd > 0)
    BY <1>12, <2>2, SMTT(20) DEF LiveCheck
  <2> QED
    BY <2>1, <2>2
<1>13. ASSUME NEW c \in Clients, LiveAttach(c) PROVE ServerInv'
  BY <1>13 DEF LiveAttach, send_result
<1>14. CASE SendBuffer
  BY <1>14 DEF SendBuffer
<1>15. CASE EndCall
  BY <1>15 DEF EndCall
<1>16. CASE send_voice_data
  BY <1>16 DEF send_voice_data
<1>17. CASE CloseFailed
  BY <1>17 DEF CloseFailed, CloseFd
<1>18. CASE Clear
  BY <1>18 DEF Clear
<1>19. CASE CloseListener
  BY <1>19 DEF CloseListener, CloseFd
<1>20. CASE Wipe
  BY <1>20 DEF Wipe
<1>21. CASE WriteUp
  BY <1>21 DEF WriteUp
<1>22. CASE WriteDown
  BY <1>22 DEF WriteDown
<1>23. CASE UNCHANGED vars
  BY <1>23 DEF vars
<1> QED
  BY <1>1, <1>2, <1>3, <1>4, <1>5, <1>6, <1>7, <1>8, <1>9, <1>10, <1>11, <1>12, <1>13, <1>14, <1>15, <1>16, <1>17, <1>18, <1>19, <1>20, <1>21, <1>22, <1>23
  DEF Next, TxStep, SlotStep

(* One answer per request, positions within the files, every descriptor one  *)
(* the kernel gave.                                                          *)
THEOREM ServerTypes == Spec => []TypeOK
BY ServerInvInit, ServerInvStep, PTL DEF Spec, ServerInv

(* What voice_parser and cleanup_file_struct write to and close is the       *)
(* connection of a listener, although tx_fd is set without their mutex and   *)
(* descriptors are given again.                                              *)
THEOREM WritesOnlyToListeners == Spec => []OnlyListeners
<1>1. ServerInv => OnlyListeners
  BY DEF ServerInv, TypeOK, TxOwned, OnlyListeners
<1> QED
  BY <1>1, ServerInvInit, ServerInvStep, PTL DEF Spec

(* The two directions are played in step, whatever is appended meanwhile. *)
THEOREM PlaysAligned == Spec => []PlayedAligned
<1>1. ServerInv => PlayedAligned
  BY DEF ServerInv, Positions, PlayedAligned
<1> QED
  BY <1>1, ServerInvInit, ServerInvStep, PTL DEF Spec

(* The close of a descriptor that was meanwhile given to another client      *)
(* would end that client's connection.                                       *)
ClosedByOwner ==
    \A c \in Clients : fd[c] # 0 /\ fd'[c] = 0 =>
        c \in live \/ (thr[c] \in {"read", "readdown"} /\ thr'[c] = "end")

(* A connection is closed only by the file_tx_thread that serves it, at its  *)
(* end, or by the slot once its client listens: no close hits a descriptor   *)
(* that belongs to somebody else.                                            *)
THEOREM ClosesOnlyItsOwn == Spec => [][ClosedByOwner]_vars
<1>1. ServerInv /\ [Next]_vars => [ClosedByOwner]_vars
  <2> SUFFICES ASSUME ServerInv, Next PROVE ClosedByOwner
    OBVIOUS
  <2> USE DEF ClosedByOwner
  <2>1. ASSUME fd' = fd PROVE ClosedByOwner
    BY <2>1
  <2>2. ASSUME NEW c \in Clients, Accept(c) PROVE ClosedByOwner
    BY <2>2 DEF Accept, ServerInv, TypeOK
  <2>3. ASSUME NEW c \in Clients, Refuse(c) \/ SendFaxPics(c) PROVE ClosedByOwner
    BY <2>3 DEF Refuse, SendFaxPics, CloseConn, ServerInv, TypeOK
  <2>4. ASSUME NEW c \in Clients, ReadDown(c), fd' # fd PROVE ClosedByOwner
    BY <2>4 DEF ReadDown, CloseConn, ServerInv, TypeOK
  <2>5. ASSUME NEW c \in Clients, LiveCheck(c), fd' # fd PROVE ClosedByOwner
    BY <2>5 DEF LiveCheck, CloseConn, ServerInv, TypeOK
  <2>6. CASE (CloseFailed \/ CloseListener) /\ fd' # fd
    <3>1. /\ fd' = [c \in Clients |-> IF fd[c] = tx_fd THEN 0 ELSE fd[c]]
          /\ slot \in {"fail", "end"} /\ tx_fd # 0
      BY <2>6 DEF CloseFailed, CloseListener, CloseFd, ServerInv, TypeOK, TxOwned
    <3>2. PICK d \in live : fd[d] = tx_fd
      BY <3>1 DEF ServerInv, TxOwned
    <3> QED
      BY <3>1, <3>2 DEF ServerInv, TypeOK, FdUnique
  <2> QED
    BY <2>1, <2>2, <2>3, <2>4, <2>5, <2>6
    DEF Next, TxStep, SlotStep, RequestReload, ServerReload, create_tcp_server, ServerExit,
        Ignore, Play, ReadUp, LiveAttach, SendBuffer, EndCall, send_voice_data, Clear, Wipe,
        WriteUp, WriteDown
<1> QED
  BY <1>1, ServerInvInit, ServerInvStep, PTL DEF Spec
=============================================================================
