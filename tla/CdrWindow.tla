------------------------------ MODULE CdrWindow ------------------------------
(***************************************************************************)
(* What the CDR buffer of send_cdr.c promises, with no ring and no 16-bit  *)
(* wrap-around: the records 1, 2, 3, ... are submitted in order, the       *)
(* newest Cap of them are kept, and two marks move over them.  The records *)
(* up to `acked' are gone (acknowledged, or the oldest one pushed out by a *)
(* full buffer); those up to `sent' have been handed to the connection.    *)
(***************************************************************************)
EXTENDS Naturals

CONSTANTS
    Cap,        \* records the buffer keeps (65535 in the code)
    Batch       \* records one message carries at most (16 in the code)

VARIABLES total, acked, sent

windowVars == <<total, acked, sent>>

Init == total = 0 /\ acked = 0 /\ sent = 0

(* A new record; if the buffer is full the oldest one leaves it, and a mark *)
(* that stood before the oldest record moves past it.                       *)
Submit ==
    /\ total' = total + 1
    /\ acked' = IF total - acked = Cap THEN acked + 1 ELSE acked
    /\ sent'  = IF sent < acked' THEN acked' ELSE sent

(* The next unsent records go out together. *)
Transmit ==
    \E n \in 1 .. Batch :
        /\ sent + n <= total
        /\ sent' = sent + n
        /\ UNCHANGED <<total, acked>>

(* A cumulative acknowledgement of records that were sent. *)
Acknowledge ==
    \E k \in acked .. sent :
        /\ acked' = k
        /\ UNCHANGED <<total, sent>>

(* A new connection starts again with the oldest unacknowledged record. *)
Rewind == sent' = acked /\ UNCHANGED <<total, acked>>

Next == Submit \/ Transmit \/ Acknowledge \/ Rewind

Spec == Init /\ [][Next]_windowVars
=============================================================================
