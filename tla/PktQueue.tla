------------------------------ MODULE PktQueue ------------------------------
(***************************************************************************)
(* What a packet fifo promises its two threads: a bounded queue.  Packets  *)
(* are numbered as they are accepted.  One is refused only when the queue  *)
(* is full, and the worker gets the oldest one that it has not had.        *)
(***************************************************************************)
EXTENDS Naturals, Sequences

CONSTANT Size

VARIABLES
    queue,      \* the packets accepted and not yet taken
    accepted,   \* the packet accepted last
    got,        \* the packet taken last
    lost        \* packets refused

vars == <<queue, accepted, got, lost>>

Init == queue = <<>> /\ accepted = 0 /\ got = 0 /\ lost = 0

Put ==
    /\ Len(queue) < Size
    /\ accepted' = accepted + 1
    /\ queue' = Append(queue, accepted + 1)
    /\ UNCHANGED <<got, lost>>

Refuse ==
    /\ Len(queue) = Size
    /\ lost' = lost + 1
    /\ UNCHANGED <<queue, accepted, got>>

Take ==
    /\ queue # <<>>
    /\ got' = Head(queue)
    /\ queue' = Tail(queue)
    /\ UNCHANGED <<accepted, lost>>

Next == Put \/ Refuse \/ Take

Spec == Init /\ [][Next]_vars
=============================================================================
