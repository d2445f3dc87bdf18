-------------------------------- MODULE Fifo --------------------------------
(***************************************************************************)
(* What a double-buffered endpoint promises: the packets put in at one end *)
(* come out at the other, each once and in order, and none stays inside    *)
(* for ever.  A bus reset throws away what is inside.                      *)
(***************************************************************************)
EXTENDS Sequences

CONSTANTS Packets, NONE

VARIABLES
    queue,    \* the packets inside
    last      \* the packet that came out last, since the last reset

Init == queue = <<>> /\ last = NONE

Put == \E p \in Packets : queue' = Append(queue, p) /\ UNCHANGED last

Get ==
    /\ queue # <<>>
    /\ last' = Head(queue) /\ queue' = Tail(queue)

Reset == queue' = <<>> /\ last' = NONE

Next == Put \/ Get \/ Reset

Spec == Init /\ [][Next]_<<queue, last>>
Progress == WF_<<queue, last>>(Get)
=============================================================================
