-------------------------------- MODULE Fifo --------------------------------
(***************************************************************************)
(* What a pipe promises: bytes come out in the order in which they were    *)
(* put in, each of them once, and no more than Capacity are inside.        *)
(***************************************************************************)
EXTENDS Naturals, Sequences

CONSTANTS Byte, Capacity

VARIABLES open,   \* a pipe exists
          queue,  \* the bytes inside
          last    \* what this step has taken out

vars == <<open, queue, last>>

Init == open = FALSE /\ queue = <<>> /\ last = <<>>

Put == /\ \E n \in 1 .. Capacity - Len(queue) :
             \E bytes \in [1 .. n -> Byte] : queue' = queue \o bytes
       /\ last' = <<>> /\ UNCHANGED open

Get == /\ \E n \in 1 .. Len(queue) :
             last' = SubSeq(queue, 1, n) /\ queue' = SubSeq(queue, n + 1, Len(queue))
       /\ UNCHANGED open

Rest == last' = <<>> /\ UNCHANGED <<open, queue>>

Open == ~open /\ open' = TRUE /\ last' = <<>> /\ UNCHANGED queue

(* Both ends are closed.                                                   *)
Close == open /\ open' = FALSE /\ queue' = <<>> /\ last' = <<>>

Next == Put \/ Get \/ Rest \/ Open \/ Close

Spec == Init /\ [][Next]_vars
=============================================================================
