---------------------------- MODULE BlockStore -----------------------------
(***************************************************************************)
(* What the buffer cache promises the rest of the file system: a device    *)
(* whose blocks change only by the one write that each call makes, at some *)
(* moment of the call.  Memory, the request queue and the order in which   *)
(* the disk is written cannot be seen.                                     *)
(***************************************************************************)
CONSTANTS Task, Block, Value, Zero, Op

VARIABLES store,   \* contents of the device as programs see it
          call     \* the call each task is in

vars == <<store, call>>

None == [phase |-> "none"]
Done == [phase |-> "done"]
Begun(o, k) == [phase |-> "begun", op |-> o, block |-> k]

Init ==
    /\ store = [k \in Block |-> Zero]
    /\ call = [t \in Task |-> None]

Begin(t) ==
    /\ call[t] = None
    /\ \E o \in Op, k \in Block : call' = [call EXCEPT ![t] = Begun(o, k)]
    /\ UNCHANGED store

(* The effect of the call: a program that has the block reads or writes    *)
(* it, new_block() clears it.                                              *)
Effect(t) ==
    /\ call[t].phase = "begun"
    /\ \/ /\ call[t].op # "new_block"
          /\ \/ UNCHANGED store
             \/ \E v \in Value : store' = [store EXCEPT ![call[t].block] = v]
       \/ /\ call[t].op = "new_block"
          /\ store' = [store EXCEPT ![call[t].block] = Zero]
    /\ call' = [call EXCEPT ![t] = Done]

Return(t) ==
    /\ call[t] = Done
    /\ call' = [call EXCEPT ![t] = None]
    /\ UNCHANGED store

Next == \E t \in Task : Begin(t) \/ Effect(t) \/ Return(t)

Spec == Init /\ [][Next]_vars
=============================================================================
