---------------------------- MODULE AddressSpace ---------------------------
(***************************************************************************)
(* What mm/memory.c promises to processes: each has memory of its own that *)
(* nobody else can change; fork() copies it and exec() replaces it.        *)
(* Frames, sharing, write protection and page faults cannot be seen.       *)
(***************************************************************************)
CONSTANTS Proc, Page, Value, Zero

VARIABLE mem     \* the memory of each process: a function on Page, or None

None == << >>
Has(p) == mem[p] # None

(* Somebody has memory before the first fork.                              *)
Init == \E p \in Proc : \E m \in [Page -> Value \cup {Zero}] :
            mem = [q \in Proc |-> IF q = p THEN m ELSE None]

Write(p, v, x) == Has(p) /\ mem' = [mem EXCEPT ![p][v] = x]

Fork(p, q) == Has(p) /\ ~Has(q) /\ mem' = [mem EXCEPT ![q] = mem[p]]

(* exit(), death for lack of memory, and the first half of exec().         *)
Lose(p) == Has(p) /\ mem' = [mem EXCEPT ![p] = None]

(* The second half of exec(): the new program finds its arguments in one   *)
(* page and zeros in the others.                                           *)
Start(p) ==
    /\ ~Has(p)
    /\ \E v \in Page, x \in Value :
          mem' = [mem EXCEPT ![p] = [w \in Page |-> IF w = v THEN x ELSE Zero]]

Next ==
    \E p \in Proc :
        \/ \E v \in Page, x \in Value : Write(p, v, x)
        \/ \E q \in Proc : Fork(p, q)
        \/ Lose(p)
        \/ Start(p)

Spec == Init /\ [][Next]_mem
=============================================================================
