------------------------------ MODULE MCMemory -----------------------------
(* Finite instances of Memory for TLC. *)
EXTENDS Memory, TLC

(* Two pages at the bottom of the address space and one at the top.        *)
TextAndStack == [v \in Page |-> IF v = ArgPage THEN 1 ELSE 0]

Symmetry == Permutations(Program) \cup Permutations(Value)

(* States that differ in the names of frames, in the contents of free      *)
(* frames or in the unused locals of a process are the same state.         *)
Sharing(f) == {pv \in Proc \X Page : pte[pv[1]][pv[2]].frame = f}

Mapping(p, v) ==
    LET e == pte[p][v]
    IN  IF e.frame = NoFrame THEN <<>>
        ELSE <<e.w, e.d, data[e.frame], mem_map[e.frame], Sharing(e.frame)>>

Locals(p) ==
    <<life[p], pc[p],
      IF life[p] = "alive" THEN <<executable[p], mem_map[task[p]]>> ELSE <<>>,
      [d \in Dir |-> IF table[p][d] = NoFrame THEN 0 ELSE mem_map[table[p][d]]],
      IF new[p] = NoFrame THEN <<>> ELSE <<data[new[p]], mem_map[new[p]]>>,
      IF pc[p] \in {"load", "copy"} THEN addr[p] ELSE ArgPage,
      IF pc[p] = "load" THEN ret[p] ELSE "user">>

Layout ==
    <<[p \in Proc |-> Locals(p)], [p \in Proc |-> [v \in Page |-> Mapping(p, v)]],
      Cardinality(FreeFrames(mem_map))>>
=============================================================================
