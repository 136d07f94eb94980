--------------------------- MODULE MCBufferCache ---------------------------
(* Instances of BufferCache for TLC. *)
EXTENDS BufferCache, TLC

Symmetry == Permutations(Task)
=============================================================================
