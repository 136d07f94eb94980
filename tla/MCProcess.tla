----------------------------- MODULE MCProcess -----------------------------
(* Finite instances of Process for TLC. *)
EXTENDS Process

AnyChild == {-1}
ChildOrGroup == {-1, 0}
=============================================================================
