----------------------------- MODULE MCLinkedPtr -----------------------------
(* LinkedPtr.tla with interchangeable places and objects. *)
EXTENDS LinkedPtr, TLC

PtrSymmetry == Permutations(Node \ {Temp}) \cup Permutations(Object)
=============================================================================
