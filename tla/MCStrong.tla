------------------------------- MODULE MCStrong -------------------------------
(* StrongPtr.tla with two objects, whose members may lead to each other. *)
EXTENDS StrongPtr, TLC

CONSTANTS o1, o2, m1, m2

MCMemberOf == o1 :> m1 @@ o2 :> m2
MCAddress == NoObject :> 0 @@ o1 :> 1 @@ o2 :> 2
=============================================================================
