------------------------ MODULE MCSmallObjAllocator ------------------------
(* SmallObjAllocator.tla with interchangeable memory areas. *)
EXTENDS SmallObjAllocator, TLC

AreaSymmetry == Permutations(Addr)
=============================================================================
