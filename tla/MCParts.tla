------------------------------ MODULE MCParts ------------------------------
(***************************************************************************)
(* Programs that use one part of the library which shares nothing with the *)
(* others: the small-object allocator, with interchangeable areas; a chunk *)
(* whose clients overrun their blocks; or bit fields and checked returns.  *)
(* What the program does not use stays as it began.                        *)
(***************************************************************************)
EXTENDS MCSmallObjAllocator, ChunkCheck, MCCheckedFields

PartsInit == Init /\ ChunkInit /\ CheckedInit

\* Which policy complains is of no consequence to who has no checked returns.
CheckedRests == CheckedInit /\ ~onError

PartsNext ==
  \/ ChunkInit /\ CheckedRests /\ Next /\ UNCHANGED <<chunkVars, checkedVars>>
  \/ Init /\ CheckedRests /\ ChunkNext /\ UNCHANGED <<vars, checkedVars>>
  \/ Init /\ ChunkInit /\ CheckedNext /\ UNCHANGED <<vars, chunkVars>>

PartsSpec == PartsInit /\ [][PartsNext]_<<vars, chunkVars, checkedVars>>
=============================================================================
