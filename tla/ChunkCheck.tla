----------------------------- MODULE ChunkCheck -----------------------------
(***************************************************************************)
(* What Chunk::IsCorrupt and Chunk::IsBlockAvailable find out, on one      *)
(* chunk whose clients overrun their blocks.  A client may write any byte  *)
(* over its own block, and, by mistake, over the first byte of the next.   *)
(***************************************************************************)
EXTENDS Chunk

CONSTANTS
  N,            \* numBlocks
  MaxOverruns   \* how often clients write over a block that is not theirs

ASSUME NAssumption == N \in 1 .. UCHAR_MAX
ASSUME MaxOverrunsAssumption == MaxOverruns \in Nat

VARIABLES chunk, lent, overruns

chunkVars == <<chunk, lent, overruns>>

\* Bytes: the indexes the allocator may write, and one it never does.
Byte == 0 .. N + 1

ChunkInit ==
  /\ chunk = NewChunk("area", N)
  /\ lent = {}
  /\ overruns = 0

\* Chunk::Allocate follows whatever index it finds; one that leads out of the
\* chunk makes it read and return memory of somebody else.
Allocate ==
  /\ ~IsFilled(chunk)
  /\ chunk.firstAvailableBlock \in Block(N)
  /\ chunk' = AllocateBlock(chunk)
  /\ lent' = lent \cup {chunk.firstAvailableBlock}
  /\ UNCHANGED overruns

Deallocate(b) ==
  /\ b \in lent
  /\ chunk.blocksAvailable < N
  /\ chunk' = DeallocateBlock(chunk, b)
  /\ lent' = lent \ {b}
  /\ UNCHANGED overruns

Write(b, byte) ==
  /\ b \in lent
  /\ chunk' = [chunk EXCEPT !.stealth[b] = byte]
  /\ UNCHANGED <<lent, overruns>>

Overrun(b, byte) ==
  /\ overruns < MaxOverruns
  /\ b - 1 \in lent
  /\ b \notin lent
  /\ chunk' = [chunk EXCEPT !.stealth[b] = byte]
  /\ overruns' = overruns + 1
  /\ UNCHANGED lent

ChunkNext ==
  \/ Allocate
  \/ \E b \in Block(N) :
       \/ Deallocate(b)
       \/ \E byte \in Byte : Write(b, byte) \/ Overrun(b, byte)

ChunkSpec == ChunkInit /\ [][ChunkNext]_chunkVars
-----------------------------------------------------------------------------
\* A list of blocksAvailable_ different blocks, each holding the next one's index.
IsList(order) ==
  /\ \A i, j \in 1 .. chunk.blocksAvailable : order[i] = order[j] => i = j
  /\ chunk.blocksAvailable > 0 => order[1] = chunk.firstAvailableBlock
  /\ \A i \in 1 .. chunk.blocksAvailable - 1 : chunk.stealth[order[i]] = order[i + 1]

(* The traversal of IsCorrupt reports a chunk exactly when its indexes do   *)
(* not make a list of blocksAvailable_ blocks: whatever clients wrote where, *)
(* no false alarm, and neither a wild index nor a loop is missed.           *)
(* (SmallObj.cpp:404-434; blocks of clients are not looked into.)           *)
IsCorruptExact ==
  ChunkIsCorrupt(chunk, N) <=> ~ \E order \in [1 .. chunk.blocksAvailable -> Block(N)] : IsList(order)

(* As long as clients keep to their blocks, IsBlockAvailable tells the free *)
(* blocks from theirs, and IsCorrupt has nothing to report.  Deallocate     *)
(* relies on it to tell a block that is deleted twice.                      *)
(* (SmallObj.cpp:478-512, 822-829.)                                         *)
AvailableIsUnheld ==
  overruns = 0 =>
    /\ \A b \in Block(N) : IsBlockAvailable(chunk, N, b) <=> b \notin lent
    /\ ~ChunkIsCorrupt(chunk, N)
=============================================================================
