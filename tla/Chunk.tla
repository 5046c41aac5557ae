------------------------------- MODULE Chunk -------------------------------
(***************************************************************************)
(* One Chunk of the small-object allocator (src/include/SmallObj.cpp): a   *)
(* piece of memory cut into n equal blocks.  The first byte of every free  *)
(* block holds the index of the next free block (a "stealth index"), so    *)
(* the free blocks form a list threaded through the memory itself.         *)
(*                                                                         *)
(* A chunk is a record, so that std::swap of two headers is the exchange   *)
(* of two records: pData_ and the bytes it leads to move together.  An     *)
(* address is a pair <<pData_, block index>>; the byte offset, blockSize_  *)
(* times the index, is abstracted away.                                    *)
(***************************************************************************)
EXTENDS Integers

UCHAR_MAX == 255

\* What the first byte of a block holds while a client owns the block: some
\* byte the allocator must never use as an index.
Client == -1

Block(n) == 0 .. n - 1

\* The values the allocator itself writes: ++i up to n, and block indexes.
StealthIndex(n) == 0 .. n

ChunkType(Addr, n) ==
  [pData : Addr,
   firstAvailableBlock : StealthIndex(n),
   blocksAvailable : 0 .. n,
   stealth : [Block(n) -> StealthIndex(n) \cup {Client}]]

-----------------------------------------------------------------------------
(* Chunk::Reset, on the memory a that Chunk::Init obtained from malloc. *)
NewChunk_Circular(a, n) ==  \* mutant: the list is closed instead of ended
  [pData |-> a,
   firstAvailableBlock |-> 0,
   blocksAvailable |-> n,
   stealth |-> [b \in Block(n) |-> IF b + 2 < n THEN b + 1 ELSE 0]]

NewChunk(a, n) ==
  [pData |-> a,
   firstAvailableBlock |-> 0,
   blocksAvailable |-> n,
   stealth |-> [b \in Block(n) |-> b + 1]]

HasBlock(c, p) == c.pData = p[1]

HasAvailable(c, n) == c.blocksAvailable = n

IsFilled(c) == c.blocksAvailable = 0

(* Chunk::Allocate on a chunk that is not filled: the block it returns, and *)
(* the chunk it leaves.  The block belongs to the client from here on.      *)
Place(c) == <<c.pData, c.firstAvailableBlock>>

AllocateBlock_ReadsLate(c) ==  \* mutant: the index is read once the block is the client's
  [c EXCEPT !.firstAvailableBlock = Client,
            !.blocksAvailable = @ - 1,
            !.stealth = [@ EXCEPT ![c.firstAvailableBlock] = Client]]

AllocateBlock(c) ==
  [c EXCEPT !.firstAvailableBlock = c.stealth[c.firstAvailableBlock],
            !.blocksAvailable = @ - 1,
            !.stealth = [@ EXCEPT ![c.firstAvailableBlock] = Client]]

(* Chunk::Deallocate of block b: it becomes the head of the free list. *)
DeallocateBlock(c, b) ==
  [c EXCEPT !.firstAvailableBlock = b,
            !.blocksAvailable = @ + 1,
            !.stealth = [@ EXCEPT ![b] = c.firstAvailableBlock]]

-----------------------------------------------------------------------------
(* The traversal of IsCorrupt and IsBlockAvailable: the index it holds at   *)
(* each of its blocksAvailable_ steps.  An index that leads out of the      *)
(* chunk ends the traversal, here by repeating itself.                      *)
Traversal(c, n) ==
  LET at[k \in 1 .. c.blocksAvailable] ==
        IF k = 1 THEN c.firstAvailableBlock
        ELSE IF at[k - 1] \in Block(n) THEN c.stealth[at[k - 1]] ELSE at[k - 1]
  IN at

ChunkIsCorrupt_NoLoop(c, n) ==  \* mutant: a repeated index is not noticed
  \/ n < c.blocksAvailable
  \/ \E k \in 1 .. c.blocksAvailable : Traversal(c, n)[k] \notin Block(n)

ChunkIsCorrupt(c, n) ==
  \/ n < c.blocksAvailable
  \/ \E k \in 1 .. c.blocksAvailable :
       \/ Traversal(c, n)[k] \notin Block(n)
       \/ \E j \in 1 .. k - 1 : Traversal(c, n)[j] = Traversal(c, n)[k]

IsBlockAvailable_StopsEarly(c, n, b) ==  \* mutant: the last of the list is not looked at
  \E k \in 1 .. c.blocksAvailable - 1 : Traversal(c, n)[k] = b

IsBlockAvailable(c, n, b) ==
  \E k \in 1 .. c.blocksAvailable : Traversal(c, n)[k] = b

-----------------------------------------------------------------------------
(* What makes a chunk correct, stated without a traversal: order lists the  *)
(* free blocks, each once, in the order the stealth indexes give.           *)
IsFreeList(c, order) ==
  /\ \A i, j \in 1 .. c.blocksAvailable : order[i] = order[j] => i = j
  /\ c.blocksAvailable > 0 => order[1] = c.firstAvailableBlock
  /\ \A i \in 1 .. c.blocksAvailable - 1 : c.stealth[order[i]] = order[i + 1]
  /\ \A i \in 1 .. c.blocksAvailable : c.stealth[order[i]] # Client

\* The free list of c holds exactly the blocks in free.
FreeListIs(c, n, free) ==
  \E order \in [1 .. c.blocksAvailable -> Block(n)] :
    /\ IsFreeList(c, order)
    /\ free = {order[i] : i \in 1 .. c.blocksAvailable}
\* The blocks of c that are not in held, a set of addresses.
Unheld(c, n, held) == {b \in Block(n) : <<c.pData, b>> \notin held}
=============================================================================
