--------------------------- MODULE FixedAllocator ---------------------------
(***************************************************************************)
(* FixedAllocator of src/include/SmallObj.cpp: a vector of chunks of equal *)
(* size and three raw pointers into the vector's storage.  Its state is a  *)
(* record fa, its operations are operators from a state, and from what the *)
(* memory system answers, to the state they leave; SmallObjAllocator.tla   *)
(* keeps one such record per pool and takes the steps.                     *)
(*                                                                         *)
(* A pointer into the vector is NULL, the position of an element, or Freed *)
(* when it points into storage the vector has given back.  A position past *)
(* the end is possible: pop_back leaves pointers to the last element.      *)
(*                                                                         *)
(* The memory system's answer m to a request is an address, MallocFails    *)
(* (Chunk::Init returns false) or ReserveThrows (chunks_.reserve throws,   *)
(* if it has to allocate; otherwise it is malloc that fails).  TrimCopies  *)
(* tells whether TrimChunkList asks for memory of its own, and may throw.  *)
(***************************************************************************)
EXTENDS Chunk, Sequences

CONSTANTS
  Addr,         \* the memory areas malloc can return
  MinReserve    \* size of the first reserve, halved: 4 in the code

ASSUME MinReserveAssumption == MinReserve \in Nat \ {0}

NULL == 0
Freed == -1

MallocFails == "malloc fails"
ReserveThrows == "reserve throws"

\* The null pointer that Allocate returns.
NoBlock == <<>>

Pointer == Nat \cup {Freed}

FixedAllocatorType(n) ==
  [numBlocks : {n}, chunks : Seq(ChunkType(Addr, n)), capacity : Nat,
   allocChunk : Pointer, deallocChunk : Pointer, emptyChunk : Pointer]

(* FixedAllocator::Initialize: how many blocks a chunk has.  The limits are *)
(* MinObjectsPerChunk_ = 8 and MaxObjectsPerChunk_ = UCHAR_MAX in the code. *)
NumBlocksFor(blockSize, pageSize, minObjects, maxObjects) ==
  LET numBlocks == pageSize \div blockSize IN
  IF numBlocks > maxObjects THEN maxObjects
  ELSE IF numBlocks < minObjects THEN minObjects
  ELSE numBlocks

NewFixedAllocator(n) ==
  [numBlocks |-> n, chunks |-> <<>>, capacity |-> 0,
   allocChunk |-> NULL, deallocChunk |-> NULL, emptyChunk |-> NULL]

-----------------------------------------------------------------------------
(* The vector and the pointers into it *)

Back(fa) == Len(fa.chunks)

\* q points to a chunk that is in the container.
Within(fa, q) == q \in 1 .. Back(fa)

\* What a pointer into the storage is once the storage has been given back.
Stale(q) == IF q = NULL THEN NULL ELSE Freed

\* The vector moves to storage for k chunks.
Reallocate(fa, k) ==
  [fa EXCEPT !.capacity = k, !.allocChunk = Stale(@),
             !.deallocChunk = Stale(@), !.emptyChunk = Stale(@)]

SwapChunks(fa, i, j) ==
  [fa EXCEPT !.chunks = [@ EXCEPT ![i] = fa.chunks[j], ![j] = fa.chunks[i]]]

PopBack(fa) == [fa EXCEPT !.chunks = SubSeq(@, 1, Len(@) - 1)]

\* The memory areas that fa's chunks live in.
Areas(fa) == {fa.chunks[i].pData : i \in 1 .. Back(fa)}

-----------------------------------------------------------------------------
(* Allocation *)

(* FixedAllocator::MakeNewChunk.  A reserve that succeeds moves the vector *)
(* even if there is then no memory for the chunk.                           *)
MakeNewChunk(fa, m) ==
  LET full == fa.capacity = Back(fa)
      reserved == IF full
                  THEN Reallocate(fa, 2 * (IF Back(fa) = 0 THEN MinReserve ELSE Back(fa)))
                  ELSE fa
  IN CASE full /\ m = ReserveThrows -> [ok |-> FALSE, taken |-> {}, fa |-> fa]
       [] ~(full /\ m = ReserveThrows) /\ m \notin Addr -> [ok |-> FALSE, taken |-> {}, fa |-> reserved]
       [] m \in Addr ->
            [ok |-> TRUE, taken |-> {m},
             fa |-> [reserved EXCEPT !.chunks = Append(@, NewChunk(m, fa.numBlocks)),
                                     !.allocChunk = Back(fa) + 1,
                                     !.deallocChunk = 1]]

\* Allocate reads allocChunk_ before anything else.
AllocateDefined(fa) == fa.allocChunk = NULL \/ Within(fa, fa.allocChunk)

MustChangeChunk(fa) == fa.allocChunk = NULL \/ IsFilled(fa.chunks[fa.allocChunk])

PartlyFree(fa) == {i \in 1 .. Back(fa) : ~IsFilled(fa.chunks[i])}

AttachChunk_KeepsEmpty(fa, m) ==  \* mutant: an empty chunk put to use stays emptyChunk_
  IF ~MustChangeChunk(fa) THEN [ok |-> TRUE, taken |-> {}, fa |-> fa]
  ELSE IF fa.emptyChunk # NULL
  THEN [ok |-> TRUE, taken |-> {}, fa |-> [fa EXCEPT !.allocChunk = fa.emptyChunk]]
  ELSE MakeNewChunk(fa, m)

(* The first part of FixedAllocator::Allocate: allocChunk_ becomes a chunk *)
(* with a free block, if there is one or one can be made.                   *)
AttachChunk(fa, m) ==
  CASE ~MustChangeChunk(fa) ->
         [ok |-> TRUE, taken |-> {},
          fa |-> [fa EXCEPT !.emptyChunk = IF @ = fa.allocChunk THEN NULL ELSE @]]
    [] MustChangeChunk(fa) /\ fa.emptyChunk # NULL ->
         [ok |-> TRUE, taken |-> {},
          fa |-> [fa EXCEPT !.allocChunk = fa.emptyChunk, !.emptyChunk = NULL]]
    [] MustChangeChunk(fa) /\ fa.emptyChunk = NULL /\ PartlyFree(fa) # {} ->
         [ok |-> TRUE, taken |-> {},
          fa |-> [fa EXCEPT !.allocChunk =
                    CHOOSE i \in PartlyFree(fa) : \A j \in PartlyFree(fa) : i <= j]]
    [] MustChangeChunk(fa) /\ fa.emptyChunk = NULL /\ PartlyFree(fa) = {} ->
         MakeNewChunk(fa, m)

FixedAllocate(fa, heap, m) ==
  LET at == AttachChunk(fa, m)
      a == at.fa.allocChunk
  IN IF at.ok
     THEN [place |-> Place(at.fa.chunks[a]), heap |-> heap \cup at.taken,
           fa |-> [at.fa EXCEPT !.chunks[a] = AllocateBlock(@)]]
     ELSE [place |-> NoBlock, heap |-> heap, fa |-> at.fa]

-----------------------------------------------------------------------------
(* Deallocation *)

\* The search starts from the chunk that deallocChunk_ points to.
VicinityFindDefined(fa) == fa.chunks = <<>> \/ Within(fa, fa.deallocChunk)

OwnersOf(fa, p) == {i \in 1 .. Back(fa) : HasBlock(fa.chunks[i], p)}

(* FixedAllocator::VicinityFind: outwards from deallocChunk_, a step down   *)
(* and a step up in turn, so the nearest owner, the lower one first.        *)
VicinityFind_ForwardOnly(fa, p) ==  \* mutant: the search never goes down
  LET found == {i \in OwnersOf(fa, p) : i >= fa.deallocChunk} IN
  IF found = {} THEN NULL ELSE CHOOSE i \in found : \A j \in found : i <= j

VicinityFind(fa, p) ==
  LET turn(i) == IF i <= fa.deallocChunk THEN 2 * (fa.deallocChunk - i)
                 ELSE 2 * (i - fa.deallocChunk) - 1
  IN IF OwnersOf(fa, p) = {} THEN NULL
     ELSE CHOOSE i \in OwnersOf(fa, p) : \A j \in OwnersOf(fa, p) : turn(i) <= turn(j)

(* The end of FixedAllocator::DoDeallocate, when deallocChunk_ has become   *)
(* empty and there already was an empty chunk: one of the two is released.  *)
(* deallocChunk_ and emptyChunk_ are then the same.                         *)
ReleaseSecondEmpty_KeepsAlloc(fa, heap) ==  \* mutant: allocChunk_ not moved
  LET last == Back(fa)
      dealloc == IF fa.deallocChunk = last THEN fa.emptyChunk ELSE fa.deallocChunk
      swapped == IF fa.deallocChunk = last THEN fa ELSE SwapChunks(fa, fa.emptyChunk, last)
  IN [heap |-> heap \ {swapped.chunks[last].pData},
      fa |-> [PopBack(swapped) EXCEPT !.deallocChunk = dealloc, !.emptyChunk = dealloc]]

ReleaseSecondEmpty(fa, heap) ==
  LET last == Back(fa)
      dealloc == IF fa.deallocChunk = last THEN fa.emptyChunk ELSE fa.deallocChunk
      swapped == IF fa.deallocChunk = last THEN fa ELSE SwapChunks(fa, fa.emptyChunk, last)
      popped == PopBack(swapped)
  IN [heap |-> heap \ {swapped.chunks[last].pData},
      fa |-> [popped EXCEPT !.deallocChunk = dealloc, !.emptyChunk = dealloc,
                !.allocChunk = IF @ = last \/ IsFilled(popped.chunks[@]) THEN dealloc ELSE @]]

\* What deallocating block b of chunk i leaves before any chunk is released.
BlockReturned(fa, i, b) ==
  [fa EXCEPT !.deallocChunk = i, !.chunks[i] = DeallocateBlock(@, b)]

BecomesEmpty(fa, i) == fa.chunks[i].blocksAvailable + 1 = fa.numBlocks

(* DoDeallocate reads *allocChunk_ when it releases a chunk, unless that is *)
(* the chunk allocChunk_ points to.                                         *)
DoDeallocateDefined(fa, i) ==
  BecomesEmpty(fa, i) /\ fa.emptyChunk # NULL => Within(fa, fa.allocChunk)

(* FixedAllocator::Deallocate of p, found in chunk i, with DoDeallocate. *)
FixedDeallocate_KeepsBoth(fa, heap, i, p) ==  \* mutant: the older empty chunk is forgotten
  LET returned == BlockReturned(fa, i, p[2]) IN
  IF BecomesEmpty(fa, i) THEN [fa |-> [returned EXCEPT !.emptyChunk = i], heap |-> heap]
  ELSE [fa |-> returned, heap |-> heap]

FixedDeallocate(fa, heap, i, p) ==
  LET returned == BlockReturned(fa, i, p[2]) IN
  CASE ~BecomesEmpty(fa, i) -> [fa |-> returned, heap |-> heap]
    [] BecomesEmpty(fa, i) /\ fa.emptyChunk = NULL ->
         [fa |-> [returned EXCEPT !.emptyChunk = i], heap |-> heap]
    [] BecomesEmpty(fa, i) /\ fa.emptyChunk # NULL -> ReleaseSecondEmpty(returned, heap)

-----------------------------------------------------------------------------
(* Trimming and destruction *)

(* FixedAllocator::TrimEmptyChunk *)
TrimEmptyChunk_ForgetsRelease(fa, heap) ==  \* mutant: drops the chunk, keeps its memory
  LET swapped == SwapChunks(fa, fa.emptyChunk, Back(fa)) IN
  IF fa.emptyChunk = NULL THEN [fa |-> fa, heap |-> heap]
  ELSE [heap |-> heap, fa |-> [PopBack(swapped) EXCEPT !.emptyChunk = NULL,
                                 !.allocChunk = NULL, !.deallocChunk = NULL]]

TrimEmptyChunk(fa, heap) ==
  LET swapped == SwapChunks(fa, fa.emptyChunk, Back(fa))
      popped == PopBack(swapped)
      Repoint(q, other) == IF popped.chunks = <<>> THEN NULL
                           ELSE IF q = fa.emptyChunk THEN other ELSE q
  IN IF fa.emptyChunk = NULL THEN [fa |-> fa, heap |-> heap]
     ELSE [heap |-> heap \ {swapped.chunks[Back(fa)].pData},
           fa |-> [popped EXCEPT !.deallocChunk = Repoint(@, 1),
                                 !.allocChunk = Repoint(@, Back(popped)),
                                 !.emptyChunk = NULL]]

\* TrimChunkList makes a copy of the vector, which allocates and may throw
\* unless the vector is empty.
TrimCopies(fa) == fa.chunks # <<>> /\ Back(fa) # fa.capacity

(* FixedAllocator::TrimChunkList: copy the vector and swap.  The capacity   *)
(* becomes the size, and the pointers lead into the storage of the copy's   *)
(* predecessor.  A copy that throws leaves everything as it was.            *)
TrimChunkList(fa) == IF Back(fa) = fa.capacity THEN fa ELSE Reallocate(fa, Back(fa))

-----------------------------------------------------------------------------
(* The code's own consistency check, FixedAllocator::IsCorrupt *)
OutOfContainer(fa, q) == q = NULL \/ ~Within(fa, q)

FixedAllocatorIsCorrupt(fa) ==
  IF fa.chunks = <<>>
  THEN fa.emptyChunk # NULL \/ fa.deallocChunk # NULL \/ fa.allocChunk # NULL
  ELSE \/ OutOfContainer(fa, fa.deallocChunk)
       \/ OutOfContainer(fa, fa.allocChunk)
       \/ /\ fa.emptyChunk # NULL
          /\ \/ ~Within(fa, fa.emptyChunk)
             \/ ~HasAvailable(fa.chunks[fa.emptyChunk], fa.numBlocks)
       \/ \E i \in 1 .. Back(fa) : ChunkIsCorrupt(fa.chunks[i], fa.numBlocks)
=============================================================================
