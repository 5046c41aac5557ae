------------------------- MODULE SmallObjAllocator -------------------------
(***************************************************************************)
(* SmallObjAllocator of src/include/SmallObj.cpp: one FixedAllocator per   *)
(* block size, and malloc for what is larger.  Every public operation runs *)
(* under the allocator's lock (SmallObj.h), so an operation is one step.   *)
(*                                                                         *)
(* The client is modelled by what it holds: live[p] is the number of bytes *)
(* it asked for when it was given p.  It frees only what it holds, with    *)
(* the size it asked for or with no size, and it may write to its blocks   *)
(* at any time (Chunk.tla marks the byte it may have written).             *)
(*                                                                         *)
(* Where the code follows a pointer to an element that is not there, its   *)
(* behaviour is undefined: the step sets undefined, nothing is claimed of  *)
(* what comes after, and nothing comes after.                              *)
(***************************************************************************)
EXTENDS FixedAllocator

CONSTANTS
  AlignSize,            \* objectAlignSize_
  MaxSmallObjectSize,   \* maxSmallObjectSize_
  PageSize,             \* the chunk size asked for
  MinObjectsPerChunk,   \* 8 in the code
  MaxObjectsPerChunk,   \* UCHAR_MAX in the code
  Sizes,                \* the request sizes of the client
  MayClear              \* whether the program calls ClearExtraMemory

ASSUME SizesAssumption ==
  /\ AlignSize \in Nat \ {0}
  /\ MaxSmallObjectSize \in Nat \ {0}
  /\ PageSize \in Nat
  /\ MinObjectsPerChunk \in 1 .. UCHAR_MAX
  /\ MaxObjectsPerChunk \in MinObjectsPerChunk .. UCHAR_MAX
  /\ Sizes \subseteq Nat
ASSUME EnvironmentAssumption ==
  /\ MallocFails \notin Addr
  /\ ReserveThrows \notin Addr
  /\ MayClear \in BOOLEAN

VARIABLES
  pool,        \* pool_: the FixedAllocators
  heap,        \* the memory areas that malloc has given out
  live,        \* the client's blocks, with the size asked for
  trimmed,     \* history: TrimExcessMemory has changed a pool
  thrown,      \* history: an exception has left TrimExcessMemory
  undefined    \* the program's behaviour is undefined

vars == <<pool, heap, live, trimmed, thrown, undefined>>

-----------------------------------------------------------------------------
(* Sizes and pools *)

GetOffset_Truncates(numBytes, alignment) == numBytes \div alignment  \* mutant

GetOffset(numBytes, alignment) == (numBytes + alignment - 1) \div alignment

allocCount == GetOffset(MaxSmallObjectSize, AlignSize)

Pool == 1 .. allocCount

BlockSize(i) == i * AlignSize

NumBlocks(i) == NumBlocksFor(BlockSize(i), PageSize, MinObjectsPerChunk, MaxObjectsPerChunk)

\* The pool for a small request; a request of 0 bytes counts as 1.
PoolOf(numBytes) == GetOffset(IF numBytes = 0 THEN 1 ELSE numBytes, AlignSize)

IsSmall(numBytes) == numBytes <= MaxSmallObjectSize

\* What the memory system may answer when an operation asks it for memory.
MemoryAnswer(taken) == (Addr \ taken) \cup {MallocFails, ReserveThrows}

Init ==
  /\ pool = [i \in Pool |-> NewFixedAllocator(NumBlocks(i))]
  /\ heap = {}
  /\ live = <<>>
  /\ trimmed = FALSE
  /\ thrown = FALSE
  /\ undefined = FALSE

-----------------------------------------------------------------------------
(* Steps the operations share *)

GoesUndefined ==
  /\ undefined' = TRUE
  /\ UNCHANGED <<pool, heap, live, trimmed, thrown>>

Give(p, numBytes) ==
  live' = [q \in DOMAIN live \cup {p} |-> IF q = p THEN numBytes ELSE live[q]]

TakeBack(p) == live' = [q \in DOMAIN live \ {p} |-> live[q]]

(* TrimExcessMemory on the pools ps and the heap h: every pool's            *)
(* TrimEmptyChunk, then TrimChunkList of the pools up to done.              *)
Trim(ps, h, done) ==
  LET emptied == [i \in Pool |-> TrimEmptyChunk(ps[i], h)] IN
  [pool  |-> [i \in Pool |-> IF i <= done THEN TrimChunkList(emptied[i].fa) ELSE emptied[i].fa],
   heap  |-> {a \in h : \A i \in Pool : a \in emptied[i].heap},
   found |-> \E i \in Pool : \/ ps[i].emptyChunk # NULL
                             \/ i <= done /\ Back(emptied[i].fa) # emptied[i].fa.capacity]

\* The pools whose list TrimExcessMemory copies: at each of them the copy may
\* throw, and this list and the later ones stay as they are.
MayThrowAt(ps, h) == {i \in Pool : TrimCopies(TrimEmptyChunk(ps[i], h).fa)}

TrimLeaves(trim) ==
  /\ pool' = trim.pool
  /\ heap' = trim.heap
  /\ trimmed' = (trimmed \/ trim.found)

-----------------------------------------------------------------------------
(* SmallObjAllocator::Allocate.  The first attempt may fail; then, if       *)
(* trimming released anything, there is one more.                           *)

FirstTry(i, m) == FixedAllocate(pool[i], heap, m)

\* The first attempt to serve numBytes has found no memory.
FirstTryFailed(numBytes, m) ==
  /\ ~undefined
  /\ IsSmall(numBytes)
  /\ AllocateDefined(pool[PoolOf(numBytes)])
  /\ FirstTry(PoolOf(numBytes), m).place = NoBlock

\* The pools when a first attempt has failed.
Tried(i, m) == [pool EXCEPT ![i] = FirstTry(i, m).fa]

\* What TrimExcessMemory then makes of them, if nothing throws.
AfterTrim(i, m) == Trim(Tried(i, m), heap, allocCount)

AllocateSmall(numBytes, m) ==
  LET i == PoolOf(numBytes)
      got == FirstTry(i, m)
  IN /\ ~undefined
     /\ IsSmall(numBytes)
     /\ AllocateDefined(pool[i])
     /\ got.place # NoBlock
     /\ pool' = [pool EXCEPT ![i] = got.fa]
     /\ heap' = got.heap
     /\ Give(got.place, numBytes)
     /\ UNCHANGED <<trimmed, thrown, undefined>>

\* Nothing to trim: NULL is returned, or bad_alloc thrown.
AllocateFails(numBytes, m) ==
  LET trim == AfterTrim(PoolOf(numBytes), m) IN
  /\ FirstTryFailed(numBytes, m)
  /\ ~trim.found
  /\ TrimLeaves(trim)
  /\ UNCHANGED <<live, thrown, undefined>>

\* The trim throws: no second attempt, and bad_alloc leaves Allocate even if
\* doThrow is false.
AllocateThrows(numBytes, m) ==
  LET tried == Tried(PoolOf(numBytes), m) IN
  /\ FirstTryFailed(numBytes, m)
  /\ \E k \in MayThrowAt(tried, heap) : TrimLeaves(Trim(tried, heap, k - 1))
  /\ thrown' = TRUE
  /\ UNCHANGED <<live, undefined>>

AllocateAgain(numBytes, m1) ==
  LET i == PoolOf(numBytes)
      trim == AfterTrim(i, m1)
  IN /\ FirstTryFailed(numBytes, m1)
     /\ trim.found
     /\ AllocateDefined(trim.pool[i])
     /\ \E m2 \in MemoryAnswer(trim.heap) :
          LET got == FixedAllocate(trim.pool[i], trim.heap, m2) IN
          /\ pool' = [trim.pool EXCEPT ![i] = got.fa]
          /\ heap' = got.heap
          /\ IF got.place = NoBlock THEN UNCHANGED live ELSE Give(got.place, numBytes)
     /\ trimmed' = TRUE
     /\ UNCHANGED <<thrown, undefined>>

AllocateUndefined(numBytes) ==
  /\ ~undefined
  /\ IsSmall(numBytes)
  /\ ~AllocateDefined(pool[PoolOf(numBytes)])
  /\ GoesUndefined

\* The second attempt follows an allocChunk_ that the trim has left behind.
AgainUndefined(numBytes, m) ==
  LET i == PoolOf(numBytes)
      trim == AfterTrim(i, m)
  IN /\ FirstTryFailed(numBytes, m)
     /\ trim.found
     /\ ~AllocateDefined(trim.pool[i])
     /\ TrimLeaves(trim)
     /\ undefined' = TRUE
     /\ UNCHANGED <<live, thrown>>

\* DefaultAllocator: a malloc of its own for a request that is not small.
AllocateLarge(numBytes, m) ==
  /\ ~undefined
  /\ ~IsSmall(numBytes)
  /\ m \in Addr
  /\ heap' = heap \cup {m}
  /\ Give(<<m, 0>>, numBytes)
  /\ UNCHANGED <<pool, trimmed, thrown, undefined>>

-----------------------------------------------------------------------------
(* SmallObjAllocator::Deallocate *)

\* The common end: chunk k of pool i takes p back.
DeallocateIn(i, k, p) ==
  LET done == FixedDeallocate(pool[i], heap, k, p) IN
  /\ pool' = [pool EXCEPT ![i] = done.fa]
  /\ heap' = done.heap
  /\ TakeBack(p)
  /\ UNCHANGED <<trimmed, thrown, undefined>>

\* Deallocate(p, numBytes) for a small block: the size gives the pool, and
\* VicinityFind the chunk.  Without an owner a release build does nothing.
DeallocateSized(p) ==
  LET i == PoolOf(live[p])
      k == VicinityFind(pool[i], p)
  IN /\ ~undefined
     /\ IsSmall(live[p])
     /\ VicinityFindDefined(pool[i])
     /\ IF k = NULL THEN TakeBack(p) /\ UNCHANGED <<pool, heap, trimmed, thrown, undefined>>
        ELSE DoDeallocateDefined(pool[i], k) /\ DeallocateIn(i, k, p)

DeallocateSizedUndefined(p) ==
  LET i == PoolOf(live[p]) IN
  /\ ~undefined
  /\ IsSmall(live[p])
  /\ \/ ~VicinityFindDefined(pool[i])
     \/ /\ VicinityFind(pool[i], p) # NULL
        /\ ~DoDeallocateDefined(pool[i], VicinityFind(pool[i], p))
  /\ GoesUndefined

\* Deallocate(p): the pools are searched in order, each from its first chunk,
\* and the first chunk that owns p is the hint.
Owners(p) == UNION {{<<i, k>> : k \in OwnersOf(pool[i], p)} : i \in Pool}

FirstOwner(p, i, k) ==
  /\ <<i, k>> \in Owners(p)
  /\ \A o \in Owners(p) : i < o[1] \/ (i = o[1] /\ k <= o[2])

DeallocateUnsized(p) ==
  /\ ~undefined
  /\ \E o \in Owners(p) :
       /\ FirstOwner(p, o[1], o[2])
       /\ DoDeallocateDefined(pool[o[1]], o[2])
       /\ DeallocateIn(o[1], o[2], p)

DeallocateUnsizedUndefined(p) ==
  /\ ~undefined
  /\ \E o \in Owners(p) :
       /\ FirstOwner(p, o[1], o[2])
       /\ ~DoDeallocateDefined(pool[o[1]], o[2])
  /\ GoesUndefined

\* DefaultDeallocator, by the size or because no pool owns p.
DeallocateLarge(p) ==
  /\ ~undefined
  /\ (~IsSmall(live[p]) \/ Owners(p) = {})
  /\ heap' = heap \ {p[1]}
  /\ TakeBack(p)
  /\ UNCHANGED <<pool, trimmed, thrown, undefined>>

-----------------------------------------------------------------------------
(* AllocatorSingleton::ClearExtraMemory: it returns, or the trim throws *)
ClearExtraMemory ==
  /\ MayClear
  /\ ~undefined
  /\ \/ TrimLeaves(Trim(pool, heap, allocCount)) /\ UNCHANGED thrown
     \/ /\ \E k \in MayThrowAt(pool, heap) : TrimLeaves(Trim(pool, heap, k - 1))
        /\ thrown' = TRUE
  /\ UNCHANGED <<live, undefined>>

Next ==
  \/ \E numBytes \in Sizes :
       \/ AllocateUndefined(numBytes)
       \/ \E m \in MemoryAnswer(heap) :
            \/ AllocateSmall(numBytes, m)
            \/ AllocateFails(numBytes, m)
            \/ AllocateThrows(numBytes, m)
            \/ AllocateAgain(numBytes, m)
            \/ AgainUndefined(numBytes, m)
            \/ AllocateLarge(numBytes, m)
  \/ \E p \in DOMAIN live :
       \/ DeallocateSized(p)
       \/ DeallocateSizedUndefined(p)
       \/ DeallocateUnsized(p)
       \/ DeallocateUnsizedUndefined(p)
       \/ DeallocateLarge(p)
  \/ ClearExtraMemory

Spec == Init /\ [][Next]_vars
-----------------------------------------------------------------------------
(* Properties *)

TypeOK ==
  /\ pool = [i \in Pool |-> pool[i]]
  /\ \A i \in Pool : pool[i] \in FixedAllocatorType(NumBlocks(i))
  /\ heap \in SUBSET Addr
  /\ live \in [DOMAIN live -> Sizes]
  /\ DOMAIN live \subseteq Addr \X Block(UCHAR_MAX)
  /\ trimmed \in BOOLEAN
  /\ thrown \in BOOLEAN
  /\ undefined \in BOOLEAN

(* The stealth indexes of every chunk list exactly the blocks that no       *)
(* client holds, each once: no block is handed out twice or lost, whatever  *)
(* clients write into theirs.  (Chunk::Allocate, Chunk::Deallocate and the  *)
(* swaps of FixedAllocator; SmallObj.cpp:61-66.)                            *)
FreeListsExact ==
  \A i \in Pool : \A k \in 1 .. Back(pool[i]) :
    LET c == pool[i].chunks[k] IN
    FreeListIs(c, NumBlocks(i), Unheld(c, NumBlocks(i), DOMAIN live))

(* At most one chunk of a pool is empty, and emptyChunk_ is that chunk, or  *)
(* NULL if there is none: it never leads out of the container, even after   *)
(* trimming.  (SmallObj.cpp:154-156.)                                       *)
EmptyChunkExact ==
  \A i \in Pool :
    /\ pool[i].emptyChunk = NULL \/ Within(pool[i], pool[i].emptyChunk)
    /\ \A k \in 1 .. Back(pool[i]) :
         HasAvailable(pool[i].chunks[k], NumBlocks(i)) <=> k = pool[i].emptyChunk

(* Every memory area in use is the memory of one chunk of one pool, or of   *)
(* one large block, and of nothing else; so Release gives back each area    *)
(* once, and none leaks when a vector grows, swaps or shrinks.              *)
HeapAccounted ==
  LET chunkPlaces == UNION {{<<i, k>> : k \in 1 .. Back(pool[i])} : i \in Pool}
      AreaOf(o) == pool[o[1]].chunks[o[2]].pData
      large == {p[1] : p \in {q \in DOMAIN live : ~IsSmall(live[q])}}
      small == {AreaOf(o) : o \in chunkPlaces}
  IN /\ heap = small \cup large
     /\ small \cap large = {}
     /\ \A o, o2 \in chunkPlaces : AreaOf(o) = AreaOf(o2) => o = o2

(* ClearExtraMemory gives back every area in which no client holds a block, *)
(* in every pool, whether it returns or throws while it trims the lists: no *)
(* sequence of allocations and deallocations leaves a second empty chunk,   *)
(* or one that emptyChunk_ does not know.  (SmallObj.h:155-162, 241-249.)   *)
ClearReleasesUnused ==
  [][ClearExtraMemory => \A a \in heap' : \E p \in DOMAIN live' : p[1] = a]_vars

(* The assertion of Deallocate (SmallObj.cpp:1053): the block of a client   *)
(* is found in the pool that its size selects.                              *)
HeldBlockIsFound ==
  \A p \in DOMAIN live :
    LET fa == pool[PoolOf(live[p])] IN
    IsSmall(live[p]) /\ VicinityFindDefined(fa) => VicinityFind(fa, p) # NULL

(* The class invariants on allocChunk_ and deallocChunk_: both NULL if the  *)
(* container is empty, else both lead to chunks in it.  They hold until     *)
(* TrimExcessMemory first moves a list or throws.  (SmallObj.cpp:157-159;   *)
(* an allocation that fails runs TrimExcessMemory.)                         *)
PointersInContainer ==
  \A i \in Pool : LET fa == pool[i] IN
    IF fa.chunks = <<>> THEN fa.allocChunk = NULL /\ fa.deallocChunk = NULL
    ELSE /\ fa.allocChunk = NULL \/ Within(fa, fa.allocChunk)
         /\ fa.deallocChunk = NULL \/ Within(fa, fa.deallocChunk)

(* The allocator's own check.  (SmallObjAllocator::IsCorrupt.)              *)
IsCorrupt == \E i \in Pool : FixedAllocatorIsCorrupt(pool[i])

(* Until memory is first trimmed, or trimming throws, nothing undefined     *)
(* happens, both pointers lead into the container and the allocator's own   *)
(* check finds nothing wrong with any pool: a reserve that throws, a malloc *)
(* that fails and the trim that finds nothing to trim do no harm.           *)
(* (FixedAllocator, IsCorrupt; SmallObj.cpp:154-161, 1023.)                 *)
SoundUntilTrimmed ==
  ~trimmed /\ ~thrown => ~undefined /\ PointersInContainer /\ ~IsCorrupt

(* TrimExcessMemory "will never throw" (SmallObj.h:157), and neither will   *)
(* ClearExtraMemory (SmallObj.h:243) or an Allocate that is not to throw    *)
(* (SmallObj.h:123-127).                                                    *)
TrimNeverThrows == ~thrown
-----------------------------------------------------------------------------
(* The abstract specification *)

\* The size of the blocks in area a: the pool's, or the large block's own.
BlockBytes(a) ==
  LET pools == {i \in Pool : a \in Areas(pool[i])}
      large == {p \in DOMAIN live : p[1] = a /\ ~IsSmall(live[p])}
  IN IF pools # {} THEN BlockSize(CHOOSE i \in pools : TRUE)
     ELSE IF large # {} THEN live[CHOOSE p \in large : TRUE]
     ELSE 0

Abstract == INSTANCE BlockPool WITH area <- [a \in Addr |-> BlockBytes(a)]

(* The allocator keeps the promise of BlockPool: every block handed out is  *)
(* one nobody holds and is big enough, and the memory under a held block is *)
(* not released, moved or recut, through every growth, swap and trim.       *)
ImplementsBlockPool == Abstract!Spec
=============================================================================
