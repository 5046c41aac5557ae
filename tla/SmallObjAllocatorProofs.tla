---------------------- MODULE SmallObjAllocatorProofs ----------------------
(***************************************************************************)
(* The safety of SmallObjAllocator, for every set of areas, page size,     *)
(* alignment and limit, and whether or not the program trims; and before   *)
(* it what FixedAllocator's operations preserve, for every number of       *)
(* blocks, of chunks and of areas, and wherever allocChunk_ and            *)
(* deallocChunk_ lead.  At the end, IsCorrupt's and IsBlockAvailable's     *)
(* answers on an overrun chunk, for every number of blocks and of overruns *)
(* (ChunkCheck).                                                           *)
(***************************************************************************)
EXTENDS SmallObjAllocator, ChunkCheck, OperatorLemmas

-----------------------------------------------------------------------------
(* FixedAllocator: the free lists, the one empty chunk and the areas of the chunks *)

\* The chunks cs have memory of their own, and the free list of each holds the
\* blocks that are not in held.
ChunksOK(cs, n, held) ==
  /\ cs \in Seq(ChunkType(Addr, n))
  /\ \A j, k \in 1 .. Len(cs) : cs[j].pData = cs[k].pData => j = k
  /\ \A k \in 1 .. Len(cs) : FreeListIs(cs[k], n, Unheld(cs[k], n, held))

\* e is the one empty chunk, or NULL if there is none.
EmptyOK(cs, n, e) ==
  /\ e = NULL \/ e \in 1 .. Len(cs)
  /\ \A k \in 1 .. Len(cs) : HasAvailable(cs[k], n) <=> k = e

PoolOK(fa, n, held) ==
  /\ fa \in FixedAllocatorType(n)
  /\ ChunksOK(fa.chunks, n, held)
  /\ EmptyOK(fa.chunks, n, fa.emptyChunk)

AreasOf(cs) == {cs[i].pData : i \in 1 .. Len(cs)}

-----------------------------------------------------------------------------
(* Replacing chunk k by one with the same memory and the right free list. *)
LEMMA ReplaceChunk ==
  ASSUME NEW n \in 1 .. UCHAR_MAX, NEW held, NEW held2, NEW cs, ChunksOK(cs, n, held),
         NEW k \in 1 .. Len(cs), NEW c \in ChunkType(Addr, n), c.pData = cs[k].pData,
         FreeListIs(c, n, Unheld(c, n, held2)),
         \A a \in AreasOf(cs), b \in Block(n) :
           a # c.pData => (<<a, b>> \in held <=> <<a, b>> \in held2)
  PROVE  /\ ChunksOK([cs EXCEPT ![k] = c], n, held2)
         /\ Len([cs EXCEPT ![k] = c]) = Len(cs)
         /\ \A j \in 1 .. Len(cs) : [cs EXCEPT ![k] = c][j] = IF j = k THEN c ELSE cs[j]
         /\ AreasOf([cs EXCEPT ![k] = c]) = AreasOf(cs)
<1> DEFINE ds == [cs EXCEPT ![k] = c]
<1>1. /\ ds \in Seq(ChunkType(Addr, n))
      /\ Len(ds) = Len(cs)
      /\ \A j \in 1 .. Len(cs) : ds[j] = IF j = k THEN c ELSE cs[j]
  BY ExceptSeq DEF ChunksOK
<1> HIDE DEF ds
<1>2. \A j \in 1 .. Len(cs) : ds[j].pData = cs[j].pData
  BY <1>1
<1>3. ASSUME NEW j \in 1 .. Len(ds) PROVE FreeListIs(ds[j], n, Unheld(ds[j], n, held2))
  <2>1. CASE j = k
    BY <1>1, <2>1
  <2>2. CASE j # k
    <3>1. ds[j] = cs[j] /\ FreeListIs(cs[j], n, Unheld(cs[j], n, held))
      BY <1>1, <2>2 DEF ChunksOK
    <3>2. cs[j].pData # c.pData /\ cs[j].pData \in AreasOf(cs)
      BY <1>1, <2>2 DEF ChunksOK, AreasOf
    <3>3. Unheld(cs[j], n, held) = Unheld(cs[j], n, held2)
      BY <3>2 DEF Unheld
    <3>4. QED
      BY <3>1, <3>3
  <2>3. QED
    BY <2>1, <2>2
<1>4. ChunksOK(ds, n, held2)
  BY <1>1, <1>2, <1>3 DEF ChunksOK
<1>5. AreasOf(ds) = AreasOf(cs)
  BY <1>1, <1>2 DEF AreasOf
<1>6. QED
  BY <1>1, <1>4, <1>5 DEF ds

(* Chunk::Allocate in chunk k gives a block of k that was not held. *)
LEMMA AllocateFromChunk ==
  ASSUME NEW n \in 1 .. UCHAR_MAX, NEW held, NEW cs, ChunksOK(cs, n, held),
         NEW k \in 1 .. Len(cs), ~IsFilled(cs[k])
  PROVE  LET p == Place(cs[k])
             ds == [cs EXCEPT ![k] = AllocateBlock(@)]
         IN /\ p = <<p[1], p[2]>> /\ p[1] = cs[k].pData /\ p[2] \in Block(n)
            /\ p \notin held
            /\ ChunksOK(ds, n, held \cup {p})
            /\ Len(ds) = Len(cs)
            /\ \A j \in 1 .. Len(cs) : ds[j] = IF j = k THEN AllocateBlock(cs[k]) ELSE cs[j]
            /\ ~HasAvailable(ds[k], n)
            /\ AreasOf(ds) = AreasOf(cs)
<1> DEFINE c == cs[k]
           p == Place(c)
           d == AllocateBlock(c)
           free == Unheld(c, n, held)
<1>1. c \in ChunkType(Addr, n) /\ FreeListIs(c, n, free)
  BY ElementOfSeq DEF ChunksOK
<1>2. /\ c.firstAvailableBlock \in Block(n)
      /\ c.firstAvailableBlock \in free
      /\ d \in ChunkType(Addr, n)
      /\ d.pData = c.pData
      /\ ~HasAvailable(d, n)
      /\ FreeListIs(d, n, free \ {c.firstAvailableBlock})
  BY <1>1, AllocateBlockFreeList
<1>3. p = <<c.pData, c.firstAvailableBlock>>
  BY DEF Place
<1>4. p \notin held
  BY <1>2, <1>3 DEF Unheld
<1>5. Unheld(d, n, held \cup {p}) = free \ {c.firstAvailableBlock}
  BY <1>2, <1>3 DEF Unheld
<1>6. \A a \in AreasOf(cs), b \in Block(n) :
        a # d.pData => (<<a, b>> \in held <=> <<a, b>> \in held \cup {p})
  BY <1>2, <1>3
<1> DEFINE held2 == held \cup {p}
<1>a. /\ d \in ChunkType(Addr, n) /\ d.pData = cs[k].pData
      /\ FreeListIs(d, n, Unheld(d, n, held2))
      /\ \A a \in AreasOf(cs), b \in Block(n) :
           a # d.pData => (<<a, b>> \in held <=> <<a, b>> \in held2)
  BY <1>2, <1>5, <1>6
<1> HIDE DEF c, d, free, p, held2
<1>7. /\ ChunksOK([cs EXCEPT ![k] = d], n, held2)
      /\ Len([cs EXCEPT ![k] = d]) = Len(cs)
      /\ \A j \in 1 .. Len(cs) : [cs EXCEPT ![k] = d][j] = IF j = k THEN d ELSE cs[j]
      /\ AreasOf([cs EXCEPT ![k] = d]) = AreasOf(cs)
  BY <1>a, ReplaceChunk
<1>8. [cs EXCEPT ![k] = AllocateBlock(@)] = [cs EXCEPT ![k] = d]
  BY DEF c, d
<1>9. QED
  BY <1>2, <1>3, <1>4, <1>7, <1>8 DEF c, d, p, held2

DeallocatedIn(cs, k, b) == [cs EXCEPT ![k] = DeallocateBlock(@, b)]

DeallocateInOK(n, held, cs, k, b) ==
  LET ds == DeallocatedIn(cs, k, b) IN
  /\ ChunksOK(ds, n, held \ {<<cs[k].pData, b>>})
  /\ Len(ds) = Len(cs)
  /\ \A j \in 1 .. Len(cs) : ds[j] = IF j = k THEN DeallocateBlock(cs[k], b) ELSE cs[j]
  /\ ~HasAvailable(cs[k], n)
  /\ ds[k].blocksAvailable = cs[k].blocksAvailable + 1
  /\ AreasOf(ds) = AreasOf(cs)

(* Chunk::Deallocate in chunk k of a held block of k. *)
LEMMA DeallocateInChunk ==
  ASSUME NEW n \in 1 .. UCHAR_MAX, NEW held, NEW cs, ChunksOK(cs, n, held),
         NEW k \in 1 .. Len(cs), NEW b \in Block(n), <<cs[k].pData, b>> \in held
  PROVE  DeallocateInOK(n, held, cs, k, b)
<1> DEFINE c == cs[k]
           p == <<c.pData, b>>
           d == DeallocateBlock(c, b)
           free == Unheld(c, n, held)
<1>1. c \in ChunkType(Addr, n) /\ FreeListIs(c, n, free) /\ b \notin free
  BY ElementOfSeq DEF ChunksOK, Unheld
<1>2. /\ d \in ChunkType(Addr, n)
      /\ d.pData = c.pData
      /\ d.blocksAvailable = c.blocksAvailable + 1
      /\ ~HasAvailable(c, n)
      /\ FreeListIs(d, n, free \cup {b})
  BY <1>1, DeallocateBlockFreeList
<1>3. Unheld(d, n, held \ {p}) = free \cup {b}
  BY <1>2 DEF Unheld
<1>4. \A a \in AreasOf(cs), x \in Block(n) :
        a # d.pData => (<<a, x>> \in held <=> <<a, x>> \in held \ {p})
  BY <1>2
<1> DEFINE held2 == held \ {p}
<1>a. /\ d \in ChunkType(Addr, n) /\ d.pData = cs[k].pData
      /\ FreeListIs(d, n, Unheld(d, n, held2))
      /\ \A a \in AreasOf(cs), x \in Block(n) :
           a # d.pData => (<<a, x>> \in held <=> <<a, x>> \in held2)
  BY <1>2, <1>3, <1>4
<1> HIDE DEF c, d, free, p, held2
<1>5. /\ ChunksOK([cs EXCEPT ![k] = d], n, held2)
      /\ Len([cs EXCEPT ![k] = d]) = Len(cs)
      /\ \A j \in 1 .. Len(cs) : [cs EXCEPT ![k] = d][j] = IF j = k THEN d ELSE cs[j]
      /\ AreasOf([cs EXCEPT ![k] = d]) = AreasOf(cs)
  BY <1>a, ReplaceChunk
<1>6. [cs EXCEPT ![k] = DeallocateBlock(@, b)] = [cs EXCEPT ![k] = d]
  BY DEF c, d
<1>7. QED
  BY <1>2, <1>5, <1>6 DEF c, d, p, held2, DeallocateInOK, DeallocatedIn

(* push_back of a fresh chunk on memory that nothing else uses. *)
LEMMA AppendNewChunk ==
  ASSUME NEW n \in 1 .. UCHAR_MAX, NEW held, NEW cs, ChunksOK(cs, n, held),
         NEW m \in Addr, m \notin AreasOf(cs), \A b \in Block(n) : <<m, b>> \notin held
  PROVE  LET ds == Append(cs, NewChunk(m, n))
         IN /\ ChunksOK(ds, n, held)
            /\ Len(ds) = Len(cs) + 1
            /\ Len(cs) \in Nat
            /\ \A j \in 1 .. Len(cs) : ds[j] = cs[j]
            /\ ~IsFilled(ds[Len(cs) + 1])
            /\ ds[Len(cs) + 1].pData = m
            /\ AreasOf(ds) = AreasOf(cs) \cup {m}
<1> DEFINE c == NewChunk(m, n)
           ds == Append(cs, c)
<1>1. c \in ChunkType(Addr, n) /\ FreeListIs(c, n, Block(n))
  BY NewChunkFreeList
<1>2. Unheld(c, n, held) = Block(n) /\ c.pData = m /\ ~IsFilled(c)
  BY DEF Unheld, NewChunk, IsFilled, UCHAR_MAX
<1> HIDE DEF c
<1>3. /\ ds \in Seq(ChunkType(Addr, n))
      /\ Len(ds) = Len(cs) + 1
      /\ \A j \in 1 .. Len(cs) : ds[j] = cs[j]
      /\ ds[Len(cs) + 1] = c
      /\ Len(cs) \in Nat
  BY <1>1, AppendProperties, LenProperties DEF ChunksOK
<1> HIDE DEF ds
<1>4. \A j \in 1 .. Len(ds) : j \in 1 .. Len(cs) \/ j = Len(cs) + 1
  BY <1>3
<1>5. \A j \in 1 .. Len(cs) : ds[j].pData # m
  BY <1>3 DEF AreasOf
<1>6. \A j, k \in 1 .. Len(ds) : ds[j].pData = ds[k].pData => j = k
  BY <1>2, <1>3, <1>4, <1>5 DEF ChunksOK
<1>7. \A k \in 1 .. Len(ds) : FreeListIs(ds[k], n, Unheld(ds[k], n, held))
  BY <1>1, <1>2, <1>3, <1>4 DEF ChunksOK
<1>8. AreasOf(ds) = AreasOf(cs) \cup {m}
  <2>1. Len(cs) + 1 \in 1 .. Len(ds) /\ ds[Len(cs) + 1].pData = m
    BY <1>2, <1>3
  <2>2. \A j \in 1 .. Len(cs) : j \in 1 .. Len(ds) /\ ds[j].pData = cs[j].pData
    BY <1>3
  <2>3. \A j \in 1 .. Len(ds) : ds[j].pData \in AreasOf(cs) \cup {m}
    BY <1>2, <1>3, <1>4 DEF AreasOf
  <2>4. AreasOf(ds) \subseteq AreasOf(cs) \cup {m}
    BY <2>3 DEF AreasOf
  <2>5. m \in AreasOf(ds) /\ \A j \in 1 .. Len(cs) : cs[j].pData \in AreasOf(ds)
    BY <2>1, <2>2 DEF AreasOf
  <2>6. AreasOf(cs) \subseteq AreasOf(ds)
    BY <2>5 DEF AreasOf
  <2>7. QED
    BY <2>4, <2>5, <2>6
<1>9. QED
  BY <1>2, <1>3, <1>6, <1>7, <1>8 DEF ChunksOK, ds, c

Swapped(cs, e) == [cs EXCEPT ![e] = cs[Len(cs)], ![Len(cs)] = cs[e]]

Removed(cs, e) == SubSeq(Swapped(cs, e), 1, Len(Swapped(cs, e)) - 1)

\* What is left when chunk e is removed.
RemoveOK(cs, n, held, e) ==
  /\ Len(cs) \in Nat \ {0}
  /\ Len(Swapped(cs, e)) = Len(cs)
  /\ Swapped(cs, e)[Len(cs)].pData = cs[e].pData
  /\ ChunksOK(Removed(cs, e), n, held)
  /\ Len(Removed(cs, e)) = Len(cs) - 1
  /\ \A j \in 1 .. Len(cs) - 1 : Removed(cs, e)[j] = IF j = e THEN cs[Len(cs)] ELSE cs[j]
  /\ AreasOf(Removed(cs, e)) = AreasOf(cs) \ {cs[e].pData}

(* Swapping chunk e with the last one and dropping it there: what both      *)
(* TrimEmptyChunk and DoDeallocate do to the vector.                        *)
LEMMA RemoveChunk ==
  ASSUME NEW n \in 1 .. UCHAR_MAX, NEW held, NEW cs, ChunksOK(cs, n, held),
         NEW e \in 1 .. Len(cs)
  PROVE  RemoveOK(cs, n, held, e)
<1> DEFINE last == Len(cs)
           T == ChunkType(Addr, n)
           one == [cs EXCEPT ![e] = cs[last]]
           swapped == [one EXCEPT ![last] = cs[e]]
           ds == SubSeq(swapped, 1, Len(swapped) - 1)
<1>1. cs \in Seq(T) /\ last \in Nat \ {0} /\ last \in 1 .. last
  <2>1. cs \in Seq(T)
    BY DEF ChunksOK
  <2>2. QED
    BY <2>1, LenProperties
<1>2. cs[e] \in T /\ cs[last] \in T
  BY <1>1, ElementOfSeq
<1>3. /\ one \in Seq(T) /\ Len(one) = last
      /\ \A j \in 1 .. last : one[j] = IF j = e THEN cs[last] ELSE cs[j]
  BY <1>1, <1>2, ExceptSeq
<1> HIDE DEF one
<1>4. /\ swapped \in Seq(T) /\ Len(swapped) = last
      /\ \A j \in 1 .. last : swapped[j] = IF j = last THEN cs[e] ELSE one[j]
  BY <1>1, <1>2, <1>3, ExceptSeq
<1> HIDE DEF swapped
<1>5. \A j \in 1 .. last - 1 : swapped[j] \in T
  BY <1>1, <1>4, ElementOfSeq
<1>6. /\ ds \in Seq(T)
      /\ Len(ds) = last - 1
      /\ \A j \in 1 .. last - 1 : ds[j] = swapped[j]
  <2>1. last - 1 \in Int /\ 1 \in Int /\ Len(swapped) - 1 = last - 1
    BY <1>1, <1>4
  <2>2. /\ SubSeq(swapped, 1, last - 1) \in Seq(T)
        /\ Len(SubSeq(swapped, 1, last - 1)) = IF 1 <= last - 1 THEN last - 1 - 1 + 1 ELSE 0
        /\ \A i \in 1 .. last - 1 - 1 + 1 : SubSeq(swapped, 1, last - 1)[i] = swapped[1 + i - 1]
    BY <1>5, <2>1, SubSeqProperties
  <2>3. QED
    BY <1>1, <2>1, <2>2
<1> HIDE DEF ds
<1>7. \A j \in 1 .. last - 1 :
        j \in 1 .. last /\ j # last /\ ds[j] = IF j = e THEN cs[last] ELSE cs[j]
  BY <1>1, <1>3, <1>4, <1>6
<1>8. \A j, k \in 1 .. Len(ds) : ds[j].pData = ds[k].pData => j = k
  BY <1>1, <1>6, <1>7 DEF ChunksOK
<1>9. \A k \in 1 .. Len(ds) : FreeListIs(ds[k], n, Unheld(ds[k], n, held))
  BY <1>1, <1>6, <1>7 DEF ChunksOK
<1>10. AreasOf(ds) = AreasOf(cs) \ {cs[e].pData}
  <2>1. ASSUME NEW j \in 1 .. last - 1
        PROVE  ds[j].pData \in AreasOf(cs) /\ ds[j].pData # cs[e].pData
    BY <1>1, <1>7 DEF ChunksOK, AreasOf
  <2>2. ASSUME NEW j \in 1 .. last, cs[j].pData # cs[e].pData
        PROVE  \E i \in 1 .. last - 1 : ds[i].pData = cs[j].pData
    <3>1. CASE j = last
      <4>1. e \in 1 .. last - 1
        BY <1>1, <2>2, <3>1
      <4>2. QED
        BY <1>7, <3>1, <4>1
    <3>2. CASE j # last
      <4>1. j \in 1 .. last - 1 /\ j # e
        BY <1>1, <2>2, <3>2
      <4>2. QED
        BY <1>7, <4>1
    <3>3. QED
      BY <3>1, <3>2
  <2>3. ASSUME NEW a \in AreasOf(ds) PROVE a \in AreasOf(cs) \ {cs[e].pData}
    <3>1. PICK j \in 1 .. last - 1 : a = ds[j].pData
      BY <1>6 DEF AreasOf
    <3>2. QED
      BY <2>1, <3>1
  <2>4. ASSUME NEW a \in AreasOf(cs) \ {cs[e].pData} PROVE a \in AreasOf(ds)
    <3>1. PICK j \in 1 .. last : a = cs[j].pData
      BY DEF AreasOf
    <3>2. PICK i \in 1 .. last - 1 : ds[i].pData = a
      BY <2>2, <3>1
    <3>3. QED
      BY <1>6, <3>2 DEF AreasOf
  <2>5. QED
    BY <2>3, <2>4
<1>11. swapped[last].pData = cs[e].pData
  BY <1>1, <1>4
<1>12. ChunksOK(ds, n, held)
  BY <1>6, <1>8, <1>9 DEF ChunksOK
<1>13. QED
  BY <1>1, <1>4, <1>6, <1>7, <1>10, <1>11, <1>12 DEF RemoveOK, Removed, Swapped, ds, swapped, one

-----------------------------------------------------------------------------
(* The operations of FixedAllocator *)

(* What the caller of FixedAllocator::Allocate gets: a block of the pool    *)
(* that nobody held, or NULL; and the areas the pool then has.              *)
AllocateOK(fa, n, held, areas, m, r) ==
  \/ /\ r.place = NoBlock
     /\ PoolOK(r.fa, n, held)
     /\ AreasOf(r.fa.chunks) = AreasOf(fa.chunks)
     /\ r.heap = areas
  \/ /\ r.place # NoBlock
     /\ r.place = <<r.place[1], r.place[2]>>
     /\ r.place[1] \in AreasOf(r.fa.chunks)
     /\ r.place[2] \in Block(n)
     /\ r.place \notin held
     /\ PoolOK(r.fa, n, held \cup {r.place})
     /\ \/ AreasOf(r.fa.chunks) = AreasOf(fa.chunks) /\ r.heap = areas
        \/ /\ m \in Addr
           /\ AreasOf(r.fa.chunks) = AreasOf(fa.chunks) \cup {m}
           /\ r.heap = areas \cup {m}

(* What AttachChunk establishes before a block is taken. *)
AttachOK(fa, n, held, m, at) ==
  /\ at.fa \in FixedAllocatorType(n)
  /\ ChunksOK(at.fa.chunks, n, held)
  /\ \/ /\ ~at.ok /\ at.fa.chunks = fa.chunks /\ at.fa.emptyChunk = fa.emptyChunk
     \/ /\ at.ok
        /\ at.fa.allocChunk \in 1 .. Len(at.fa.chunks)
        /\ ~IsFilled(at.fa.chunks[at.fa.allocChunk])
        /\ at.fa.emptyChunk = NULL \/ at.fa.emptyChunk \in 1 .. Len(at.fa.chunks)
        /\ at.fa.emptyChunk # at.fa.allocChunk
        /\ \A k \in 1 .. Len(at.fa.chunks) :
             k # at.fa.allocChunk =>
               (HasAvailable(at.fa.chunks[k], n) <=> k = at.fa.emptyChunk)
        /\ \/ at.fa.chunks = fa.chunks /\ at.taken = {}
           \/ /\ m \in Addr /\ at.taken = {m}
              /\ AreasOf(at.fa.chunks) = AreasOf(fa.chunks) \cup {m}

(* Reallocation leaves the chunks alone; it makes emptyChunk_ stale only if *)
(* there is an empty chunk.                                                 *)
LEMMA ReallocateOK ==
  ASSUME NEW n \in 1 .. UCHAR_MAX, NEW fa \in FixedAllocatorType(n), NEW k \in Nat
  PROVE  /\ Reallocate(fa, k) \in FixedAllocatorType(n)
         /\ Reallocate(fa, k).chunks = fa.chunks
         /\ fa.emptyChunk = NULL => Reallocate(fa, k).emptyChunk = NULL
         /\ Reallocate(fa, k).numBlocks = n
BY DEF Reallocate, FixedAllocatorType, Stale, NULL, Freed, Pointer

(* FixedAllocator::MakeNewChunk, called when no chunk is empty. *)
LEMMA MakeNewChunkOK ==
  ASSUME NEW n \in 1 .. UCHAR_MAX, NEW held, NEW fa, PoolOK(fa, n, held),
         fa.emptyChunk = NULL, NEW m,
         m \in Addr => m \notin AreasOf(fa.chunks) /\ \A b \in Block(n) : <<m, b>> \notin held,
         ReserveThrows \notin Addr
  PROVE  AttachOK(fa, n, held, m, MakeNewChunk(fa, m))
<1> DEFINE full == fa.capacity = Back(fa)
           k == 2 * (IF Back(fa) = 0 THEN MinReserve ELSE Back(fa))
           reserved == IF full THEN Reallocate(fa, k) ELSE fa
           at == MakeNewChunk(fa, m)
<1>1. fa \in FixedAllocatorType(n) /\ ChunksOK(fa.chunks, n, held)
  BY DEF PoolOK
<1>2. Len(fa.chunks) \in Nat /\ k \in Nat
  <2>1. Len(fa.chunks) \in Nat
    BY <1>1, LenProperties DEF ChunksOK
  <2>2. QED
    BY <2>1, MinReserveAssumption DEF Back
<1>3. /\ reserved \in FixedAllocatorType(n)
      /\ reserved.chunks = fa.chunks
      /\ reserved.emptyChunk = NULL
      /\ fa.numBlocks = n
  <2>1. fa.numBlocks = n
    BY <1>1 DEF FixedAllocatorType
  <2> HIDE DEF k
  <2>2. CASE full
    <3>1. fa \in FixedAllocatorType(n) /\ k \in Nat
      BY <1>1, <1>2
    <3>2. /\ Reallocate(fa, k) \in FixedAllocatorType(n)
          /\ Reallocate(fa, k).chunks = fa.chunks
          /\ Reallocate(fa, k).emptyChunk = NULL
      BY <3>1, ReallocateOK
    <3>3. reserved = Reallocate(fa, k)
      BY <2>2
    <3> HIDE DEF reserved
    <3>4. QED
      BY <2>1, <3>2, <3>3
  <2>3. CASE ~full
    BY <1>1, <2>1, <2>3
  <2>4. QED
    BY <2>2, <2>3
<1> HIDE DEF k
<1>4. CASE full /\ m = ReserveThrows
  <2>1. at = [ok |-> FALSE, taken |-> {}, fa |-> fa]
    BY <1>4 DEF MakeNewChunk
  <2>2. QED
    BY <1>1, <2>1 DEF AttachOK
<1>5. CASE ~(full /\ m = ReserveThrows) /\ m \notin Addr
  <2>1. at = [ok |-> FALSE, taken |-> {}, fa |-> reserved]
    BY <1>5 DEF MakeNewChunk, k
  <2>2. QED
    BY <1>1, <1>3, <2>1 DEF AttachOK
<1>6. CASE m \in Addr
  <2> DEFINE ds == Append(fa.chunks, NewChunk(m, n))
             new == [reserved EXCEPT !.chunks = ds, !.allocChunk = Back(fa) + 1, !.deallocChunk = 1]
  <2>1. at = [ok |-> TRUE, taken |-> {m}, fa |->
                [reserved EXCEPT !.chunks = Append(@, NewChunk(m, fa.numBlocks)),
                                 !.allocChunk = Back(fa) + 1, !.deallocChunk = 1]]
    BY <1>6 DEF MakeNewChunk, k
  <2> HIDE DEF reserved
  <2>2. at = [ok |-> TRUE, taken |-> {m}, fa |-> new]
    BY <1>3, <2>1
  <2>3. /\ ChunksOK(ds, n, held)
        /\ Len(ds) = Len(fa.chunks) + 1
        /\ \A j \in 1 .. Len(fa.chunks) : ds[j] = fa.chunks[j]
        /\ ~IsFilled(ds[Len(fa.chunks) + 1])
        /\ AreasOf(ds) = AreasOf(fa.chunks) \cup {m}
    BY <1>1, <1>6, AppendNewChunk
  <2> HIDE DEF ds
  <2>4. /\ new \in FixedAllocatorType(n)
        /\ new.chunks = ds
        /\ new.allocChunk = Len(fa.chunks) + 1
        /\ new.emptyChunk = NULL
    <3>1. ds \in Seq(ChunkType(Addr, n))
      BY <2>3 DEF ChunksOK
    <3>2. Back(fa) + 1 \in Pointer /\ 1 \in Pointer
      BY <1>2 DEF Back, Pointer
    <3>3. QED
      BY <1>3, <3>1, <3>2 DEF FixedAllocatorType, Back
  <2> HIDE DEF new
  <2>5. \A j \in 1 .. Len(ds) :
          j # Len(fa.chunks) + 1 => ~HasAvailable(ds[j], n) /\ j # NULL
    <3>1. \A j \in 1 .. Len(fa.chunks) : ~HasAvailable(fa.chunks[j], n)
      BY DEF PoolOK, EmptyOK, NULL
    <3>2. QED
      BY <1>2, <2>3, <3>1 DEF NULL
  <2>6. /\ at.fa = new /\ at.ok /\ at.taken = {m}
        /\ new.allocChunk \in 1 .. Len(new.chunks)
        /\ new.emptyChunk # new.allocChunk
    BY <1>2, <2>2, <2>3, <2>4 DEF NULL
  <2>7. /\ ~IsFilled(new.chunks[new.allocChunk])
        /\ AreasOf(new.chunks) = AreasOf(fa.chunks) \cup {m}
        /\ ChunksOK(new.chunks, n, held)
        /\ \A j \in 1 .. Len(new.chunks) :
             j # new.allocChunk => (HasAvailable(new.chunks[j], n) <=> j = new.emptyChunk)
    BY <2>3, <2>4, <2>5
  <2> HIDE DEF at
  <2>8. /\ at.fa \in FixedAllocatorType(n)
        /\ at.ok
        /\ ChunksOK(at.fa.chunks, n, held)
        /\ at.fa.allocChunk \in 1 .. Len(at.fa.chunks)
        /\ ~IsFilled(at.fa.chunks[at.fa.allocChunk])
        /\ at.fa.emptyChunk = NULL
        /\ at.fa.emptyChunk # at.fa.allocChunk
        /\ at.taken = {m}
        /\ AreasOf(at.fa.chunks) = AreasOf(fa.chunks) \cup {m}
    BY <2>4, <2>6, <2>7
  <2>9. \A j \in 1 .. Len(at.fa.chunks) :
          j # at.fa.allocChunk => (HasAvailable(at.fa.chunks[j], n) <=> j = at.fa.emptyChunk)
    BY <2>6, <2>7
  <2>10. QED
    BY <1>6, <2>8, <2>9 DEF AttachOK, at
<1>7. QED
  BY <1>4, <1>5, <1>6
(* The first part of FixedAllocator::Allocate. *)
LEMMA AttachChunkOK ==
  ASSUME NEW n \in 1 .. UCHAR_MAX, NEW held, NEW fa, PoolOK(fa, n, held),
         AllocateDefined(fa), NEW m,
         m \in Addr => m \notin AreasOf(fa.chunks) /\ \A b \in Block(n) : <<m, b>> \notin held,
         ReserveThrows \notin Addr
  PROVE  AttachOK(fa, n, held, m, AttachChunk(fa, m))
<1> DEFINE at == AttachChunk(fa, m)
           cs == fa.chunks
           e == fa.emptyChunk
<1>1. /\ fa \in FixedAllocatorType(n) /\ ChunksOK(cs, n, held) /\ EmptyOK(cs, n, e)
      /\ e = NULL \/ e \in 1 .. Len(cs)
      /\ \A k \in 1 .. Len(cs) : HasAvailable(cs[k], n) <=> k = e
      /\ Len(cs) \in Nat
  <2>1. ChunksOK(cs, n, held)
    BY DEF PoolOK
  <2>2. Len(cs) \in Nat
    BY <2>1, LenProperties DEF ChunksOK
  <2>3. QED
    BY <2>2 DEF PoolOK, EmptyOK
<1>2. CASE ~MustChangeChunk(fa)
  <2> DEFINE new == [fa EXCEPT !.emptyChunk = IF e = fa.allocChunk THEN NULL ELSE e]
  <2>1. at = [ok |-> TRUE, taken |-> {}, fa |-> new]
    BY <1>2 DEF AttachChunk
  <2>2. fa.allocChunk \in 1 .. Len(cs) /\ ~IsFilled(cs[fa.allocChunk])
    BY <1>2 DEF MustChangeChunk, AllocateDefined, Within, Back
  <2>3. /\ new \in FixedAllocatorType(n) /\ new.chunks = cs
        /\ new.allocChunk = fa.allocChunk
        /\ new.emptyChunk = IF e = fa.allocChunk THEN NULL ELSE e
    BY <1>1 DEF FixedAllocatorType, Pointer, NULL
  <2> HIDE DEF new, at
  <2>4. new.emptyChunk = NULL \/ new.emptyChunk \in 1 .. Len(cs)
    BY <1>1, <2>3
  <2>5. new.emptyChunk # new.allocChunk
    BY <2>2, <2>3 DEF NULL
  <2>6. \A k \in 1 .. Len(cs) :
          k # new.allocChunk => (HasAvailable(cs[k], n) <=> k = new.emptyChunk)
    BY <1>1, <2>3 DEF NULL
  <2>7. at.fa = new /\ at.ok /\ at.taken = {}
    BY <2>1
  <2>8. AttachOK(fa, n, held, m, at)
    BY <1>1, <2>2, <2>3, <2>4, <2>5, <2>6, <2>7 DEF AttachOK
  <2>9. QED
    BY <2>8 DEF at
<1>3. CASE MustChangeChunk(fa) /\ e # NULL
  <2> DEFINE new == [fa EXCEPT !.allocChunk = e, !.emptyChunk = NULL]
  <2>1. at = [ok |-> TRUE, taken |-> {}, fa |-> new]
    BY <1>3 DEF AttachChunk
  <2>2. e \in 1 .. Len(cs) /\ HasAvailable(cs[e], n)
    BY <1>1, <1>3
  <2>3. ~IsFilled(cs[e])
    BY <2>2 DEF HasAvailable, IsFilled
  <2>4. /\ new \in FixedAllocatorType(n) /\ new.chunks = cs
        /\ new.allocChunk = e /\ new.emptyChunk = NULL
    BY <1>1 DEF FixedAllocatorType, Pointer, NULL
  <2> HIDE DEF new, at
  <2>5. \A k \in 1 .. Len(cs) :
          k # new.allocChunk => (HasAvailable(cs[k], n) <=> k = new.emptyChunk)
    BY <1>1, <2>4 DEF NULL
  <2>6. at.fa = new /\ at.ok /\ at.taken = {} /\ new.emptyChunk # new.allocChunk
    BY <1>3, <2>1, <2>4
  <2>7. AttachOK(fa, n, held, m, at)
    BY <1>1, <2>2, <2>3, <2>4, <2>5, <2>6 DEF AttachOK
  <2>8. QED
    BY <2>7 DEF at
<1>4. CASE MustChangeChunk(fa) /\ e = NULL /\ PartlyFree(fa) # {}
  <2> DEFINE i == CHOOSE x \in PartlyFree(fa) : \A j \in PartlyFree(fa) : x <= j
             new == [fa EXCEPT !.allocChunk = i]
  <2>1. at = [ok |-> TRUE, taken |-> {}, fa |-> new]
    BY <1>4 DEF AttachChunk
  <2>2. i \in PartlyFree(fa)
    <3>1. PartlyFree(fa) \in SUBSET Nat
      BY <1>1 DEF PartlyFree, Back
    <3>2. \E x \in PartlyFree(fa) : \A j \in PartlyFree(fa) : x <= j
      BY <1>4, <3>1, NatLeast
    <3>3. QED
      BY <3>2
  <2> HIDE DEF i
  <2>3. i \in 1 .. Len(cs) /\ ~IsFilled(cs[i])
    BY <2>2 DEF PartlyFree, Back
  <2>4. /\ new \in FixedAllocatorType(n) /\ new.chunks = cs
        /\ new.allocChunk = i /\ new.emptyChunk = NULL
    BY <1>1, <1>4, <2>3 DEF FixedAllocatorType, Pointer, NULL
  <2> HIDE DEF new, at
  <2>5. at.fa = new /\ at.ok /\ at.taken = {} /\ new.emptyChunk # new.allocChunk
    BY <2>1, <2>3, <2>4 DEF NULL
  <2>6. \A k \in 1 .. Len(cs) : HasAvailable(cs[k], n) <=> k = new.emptyChunk
    BY <1>1, <1>4, <2>4
  <2>7. AttachOK(fa, n, held, m, at)
    BY <1>1, <2>3, <2>4, <2>5, <2>6 DEF AttachOK
  <2>8. QED
    BY <2>7 DEF at
<1>5. CASE MustChangeChunk(fa) /\ e = NULL /\ PartlyFree(fa) = {}
  <2>1. at = MakeNewChunk(fa, m)
    BY <1>5 DEF AttachChunk
  <2>2. AttachOK(fa, n, held, m, MakeNewChunk(fa, m))
    BY <1>5, MakeNewChunkOK
  <2>3. QED
    BY <2>1, <2>2
<1>6. QED
  BY <1>2, <1>3, <1>4, <1>5
(* FixedAllocator::Allocate. *)
LEMMA FixedAllocateOK ==
  ASSUME NEW n \in 1 .. UCHAR_MAX, NEW held, NEW fa, PoolOK(fa, n, held),
         AllocateDefined(fa), NEW areas, NEW m,
         m \in Addr => m \notin AreasOf(fa.chunks) /\ \A b \in Block(n) : <<m, b>> \notin held,
         ReserveThrows \notin Addr
  PROVE  AllocateOK(fa, n, held, areas, m, FixedAllocate(fa, areas, m))
<1> DEFINE at == AttachChunk(fa, m)
           a == at.fa.allocChunk
           cs == at.fa.chunks
           r == FixedAllocate(fa, areas, m)
<1>1. AttachOK(fa, n, held, m, at)
  BY AttachChunkOK
<1>2. at.fa \in FixedAllocatorType(n) /\ ChunksOK(cs, n, held)
  BY <1>1 DEF AttachOK
<1>3. CASE ~at.ok
  <2>1. r = [place |-> NoBlock, heap |-> areas, fa |-> at.fa]
    BY <1>3 DEF FixedAllocate
  <2> HIDE DEF at
  <2>2. cs = fa.chunks /\ at.fa.emptyChunk = fa.emptyChunk
    BY <1>1, <1>3 DEF AttachOK
  <2>3. PoolOK(at.fa, n, held)
    BY <1>2, <2>2 DEF PoolOK
  <2>4. r.place = NoBlock /\ r.heap = areas /\ r.fa = at.fa
    BY <2>1
  <2> HIDE DEF r
  <2>5. AllocateOK(fa, n, held, areas, m, r)
    BY <2>2, <2>3, <2>4 DEF AllocateOK
  <2>6. QED
    BY <2>5 DEF r
<1>4. CASE at.ok
  <2> DEFINE p == Place(cs[a])
             ds == [cs EXCEPT ![a] = AllocateBlock(@)]
             new == [at.fa EXCEPT !.chunks = ds]
  <2>1. r = [place |-> p, heap |-> areas \cup at.taken, fa |-> new]
    BY <1>4 DEF FixedAllocate
  <2> HIDE DEF at, cs, a
  <2>2. /\ a \in 1 .. Len(cs) /\ ~IsFilled(cs[a])
        /\ at.fa.emptyChunk = NULL \/ at.fa.emptyChunk \in 1 .. Len(cs)
        /\ at.fa.emptyChunk # a
        /\ \A k \in 1 .. Len(cs) :
             k # a => (HasAvailable(cs[k], n) <=> k = at.fa.emptyChunk)
        /\ \/ cs = fa.chunks /\ at.taken = {}
           \/ m \in Addr /\ at.taken = {m} /\ AreasOf(cs) = AreasOf(fa.chunks) \cup {m}
    BY <1>1, <1>4 DEF AttachOK, cs, a
  <2>3. /\ p = <<p[1], p[2]>> /\ p[1] = cs[a].pData /\ p[2] \in Block(n)
        /\ p \notin held
        /\ ChunksOK(ds, n, held \cup {p})
        /\ Len(ds) = Len(cs)
        /\ \A j \in 1 .. Len(cs) : ds[j] = IF j = a THEN AllocateBlock(cs[a]) ELSE cs[j]
        /\ ~HasAvailable(ds[a], n)
        /\ AreasOf(ds) = AreasOf(cs)
    BY <1>2, <2>2, AllocateFromChunk
  <2> HIDE DEF p, ds
  <2>4. /\ new \in FixedAllocatorType(n) /\ new.chunks = ds
        /\ new.emptyChunk = at.fa.emptyChunk
    <3>1. ds \in Seq(ChunkType(Addr, n))
      BY <2>3 DEF ChunksOK
    <3>2. QED
      BY <1>2, <3>1 DEF FixedAllocatorType, cs
  <2> HIDE DEF new
  <2>5. EmptyOK(ds, n, at.fa.emptyChunk)
    BY <2>2, <2>3 DEF EmptyOK
  <2>6. PoolOK(new, n, held \cup {p})
    BY <2>3, <2>4, <2>5 DEF PoolOK
  <2>7. p[1] \in AreasOf(ds)
    BY <2>2, <2>3 DEF AreasOf
  <2>8. r.place = p /\ r.fa = new /\ r.heap = areas \cup at.taken
    BY <2>1
  <2> HIDE DEF r
  <2>9. p # NoBlock
    BY DEF NoBlock, p, Place
  <2>10. \/ AreasOf(ds) = AreasOf(fa.chunks) /\ r.heap = areas
         \/ m \in Addr /\ AreasOf(ds) = AreasOf(fa.chunks) \cup {m} /\ r.heap = areas \cup {m}
    BY <2>2, <2>3, <2>8
  <2>11. AllocateOK(fa, n, held, areas, m, r)
    BY <2>3, <2>4, <2>6, <2>7, <2>8, <2>9, <2>10 DEF AllocateOK
  <2>12. QED
    BY <2>11 DEF r
<1>5. QED
  BY <1>3, <1>4

(* What an operation that may release a chunk leaves: held is what remains  *)
(* held, and the areas released are those areas loses.                       *)
ReleaseOK(fa, n, held, areas, r) ==
  /\ PoolOK(r.fa, n, held)
  /\ \/ AreasOf(r.fa.chunks) = AreasOf(fa.chunks) /\ r.heap = areas
     \/ \E a \in AreasOf(fa.chunks) :
          /\ AreasOf(r.fa.chunks) = AreasOf(fa.chunks) \ {a}
          /\ r.heap = areas \ {a}
          /\ \A b \in Block(n) : <<a, b>> \notin held

(* No block of an empty chunk is held. *)
LEMMA EmptyChunkUnheld ==
  ASSUME NEW n \in 1 .. UCHAR_MAX, NEW held, NEW cs, ChunksOK(cs, n, held),
         NEW k \in 1 .. Len(cs), HasAvailable(cs[k], n)
  PROVE  \A b \in Block(n) : <<cs[k].pData, b>> \notin held
<1>1. FreeListIs(cs[k], n, Unheld(cs[k], n, held)) /\ cs[k].blocksAvailable = n
  BY DEF ChunksOK, HasAvailable
<1>2. Unheld(cs[k], n, held) = Block(n)
  BY <1>1, AllAvailable
<1>3. QED
  BY <1>2 DEF Unheld

(* FixedAllocator::TrimEmptyChunk. *)
LEMMA TrimEmptyChunkOK ==
  ASSUME NEW n \in 1 .. UCHAR_MAX, NEW held, NEW fa, PoolOK(fa, n, held), NEW areas
  PROVE  /\ ReleaseOK(fa, n, held, areas, TrimEmptyChunk(fa, areas))
         /\ TrimEmptyChunk(fa, areas).fa.emptyChunk = NULL
<1> DEFINE cs == fa.chunks
           e == fa.emptyChunk
           r == TrimEmptyChunk(fa, areas)
<1>1. /\ fa \in FixedAllocatorType(n) /\ ChunksOK(cs, n, held)
      /\ e = NULL \/ e \in 1 .. Len(cs)
      /\ \A k \in 1 .. Len(cs) : HasAvailable(cs[k], n) <=> k = e
  BY DEF PoolOK, EmptyOK
<1>2. CASE e = NULL
  <2>1. r = [fa |-> fa, heap |-> areas]
    BY <1>2 DEF TrimEmptyChunk
  <2>2. r.fa = fa /\ r.heap = areas
    BY <2>1
  <2> HIDE DEF r
  <2>3. ReleaseOK(fa, n, held, areas, r)
    BY <2>2 DEF ReleaseOK
  <2>4. QED
    BY <1>2, <2>2, <2>3 DEF r
<1>3. CASE e # NULL
  <2> DEFINE last == Len(cs)
             swapped == Swapped(cs, e)
             ds == Removed(cs, e)
             popped == [fa EXCEPT !.chunks = ds]
             Repoint(q, other) == IF ds = <<>> THEN NULL ELSE IF q = e THEN other ELSE q
             new == [fa EXCEPT !.chunks = ds,
                               !.deallocChunk = Repoint(@, 1),
                               !.allocChunk = Repoint(@, Len(ds)),
                               !.emptyChunk = NULL]
  <2>0. fa.chunks = cs /\ e \in 1 .. last
    BY <1>1, <1>3
  <2> HIDE DEF cs, e
  <2>1. /\ last \in Nat \ {0}
        /\ swapped[last].pData = cs[e].pData
        /\ ChunksOK(ds, n, held)
        /\ Len(ds) = last - 1
        /\ \A j \in 1 .. last - 1 : ds[j] = IF j = e THEN cs[last] ELSE cs[j]
        /\ AreasOf(ds) = AreasOf(cs) \ {cs[e].pData}
    <3>1. ChunksOK(cs, n, held) /\ e \in 1 .. Len(cs)
      BY <1>1, <2>0
    <3>2. RemoveOK(cs, n, held, e)
      BY <3>1, RemoveChunk
    <3>3. QED
      BY <3>2 DEF RemoveOK
  <2>2. SwapChunks(fa, e, last) = [fa EXCEPT !.chunks = swapped]
    BY <2>0 DEF SwapChunks, Swapped
  <2>3. PopBack(SwapChunks(fa, e, last)) = popped
    BY <1>1, <2>2 DEF PopBack, FixedAllocatorType, Removed
  <2>4. SwapChunks(fa, e, last).chunks[last].pData = cs[e].pData
    BY <1>1, <2>1, <2>2 DEF FixedAllocatorType
  <2> HIDE DEF ds
  <2>5. popped.chunks = ds /\ popped.allocChunk = fa.allocChunk
        /\ popped.deallocChunk = fa.deallocChunk
    BY <1>1 DEF FixedAllocatorType
  <2>6. r.heap = areas \ {cs[e].pData} /\ r.fa = new
    BY <1>1, <1>3, <2>0, <2>3, <2>4, <2>5 DEF TrimEmptyChunk, Back, FixedAllocatorType, e
  <2>7. ds \in Seq(ChunkType(Addr, n)) /\ Len(ds) \in Pointer /\ 1 \in Pointer
    BY <2>1 DEF ChunksOK, Pointer
  <2>8. new \in FixedAllocatorType(n) /\ new.chunks = ds /\ new.emptyChunk = NULL
    BY <1>1, <2>7 DEF FixedAllocatorType, Pointer, NULL
  <2> HIDE DEF new, r
  <2>9. \A j \in 1 .. Len(ds) : ~HasAvailable(ds[j], n)
    BY <1>1, <2>0, <2>1
  <2>10. EmptyOK(ds, n, NULL)
    BY <2>9 DEF EmptyOK, NULL
  <2>11. PoolOK(new, n, held)
    BY <2>1, <2>8, <2>10 DEF PoolOK
  <2>12. \A b \in Block(n) : <<cs[e].pData, b>> \notin held
    BY <1>1, <2>0, EmptyChunkUnheld
  <2>13. cs[e].pData \in AreasOf(cs)
    BY <2>0 DEF AreasOf
  <2>14. AreasOf(r.fa.chunks) = AreasOf(fa.chunks) \ {cs[e].pData}
         /\ cs[e].pData \in AreasOf(fa.chunks) /\ PoolOK(r.fa, n, held)
    BY <2>0, <2>1, <2>6, <2>8, <2>11, <2>13
  <2>15. ReleaseOK(fa, n, held, areas, r)
    BY <2>6, <2>12, <2>14 DEF ReleaseOK
  <2>16. QED
    BY <2>6, <2>8, <2>15 DEF r
<1>4. QED
  BY <1>2, <1>3

(* FixedAllocator::TrimChunkList, which TrimExcessMemory calls once every   *)
(* empty chunk is gone.                                                     *)
LEMMA TrimChunkListOK ==
  ASSUME NEW n \in 1 .. UCHAR_MAX, NEW held, NEW fa, PoolOK(fa, n, held),
         fa.emptyChunk = NULL
  PROVE  PoolOK(TrimChunkList(fa), n, held) /\ TrimChunkList(fa).chunks = fa.chunks
<1>1. fa \in FixedAllocatorType(n) /\ Back(fa) \in Nat
  BY LenProperties DEF PoolOK, ChunksOK, Back
<1>2. /\ TrimChunkList(fa) \in FixedAllocatorType(n)
      /\ TrimChunkList(fa).chunks = fa.chunks
      /\ TrimChunkList(fa).emptyChunk = NULL
  BY <1>1, ReallocateOK DEF TrimChunkList
<1>3. QED
  BY <1>2 DEF PoolOK
(* Without a swap, the chunk dropped is the last one. *)
LEMMA SwapLast ==
  ASSUME NEW T, NEW cs \in Seq(T), Len(cs) # 0
  PROVE  Swapped(cs, Len(cs)) = cs
<1>1. cs = [j \in 1 .. Len(cs) |-> cs[j]] /\ Len(cs) \in 1 .. Len(cs)
  BY LenProperties
<1>2. QED
  BY <1>1 DEF Swapped

(* The chunk of a pair of empty ones that DoDeallocate releases, when chunk *)
(* i has become empty and e already was.                                    *)
SecondEmpty(cs, i, e) == IF i = Len(cs) THEN i ELSE e
KeptEmpty(cs, i, e) == IF i = Len(cs) THEN e ELSE i

LEMMA ReleaseSecondEmptyOK ==
  ASSUME NEW n \in 1 .. UCHAR_MAX, NEW held, NEW fa \in FixedAllocatorType(n),
         ChunksOK(fa.chunks, n, held), NEW areas,
         fa.deallocChunk \in 1 .. Len(fa.chunks), fa.emptyChunk \in 1 .. Len(fa.chunks),
         fa.deallocChunk # fa.emptyChunk,
         \A k \in 1 .. Len(fa.chunks) :
           HasAvailable(fa.chunks[k], n) <=> k = fa.deallocChunk \/ k = fa.emptyChunk
  PROVE  ReleaseOK(fa, n, held, areas, ReleaseSecondEmpty(fa, areas))
<1> DEFINE cs == fa.chunks
           i == fa.deallocChunk
           e == fa.emptyChunk
           last == Len(cs)
           x == SecondEmpty(cs, i, e)
           kept == KeptEmpty(cs, i, e)
           ds == Removed(cs, x)
           r == ReleaseSecondEmpty(fa, areas)
           swapped == IF i = last THEN fa ELSE SwapChunks(fa, e, last)
           popped == PopBack(swapped)
<1>1. /\ ChunksOK(cs, n, held) /\ cs \in Seq(ChunkType(Addr, n))
      /\ i \in 1 .. last /\ e \in 1 .. last /\ i # e /\ last \in Nat
      /\ \A k \in 1 .. last : HasAvailable(cs[k], n) <=> k = i \/ k = e
      /\ x \in 1 .. last
  BY LenProperties DEF ChunksOK, SecondEmpty
<1>2. swapped.chunks = Swapped(cs, x) /\ swapped = [fa EXCEPT !.chunks = Swapped(cs, x)]
  <2>1. CASE i = last
    <3>1. Swapped(cs, x) = cs
      BY <1>1, <2>1, SwapLast DEF SecondEmpty
    <3>2. QED
      BY <2>1, <3>1 DEF FixedAllocatorType
  <2>2. CASE i # last
    BY <2>2 DEF SecondEmpty, SwapChunks, Swapped, FixedAllocatorType
  <2>3. QED
    BY <2>1, <2>2
<1> HIDE DEF swapped
<1>3. popped = [fa EXCEPT !.chunks = ds]
  BY <1>2 DEF PopBack, Removed, FixedAllocatorType
<1>4. popped.chunks = ds /\ popped.allocChunk = fa.allocChunk
  BY <1>3 DEF FixedAllocatorType
<1> DEFINE alloc == IF popped.allocChunk = last \/ IsFilled(popped.chunks[popped.allocChunk])
                    THEN kept ELSE popped.allocChunk
           new == [popped EXCEPT !.deallocChunk = kept, !.emptyChunk = kept,
                                 !.allocChunk = alloc]
<1>5. r = [heap |-> areas \ {swapped.chunks[last].pData}, fa |-> new]
  BY DEF ReleaseSecondEmpty, KeptEmpty, Back, swapped
<1> HIDE DEF popped, cs, e, i, ds, x
<1>6. /\ last \in Nat \ {0}
      /\ Swapped(cs, x)[last].pData = cs[x].pData
      /\ ChunksOK(ds, n, held)
      /\ Len(ds) = last - 1
      /\ \A j \in 1 .. last - 1 : ds[j] = IF j = x THEN cs[last] ELSE cs[j]
      /\ AreasOf(ds) = AreasOf(cs) \ {cs[x].pData}
  <2>1. RemoveOK(cs, n, held, x)
    BY <1>1, RemoveChunk
  <2>2. QED
    BY <2>1 DEF RemoveOK, ds
<1>7. x = IF i = last THEN i ELSE e
  BY DEF x, SecondEmpty
<1>8. kept = IF i = last THEN e ELSE i
  BY DEF KeptEmpty
<1> HIDE DEF kept
<1>9. kept \in 1 .. Len(ds)
  BY <1>1, <1>6, <1>8
<1>10. ASSUME NEW j \in 1 .. Len(ds) PROVE HasAvailable(ds[j], n) <=> j = kept
  <2>1. j \in 1 .. last - 1 /\ j # last /\ j \in 1 .. last
    BY <1>6
  <2>2. ds[j] = IF j = x THEN cs[last] ELSE cs[j]
    BY <1>6, <2>1
  <2> QED
    BY <1>1, <1>7, <1>8, <2>1, <2>2
<1>11. fa.allocChunk \in Pointer /\ kept \in Pointer
  <2>1. kept \in Nat
    BY <1>6, <1>9
  <2>2. QED
    BY <2>1 DEF FixedAllocatorType, Pointer
<1>12. ds \in Seq(ChunkType(Addr, n)) /\ alloc \in Pointer
  BY <1>4, <1>6, <1>11 DEF ChunksOK
<1> HIDE DEF alloc
<1>13. popped \in FixedAllocatorType(n)
  BY <1>3, <1>12 DEF FixedAllocatorType
<1>14. new \in FixedAllocatorType(n) /\ new.chunks = ds /\ new.emptyChunk = kept
  BY <1>4, <1>11, <1>12, <1>13 DEF FixedAllocatorType
<1> HIDE DEF new
<1>15. PoolOK(new, n, held)
  BY <1>6, <1>9, <1>10, <1>14 DEF PoolOK, EmptyOK
<1>16. \A b \in Block(n) : <<cs[x].pData, b>> \notin held
  <2>1. HasAvailable(cs[x], n)
    BY <1>1, <1>7
  <2>2. QED
    BY <1>1, <2>1, EmptyChunkUnheld
<1>17. cs[x].pData \in AreasOf(cs)
  BY <1>1 DEF AreasOf
<1>18. r.fa = new /\ r.heap = areas \ {cs[x].pData}
  BY <1>2, <1>5, <1>6
<1> HIDE DEF r
<1>19. AreasOf(r.fa.chunks) = AreasOf(fa.chunks) \ {cs[x].pData}
       /\ cs[x].pData \in AreasOf(fa.chunks) /\ PoolOK(r.fa, n, held)
  BY <1>6, <1>14, <1>15, <1>17, <1>18 DEF cs
<1>20. ReleaseOK(fa, n, held, areas, r)
  BY <1>16, <1>18, <1>19 DEF ReleaseOK
<1>21. QED
  BY <1>20 DEF r

(* FixedAllocator::Deallocate of a held block, found in the chunk it is in. *)
LEMMA FixedDeallocateOK ==
  ASSUME NEW n \in 1 .. UCHAR_MAX, NEW held, NEW fa, PoolOK(fa, n, held), NEW areas,
         NEW cs, cs = fa.chunks, NEW i \in 1 .. Len(cs), NEW b \in Block(n),
         <<cs[i].pData, b>> \in held
  PROVE  ReleaseOK(fa, n, held \ {<<cs[i].pData, b>>}, areas,
                   FixedDeallocate(fa, areas, i, <<cs[i].pData, b>>))
<1> DEFINE e == fa.emptyChunk
           p == <<cs[i].pData, b>>
           held2 == held \ {p}
           ds == DeallocatedIn(cs, i, b)
           returned == [fa EXCEPT !.deallocChunk = i, !.chunks = ds]
           r == FixedDeallocate(fa, areas, i, p)
<1>1. /\ fa \in FixedAllocatorType(n) /\ ChunksOK(cs, n, held)
      /\ e = NULL \/ e \in 1 .. Len(cs)
      /\ \A k \in 1 .. Len(cs) : HasAvailable(cs[k], n) <=> k = e
      /\ fa.numBlocks = n /\ i \in Nat
  <2>1. fa \in FixedAllocatorType(n) /\ ChunksOK(cs, n, held)
    BY DEF PoolOK
  <2>2. fa.numBlocks = n /\ i \in Nat
    BY <2>1, LenProperties DEF FixedAllocatorType, ChunksOK
  <2>3. QED
    BY <2>1, <2>2 DEF PoolOK, EmptyOK
<1>2. BlockReturned(fa, i, p[2]) = returned
  BY DEF BlockReturned, DeallocatedIn
<1>3. r = CASE ~BecomesEmpty(fa, i) -> [fa |-> returned, heap |-> areas]
            [] BecomesEmpty(fa, i) /\ e = NULL ->
                 [fa |-> [returned EXCEPT !.emptyChunk = i], heap |-> areas]
            [] BecomesEmpty(fa, i) /\ e # NULL -> ReleaseSecondEmpty(returned, areas)
  BY <1>2 DEF FixedDeallocate
<1> HIDE DEF r
<1>4. /\ ChunksOK(ds, n, held2)
      /\ Len(ds) = Len(cs)
      /\ \A j \in 1 .. Len(cs) : ds[j] = IF j = i THEN DeallocateBlock(cs[i], b) ELSE cs[j]
      /\ ~HasAvailable(cs[i], n)
      /\ ds[i].blocksAvailable = cs[i].blocksAvailable + 1
      /\ AreasOf(ds) = AreasOf(cs)
  <2>1. DeallocateInOK(n, held, cs, i, b)
    BY <1>1, DeallocateInChunk
  <2>2. QED
    BY <2>1 DEF DeallocateInOK
<1>5. i \in 1 .. Len(cs) /\ i # e /\ i # NULL
  BY <1>1, <1>4 DEF NULL
<1>6. HasAvailable(ds[i], n) <=> BecomesEmpty(fa, i)
  BY <1>1, <1>4 DEF BecomesEmpty, HasAvailable
<1>7. \A k \in 1 .. Len(ds) : k # i => (HasAvailable(ds[k], n) <=> k = e)
  BY <1>1, <1>4
<1> HIDE DEF ds
<1>8. /\ returned \in FixedAllocatorType(n) /\ returned.chunks = ds
      /\ returned.emptyChunk = e /\ returned.deallocChunk = i
  <2>1. ds \in Seq(ChunkType(Addr, n))
    BY <1>4 DEF ChunksOK
  <2>2. QED
    BY <1>1, <2>1 DEF FixedAllocatorType, Pointer
<1> HIDE DEF returned, held2
<1>9. CASE ~BecomesEmpty(fa, i)
  <2>1. r.fa = returned /\ r.heap = areas
    BY <1>3, <1>9
  <2>2. PoolOK(returned, n, held2)
    BY <1>1, <1>4, <1>6, <1>7, <1>8, <1>9, <1>5 DEF PoolOK, EmptyOK
  <2>3. ReleaseOK(fa, n, held2, areas, r)
    BY <1>4, <1>8, <2>1, <2>2 DEF ReleaseOK
  <2>4. QED
    BY <2>3 DEF r, held2
<1>10. CASE BecomesEmpty(fa, i) /\ e = NULL
  <2> DEFINE new == [returned EXCEPT !.emptyChunk = i]
  <2>1. r.fa = new /\ r.heap = areas
    BY <1>3, <1>10
  <2>2. new \in FixedAllocatorType(n) /\ new.chunks = ds /\ new.emptyChunk = i
    BY <1>1, <1>8 DEF FixedAllocatorType, Pointer
  <2> HIDE DEF new
  <2>3. \A k \in 1 .. Len(ds) : HasAvailable(ds[k], n) <=> k = i
    BY <1>4, <1>6, <1>7, <1>10 DEF NULL
  <2>4. PoolOK(new, n, held2)
    BY <1>4, <1>5, <2>2, <2>3 DEF PoolOK, EmptyOK
  <2>5. ReleaseOK(fa, n, held2, areas, r)
    BY <1>4, <2>1, <2>2, <2>4 DEF ReleaseOK
  <2>6. QED
    BY <2>5 DEF r, held2
<1>11. CASE BecomesEmpty(fa, i) /\ e # NULL
  <2>1. r = ReleaseSecondEmpty(returned, areas)
    BY <1>3, <1>11
  <2>2. e \in 1 .. Len(ds) /\ i \in 1 .. Len(ds) /\ i # e
    BY <1>1, <1>4, <1>5, <1>11
  <2>3. \A k \in 1 .. Len(ds) : HasAvailable(ds[k], n) <=> k = i \/ k = e
    BY <1>6, <1>7, <1>11
  <2>4. ChunksOK(returned.chunks, n, held2)
    BY <1>4, <1>8
  <2>5. ReleaseOK(returned, n, held2, areas, r)
    BY <1>8, <2>1, <2>2, <2>3, <2>4, ReleaseSecondEmptyOK
  <2>6. AreasOf(returned.chunks) = AreasOf(fa.chunks)
    BY <1>4, <1>8
  <2>7. ReleaseOK(fa, n, held2, areas, r)
    BY <2>5, <2>6 DEF ReleaseOK
  <2>8. QED
    BY <2>7 DEF r, held2
<1>12. QED
  BY <1>9, <1>10, <1>11

(* VicinityFind finds an owner if there is one, from wherever it starts. *)
LEMMA VicinityFindOK ==
  ASSUME NEW fa, NEW p, fa.deallocChunk \in Nat, Len(fa.chunks) \in Nat
  PROVE  IF OwnersOf(fa, p) = {} THEN VicinityFind(fa, p) = NULL
         ELSE VicinityFind(fa, p) \in OwnersOf(fa, p)
<1> DEFINE turn(i) == IF i <= fa.deallocChunk THEN 2 * (fa.deallocChunk - i)
                      ELSE 2 * (i - fa.deallocChunk) - 1
           owners == OwnersOf(fa, p)
           nearest == CHOOSE i \in owners : \A j \in owners : turn(i) <= turn(j)
<1>1. VicinityFind(fa, p) = IF owners = {} THEN NULL ELSE nearest
  BY DEF VicinityFind
<1>2. ASSUME owners # {} PROVE \E i \in owners : \A j \in owners : turn(i) <= turn(j)
  <2> DEFINE turns == {turn(i) : i \in owners}
  <2>1. ASSUME NEW i \in owners PROVE turn(i) \in Nat
    <3> DEFINE d == fa.deallocChunk
    <3>1. i \in Nat /\ d \in Nat
      BY DEF OwnersOf, Back
    <3>2. CASE i <= d
      BY <3>1, <3>2
    <3>3. CASE ~(i <= d)
      BY <3>1, <3>3
    <3>4. QED
      BY <3>2, <3>3
  <2>2. turns \in SUBSET Nat /\ turns # {}
    BY <1>2, <2>1
  <2>3. PICK t \in turns : \A u \in turns : t <= u
    <3> HIDE DEF turns
    <3>1. QED
      BY <2>2, NatLeast
  <2>4. QED
    BY <2>3
<1>3. QED
  BY <1>1, <1>2
-----------------------------------------------------------------------------
(* Where allocChunk_ and deallocChunk_ lead, before the vector is trimmed *)

PointersOK(fa) ==
  IF Len(fa.chunks) = 0 THEN fa.allocChunk = NULL /\ fa.deallocChunk = NULL
  ELSE fa.allocChunk \in 1 .. Len(fa.chunks) /\ fa.deallocChunk \in 1 .. Len(fa.chunks)

(* An allocation that succeeds moves both pointers along when it moves the   *)
(* vector; one that fails may leave them behind.                            *)
LEMMA AllocateKeepsPointers ==
  ASSUME NEW n \in 1 .. UCHAR_MAX, NEW held, NEW fa, PoolOK(fa, n, held), PointersOK(fa),
         NEW areas, NEW m, ReserveThrows \notin Addr,
         FixedAllocate(fa, areas, m).place # NoBlock
  PROVE  PointersOK(FixedAllocate(fa, areas, m).fa)
<1> DEFINE at == AttachChunk(fa, m)
           a == at.fa.allocChunk
           len == Len(fa.chunks)
           r == FixedAllocate(fa, areas, m)
<1>1. /\ fa \in FixedAllocatorType(n) /\ fa.chunks \in Seq(ChunkType(Addr, n))
      /\ len \in Nat /\ (fa.emptyChunk = NULL \/ fa.emptyChunk \in 1 .. len)
  BY LenProperties DEF PoolOK, ChunksOK, EmptyOK
<1>2. at.ok
  BY DEF FixedAllocate
<1>3. r.fa = [at.fa EXCEPT !.chunks[a] = AllocateBlock(@)]
  BY <1>2 DEF FixedAllocate
<1>4. /\ at.fa.chunks \in Seq(ChunkType(Addr, n))
      /\ at.fa \in FixedAllocatorType(n)
      /\ a \in 1 .. Len(at.fa.chunks)
      /\ at.fa.deallocChunk \in 1 .. Len(at.fa.chunks)
  <2>1. CASE ~MustChangeChunk(fa)
    <3>1. fa.allocChunk # NULL /\ len # 0
      BY <2>1 DEF MustChangeChunk, PointersOK
    <3>2. at.fa = [fa EXCEPT !.emptyChunk = IF @ = fa.allocChunk THEN NULL ELSE @]
      BY <2>1 DEF AttachChunk
    <3> HIDE DEF at
    <3>3. /\ at.fa.chunks = fa.chunks /\ at.fa.allocChunk = fa.allocChunk
          /\ at.fa.deallocChunk = fa.deallocChunk /\ at.fa \in FixedAllocatorType(n)
      BY <1>1, <3>2 DEF FixedAllocatorType, Pointer, NULL
    <3>4. QED
      BY <1>1, <3>1, <3>3 DEF PointersOK
  <2>2. CASE MustChangeChunk(fa) /\ fa.emptyChunk # NULL
    <3>1. at.fa = [fa EXCEPT !.allocChunk = fa.emptyChunk, !.emptyChunk = NULL]
      BY <2>2 DEF AttachChunk
    <3> HIDE DEF at
    <3>2. /\ at.fa.chunks = fa.chunks /\ at.fa.allocChunk = fa.emptyChunk
          /\ at.fa.deallocChunk = fa.deallocChunk /\ at.fa \in FixedAllocatorType(n)
      <4>1. fa.emptyChunk \in Pointer /\ NULL \in Pointer
        BY <1>1 DEF FixedAllocatorType, Pointer, NULL
      <4>2. QED
        BY <1>1, <3>1, <4>1 DEF FixedAllocatorType
    <3>3. QED
      BY <1>1, <2>2, <3>2 DEF PointersOK
  <2>3. CASE MustChangeChunk(fa) /\ fa.emptyChunk = NULL /\ PartlyFree(fa) # {}
    <3> DEFINE least == CHOOSE i \in PartlyFree(fa) : \A j \in PartlyFree(fa) : i <= j
    <3>1. at.fa = [fa EXCEPT !.allocChunk = least]
      BY <2>3 DEF AttachChunk
    <3>2. least \in 1 .. len
      <4>1. PartlyFree(fa) \in SUBSET Nat /\ PartlyFree(fa) \subseteq 1 .. len
        BY DEF PartlyFree, Back
      <4>2. \E i \in PartlyFree(fa) : \A j \in PartlyFree(fa) : i <= j
        BY <2>3, <4>1, NatLeast
      <4>3. QED
        BY <4>1, <4>2
    <3> HIDE DEF at, least
    <3>3. /\ at.fa.chunks = fa.chunks /\ at.fa.allocChunk = least
          /\ at.fa.deallocChunk = fa.deallocChunk /\ at.fa \in FixedAllocatorType(n)
      BY <1>1, <3>1, <3>2 DEF FixedAllocatorType, Pointer
    <3>4. QED
      BY <1>1, <3>2, <3>3 DEF PointersOK
  <2>4. CASE MustChangeChunk(fa) /\ fa.emptyChunk = NULL /\ PartlyFree(fa) = {}
    <3> DEFINE k == 2 * (IF Back(fa) = 0 THEN MinReserve ELSE Back(fa))
               reserved == IF fa.capacity = Back(fa) THEN Reallocate(fa, k) ELSE fa
               ds == Append(fa.chunks, NewChunk(m, fa.numBlocks))
    <3>1. at = MakeNewChunk(fa, m)
      BY <2>4 DEF AttachChunk
    <3>2. m \in Addr
      BY <1>2, <3>1 DEF MakeNewChunk
    <3>3. at.fa = [reserved EXCEPT !.chunks = Append(@, NewChunk(m, fa.numBlocks)),
                                   !.allocChunk = Back(fa) + 1, !.deallocChunk = 1]
      BY <3>1, <3>2 DEF MakeNewChunk
    <3>4. reserved \in FixedAllocatorType(n) /\ reserved.chunks = fa.chunks /\ fa.numBlocks = n
      <4>1. k \in Nat
        BY <1>1, MinReserveAssumption DEF Back
      <4> HIDE DEF k
      <4>2. QED
        BY <1>1, <4>1, ReallocateOK DEF FixedAllocatorType
    <3> HIDE DEF at, reserved
    <3>5. ds \in Seq(ChunkType(Addr, n)) /\ Len(ds) = len + 1
      <4>1. NewChunk(m, n) \in ChunkType(Addr, n)
        BY <3>2, NewChunkFreeList
      <4>2. QED
        BY <1>1, <3>4, <4>1, AppendProperties
    <3>6. /\ at.fa.chunks = ds /\ at.fa.allocChunk = len + 1
          /\ at.fa.deallocChunk = 1 /\ at.fa \in FixedAllocatorType(n)
      <4> HIDE DEF ds
      <4>1. at.fa = [reserved EXCEPT !.chunks = ds, !.allocChunk = len + 1, !.deallocChunk = 1]
        BY <3>3, <3>4 DEF ds, Back
      <4>2. len + 1 \in Pointer /\ 1 \in Pointer
        BY <1>1 DEF Pointer
      <4> DEFINE q == len + 1
      <4> HIDE DEF q, len
      <4>3. at.fa = [reserved EXCEPT !.chunks = ds, !.allocChunk = q, !.deallocChunk = 1]
            /\ q \in Pointer
        BY <4>1, <4>2 DEF q
      <4>4. /\ at.fa.chunks = ds /\ at.fa.allocChunk = q
            /\ at.fa.deallocChunk = 1 /\ at.fa \in FixedAllocatorType(n)
        BY <3>4, <3>5, <4>2, <4>3 DEF FixedAllocatorType
      <4>5. QED
        BY <4>4 DEF q
    <3>7. QED
      BY <1>1, <3>5, <3>6
  <2>5. QED
    BY <2>1, <2>2, <2>3, <2>4
<1> HIDE DEF at
<1> DEFINE ds == [at.fa.chunks EXCEPT ![a] = AllocateBlock(@)]
<1>5. r.fa = [at.fa EXCEPT !.chunks = ds]
  BY <1>3, <1>4 DEF FixedAllocatorType
<1>6. Len(ds) = Len(at.fa.chunks) /\ Len(ds) \in Nat
  BY <1>4, ExceptSeq
<1> HIDE DEF ds, r
<1>7. r.fa.chunks = ds /\ r.fa.allocChunk = a /\ r.fa.deallocChunk = at.fa.deallocChunk
  BY <1>4, <1>5 DEF FixedAllocatorType
<1>8. PointersOK(r.fa)
  BY <1>4, <1>6, <1>7 DEF PointersOK
<1>9. QED
  BY <1>8 DEF r

(* The last chunk a pool releases leaves another empty one behind, to which  *)
(* deallocChunk_ and, if it has to move, allocChunk_ then lead.             *)
LEMMA DeallocateKeepsPointers ==
  ASSUME NEW n \in 1 .. UCHAR_MAX, NEW held, NEW fa, PoolOK(fa, n, held), PointersOK(fa),
         NEW areas, NEW cs, cs = fa.chunks, NEW i \in 1 .. Len(cs), NEW b \in Block(n),
         <<cs[i].pData, b>> \in held
  PROVE  PointersOK(FixedDeallocate(fa, areas, i, <<cs[i].pData, b>>).fa)
<1> DEFINE e == fa.emptyChunk
           p == <<cs[i].pData, b>>
           held2 == held \ {p}
           ds == DeallocatedIn(cs, i, b)
           returned == [fa EXCEPT !.deallocChunk = i, !.chunks = ds]
           r == FixedDeallocate(fa, areas, i, p)
           last == Len(ds)
<1>1. /\ fa \in FixedAllocatorType(n) /\ ChunksOK(cs, n, held)
      /\ Len(cs) \in Nat /\ i \in Nat
      /\ (e = NULL \/ e \in 1 .. Len(cs))
      /\ \A k \in 1 .. Len(cs) : HasAvailable(cs[k], n) <=> k = e
  BY LenProperties DEF PoolOK, ChunksOK, EmptyOK
<1>2. BlockReturned(fa, i, p[2]) = returned
  BY DEF BlockReturned, DeallocatedIn
<1> HIDE DEF r
<1>3. r = CASE ~BecomesEmpty(fa, i) -> [fa |-> returned, heap |-> areas]
            [] BecomesEmpty(fa, i) /\ e = NULL ->
                 [fa |-> [returned EXCEPT !.emptyChunk = i], heap |-> areas]
            [] BecomesEmpty(fa, i) /\ e # NULL -> ReleaseSecondEmpty(returned, areas)
  BY <1>2 DEF FixedDeallocate, r
<1>4. ChunksOK(ds, n, held2) /\ last = Len(cs) /\ ~HasAvailable(cs[i], n)
  <2>1. DeallocateInOK(n, held, cs, i, b)
    BY <1>1, DeallocateInChunk
  <2>2. QED
    BY <2>1 DEF DeallocateInOK
<1>5. i \in 1 .. last /\ last \in Nat /\ i # e
  BY <1>1, <1>4
<1> HIDE DEF ds
<1>6. /\ returned.chunks = ds /\ returned.deallocChunk = i
      /\ returned.allocChunk = fa.allocChunk /\ returned.emptyChunk = e
      /\ returned \in FixedAllocatorType(n)
  <2>1. ds \in Seq(ChunkType(Addr, n)) /\ i \in Pointer
    BY <1>1, <1>4 DEF ChunksOK, Pointer
  <2>2. QED
    BY <1>1, <2>1 DEF FixedAllocatorType
<1>7. fa.allocChunk \in 1 .. last
  BY <1>1, <1>4, <1>5 DEF PointersOK
<1> HIDE DEF returned
<1>8. CASE ~BecomesEmpty(fa, i)
  <2>1. r.fa = returned
    BY <1>3, <1>8
  <2>2. PointersOK(r.fa)
    BY <1>5, <1>6, <1>7, <2>1 DEF PointersOK
  <2>3. QED
    BY <2>2 DEF r, p
<1>9. CASE BecomesEmpty(fa, i) /\ e = NULL
  <2>1. r.fa = [returned EXCEPT !.emptyChunk = i]
    BY <1>3, <1>9
  <2>2. r.fa.chunks = ds /\ r.fa.deallocChunk = i /\ r.fa.allocChunk = fa.allocChunk
    BY <1>6, <2>1 DEF FixedAllocatorType
  <2>3. PointersOK(r.fa)
    BY <1>5, <1>7, <2>2 DEF PointersOK
  <2>4. QED
    BY <2>3 DEF r, p
<1>10. CASE BecomesEmpty(fa, i) /\ e # NULL
  <2> DEFINE x == SecondEmpty(ds, i, e)
             kept == KeptEmpty(ds, i, e)
             gone == Removed(ds, x)
             swapped == IF i = last THEN returned ELSE SwapChunks(returned, e, last)
             popped == PopBack(swapped)
             alloc == IF popped.allocChunk = last \/ IsFilled(popped.chunks[popped.allocChunk])
                      THEN kept ELSE popped.allocChunk
  <2>1. r = ReleaseSecondEmpty(returned, areas)
    BY <1>3, <1>10
  <2>2. r.fa = [popped EXCEPT !.deallocChunk = kept, !.emptyChunk = kept, !.allocChunk = alloc]
    BY <1>6, <2>1 DEF ReleaseSecondEmpty, KeptEmpty, Back
  <2>3. e \in 1 .. last /\ x \in 1 .. last /\ ds \in Seq(ChunkType(Addr, n))
    BY <1>1, <1>4, <1>5, <1>10 DEF SecondEmpty, ChunksOK
  <2>4. swapped = [returned EXCEPT !.chunks = Swapped(ds, x)]
    <3>1. CASE i = last
      <4>1. Swapped(ds, x) = ds
        BY <1>5, <2>3, <3>1, SwapLast DEF SecondEmpty
      <4>2. QED
        BY <1>6, <3>1, <4>1 DEF FixedAllocatorType
    <3>2. CASE i # last
      BY <1>6, <3>2 DEF SecondEmpty, SwapChunks, Swapped, FixedAllocatorType
    <3>3. QED
      BY <3>1, <3>2
  <2> HIDE DEF swapped
  <2>5. popped = [returned EXCEPT !.chunks = gone]
    BY <1>6, <2>4 DEF PopBack, Removed, FixedAllocatorType
  <2>6. Len(gone) = last - 1
    BY <1>4, <2>3, RemoveChunk DEF RemoveOK
  <2> HIDE DEF popped, gone, x, kept
  <2>7. popped.chunks = gone /\ popped.allocChunk = fa.allocChunk
    BY <1>6, <2>5 DEF FixedAllocatorType
  <2>8. kept \in 1 .. last - 1
    BY <1>5, <2>3 DEF kept, KeptEmpty
  <2>9. alloc \in 1 .. last - 1
    BY <1>5, <1>7, <2>7, <2>8
  <2> HIDE DEF alloc
  <2>10. r.fa.chunks = gone /\ r.fa.deallocChunk = kept /\ r.fa.allocChunk = alloc
    BY <1>6, <2>2, <2>5 DEF FixedAllocatorType
  <2>11. PointersOK(r.fa)
    BY <1>5, <2>6, <2>8, <2>9, <2>10 DEF PointersOK
  <2>12. QED
    BY <2>11 DEF r, p
<1>11. QED
  BY <1>8, <1>9, <1>10

(* FixedAllocator's own check finds nothing wrong with such a pool. *)
LEMMA PoolNotCorrupt ==
  ASSUME NEW n \in 1 .. UCHAR_MAX, NEW held, NEW fa, PoolOK(fa, n, held), PointersOK(fa)
  PROVE  ~FixedAllocatorIsCorrupt(fa)
<1>1. /\ fa \in FixedAllocatorType(n) /\ ChunksOK(fa.chunks, n, held)
      /\ EmptyOK(fa.chunks, n, fa.emptyChunk)
      /\ fa.chunks \in Seq(ChunkType(Addr, n)) /\ Len(fa.chunks) \in Nat /\ fa.numBlocks = n
  BY LenProperties DEF PoolOK, ChunksOK, FixedAllocatorType
<1>2. CASE fa.chunks = <<>>
  BY <1>1, <1>2 DEF FixedAllocatorIsCorrupt, EmptyOK, PointersOK
<1>3. CASE fa.chunks # <<>>
  <2>1. Len(fa.chunks) # 0
    BY <1>1, <1>3
  <2>2. ~OutOfContainer(fa, fa.deallocChunk) /\ ~OutOfContainer(fa, fa.allocChunk)
    BY <1>1, <2>1 DEF OutOfContainer, PointersOK, Within, Back, NULL
  <2>3. fa.emptyChunk # NULL => /\ Within(fa, fa.emptyChunk)
                                /\ HasAvailable(fa.chunks[fa.emptyChunk], fa.numBlocks)
    BY <1>1 DEF EmptyOK, Within, Back
  <2>4. ASSUME NEW i \in 1 .. Back(fa) PROVE ~ChunkIsCorrupt(fa.chunks[i], fa.numBlocks)
    <3> DEFINE c == fa.chunks[i]
    <3>1. c \in ChunkType(Addr, n) /\ FreeListIs(c, n, Unheld(c, n, held))
      BY <1>1, ElementOfSeq DEF Back, ChunksOK
    <3> HIDE DEF c
    <3>2. c.blocksAvailable \in 0 .. n /\ n \in Nat
      BY <3>1 DEF ChunkType, UCHAR_MAX
    <3>3. PICK order \in [1 .. c.blocksAvailable -> Block(n)] : Lists(c, order)
      BY <3>1 DEF FreeListIs, IsFreeList, Lists
    <3>4. ~ChunkIsCorrupt(c, n)
      BY <3>2, <3>3, ListedNotCorrupt
    <3>5. QED
      BY <1>1, <3>4 DEF c
  <2>5. QED
    BY <1>3, <2>2, <2>3, <2>4 DEF FixedAllocatorIsCorrupt
<1>4. QED
  BY <1>2, <1>3

-----------------------------------------------------------------------------
(* Sizes *)

(* Rounding up to a multiple of the alignment keeps the order, and at least *)
(* 1 stays at least 1.                                                      *)
LEMMA GetOffsetOrder ==
  ASSUME NEW x \in Nat \ {0}, NEW y \in Nat, x <= y, NEW a \in Nat \ {0}
  PROVE  GetOffset(x, a) \in 1 .. GetOffset(y, a)
<1> DEFINE u == x + a - 1
           v == y + a - 1
           q == u \div a
           r == v \div a
<1>1. u \in Nat /\ v \in Nat /\ u <= v /\ a <= u
  OBVIOUS
<1> HIDE DEF u, v
<1>2. q \in Int /\ r \in Int /\ a * q <= u /\ u < a * q + a /\ a * r <= v /\ v < a * r + a
  BY <1>1
<1> HIDE DEF q, r
<1>3. q >= 1
  BY <1>1, <1>2
<1>4. q <= r
  <2>1. SUFFICES ASSUME q >= r + 1 PROVE FALSE
    BY <1>2
  <2>2. a * (r + 1) <= a * q
    BY <1>2, <2>1
  <2>3. a * (r + 1) = a * r + a
    BY <1>2
  <2>4. QED
    BY <1>1, <1>2, <2>2, <2>3
<1>5. QED
  BY <1>2, <1>3, <1>4 DEF GetOffset, q, r, u, v

(* The pool of a small request is one of the pools. *)
LEMMA PoolOfSmall ==
  ASSUME NEW numBytes \in Nat, IsSmall(numBytes)
  PROVE  PoolOf(numBytes) \in Pool
<1> DEFINE x == IF numBytes = 0 THEN 1 ELSE numBytes
<1>1. x \in Nat \ {0} /\ x <= MaxSmallObjectSize /\ MaxSmallObjectSize \in Nat
  BY SizesAssumption DEF IsSmall
<1> HIDE DEF x
<1>2. GetOffset(x, AlignSize) \in 1 .. GetOffset(MaxSmallObjectSize, AlignSize)
  BY <1>1, GetOffsetOrder, SizesAssumption
<1>3. QED
  BY <1>2 DEF PoolOf, Pool, allocCount, x

(* Every pool's chunks have between 1 and UCHAR_MAX blocks. *)
LEMMA NumBlocksType ==
  ASSUME NEW i \in Pool
  PROVE  NumBlocks(i) \in 1 .. UCHAR_MAX
<1> DEFINE q == PageSize \div BlockSize(i)
<1>1. BlockSize(i) \in Nat \ {0}
  BY SizesAssumption DEF BlockSize, Pool
<1>2. q \in Int
  BY <1>1, SizesAssumption
<1> HIDE DEF q
<1>3. NumBlocks(i) = IF q > MaxObjectsPerChunk THEN MaxObjectsPerChunk
                     ELSE IF q < MinObjectsPerChunk THEN MinObjectsPerChunk ELSE q
  BY DEF NumBlocks, NumBlocksFor, q
<1>4. QED
  BY <1>2, <1>3, SizesAssumption DEF UCHAR_MAX
-----------------------------------------------------------------------------
(* The inductive invariant *)

Small(lv, p) == IsSmall(lv[p])

\* Every area in use has one owner: a pool, or one large block.
Owned(ps, h, lv) ==
  /\ \A i \in Pool : AreasOf(ps[i].chunks) \subseteq h
  /\ \A i, j \in Pool : i # j => AreasOf(ps[i].chunks) \cap AreasOf(ps[j].chunks) = {}
  /\ \A p \in DOMAIN lv :
       IF Small(lv, p)
       THEN /\ p[1] \in AreasOf(ps[PoolOf(lv[p])].chunks)
            /\ p[2] \in Block(NumBlocks(PoolOf(lv[p])))
       ELSE /\ p[1] \in h /\ p[2] = 0
            /\ \A i \in Pool : p[1] \notin AreasOf(ps[i].chunks)
  /\ \A a \in h : \/ \E i \in Pool : a \in AreasOf(ps[i].chunks)
                  \/ \E p \in DOMAIN lv : ~Small(lv, p) /\ p[1] = a

LiveType(lv) ==
  /\ lv \in [DOMAIN lv -> Sizes]
  /\ DOMAIN lv \subseteq Addr \X Block(UCHAR_MAX)

Good(ps, h, lv) ==
  /\ ps = [i \in Pool |-> ps[i]]
  /\ \A i \in Pool : PoolOK(ps[i], NumBlocks(i), DOMAIN lv)
  /\ h \in SUBSET Addr
  /\ LiveType(lv)
  /\ Owned(ps, h, lv)

\* lv with block p of size s, and without block p.
Given(lv, p, s) == [q \in DOMAIN lv \cup {p} |-> IF q = p THEN s ELSE lv[q]]
Taken(lv, p) == [q \in DOMAIN lv \ {p} |-> lv[q]]

-----------------------------------------------------------------------------
(* What a step does to the owners of the areas *)

(* A pool is not touched by blocks given or taken in other areas. *)
LEMMA HeldElsewhere ==
  ASSUME NEW n, NEW fa, NEW held, NEW held2, PoolOK(fa, n, held),
         \A a \in AreasOf(fa.chunks), b \in Block(n) : <<a, b>> \in held <=> <<a, b>> \in held2
  PROVE  PoolOK(fa, n, held2)
<1> DEFINE cs == fa.chunks
<1>1. ASSUME NEW k \in 1 .. Len(cs)
      PROVE  Unheld(cs[k], n, held2) = Unheld(cs[k], n, held)
  <2>1. cs[k].pData \in AreasOf(cs)
    BY DEF AreasOf
  <2>2. QED
    BY <2>1 DEF Unheld
<1>2. QED
  BY <1>1 DEF PoolOK, ChunksOK

(* A block lies in one area of the heap. *)
LEMMA BlockArea ==
  ASSUME NEW ps, NEW h, NEW lv, LiveType(lv), Owned(ps, h, lv), NEW p \in DOMAIN lv
  PROVE  /\ p = <<p[1], p[2]>> /\ p[1] \in h /\ p[2] \in Block(UCHAR_MAX)
         /\ lv[p] \in Sizes /\ lv[p] \in Nat
         /\ Small(lv, p) => PoolOf(lv[p]) \in Pool
<1>1. p = <<p[1], p[2]>> /\ p[2] \in Block(UCHAR_MAX)
  BY DEF LiveType
<1>2. lv[p] \in Sizes /\ lv[p] \in Nat
  BY SizesAssumption DEF LiveType
<1>3. Small(lv, p) => PoolOf(lv[p]) \in Pool
  BY <1>2, PoolOfSmall DEF Small
<1>4. p[1] \in h
  BY <1>3 DEF Owned
<1>5. QED
  BY <1>1, <1>2, <1>3, <1>4

(* A new area has no held block, and no pool owns it. *)
LEMMA FreshArea ==
  ASSUME NEW ps, NEW h, NEW lv, LiveType(lv), Owned(ps, h, lv), NEW m, m \notin h
  PROVE  /\ \A i \in Pool : m \notin AreasOf(ps[i].chunks)
         /\ \A b : <<m, b>> \notin DOMAIN lv
<1>1. \A i \in Pool : m \notin AreasOf(ps[i].chunks)
  BY DEF Owned
<1>2. ASSUME NEW b, <<m, b>> \in DOMAIN lv PROVE FALSE
  BY <1>2, BlockArea
<1>3. QED
  BY <1>1, <1>2

(* The areas in R leave the heap and the pools; no block lies in them. *)
LEMMA ReleaseAreas ==
  ASSUME NEW ps, NEW qs, NEW h, NEW lv, LiveType(lv), Owned(ps, h, lv), NEW R,
         \A i \in Pool : AreasOf(qs[i].chunks) = AreasOf(ps[i].chunks) \ R,
         \A p \in DOMAIN lv : p[1] \notin R
  PROVE  Owned(qs, h \ R, lv)
<1>2. \A i \in Pool : AreasOf(qs[i].chunks) \subseteq h \ R
  BY DEF Owned
<1>3. \A i, j \in Pool : i # j => AreasOf(qs[i].chunks) \cap AreasOf(qs[j].chunks) = {}
  BY DEF Owned
<1>4. ASSUME NEW p \in DOMAIN lv, Small(lv, p)
      PROVE  /\ p[1] \in AreasOf(qs[PoolOf(lv[p])].chunks)
             /\ p[2] \in Block(NumBlocks(PoolOf(lv[p])))
  <2>1. PoolOf(lv[p]) \in Pool
    BY <1>4, BlockArea
  <2>2. QED
    BY <1>4, <2>1 DEF Owned
<1>5. ASSUME NEW p \in DOMAIN lv, ~Small(lv, p)
      PROVE  /\ p[1] \in h \ R /\ p[2] = 0
             /\ \A i \in Pool : p[1] \notin AreasOf(qs[i].chunks)
  BY <1>5 DEF Owned
<1>6. ASSUME NEW a \in h \ R
      PROVE  \/ \E i \in Pool : a \in AreasOf(qs[i].chunks)
             \/ \E p \in DOMAIN lv : ~Small(lv, p) /\ p[1] = a
  BY DEF Owned
<1>7. QED
  BY <1>2, <1>3, <1>4, <1>5, <1>6 DEF Owned
(* A released area has no block of any client in it. *)
LEMMA ReleasedUnheld ==
  ASSUME NEW ps, NEW h, NEW lv, LiveType(lv), Owned(ps, h, lv), NEW i \in Pool,
         NEW a \in AreasOf(ps[i].chunks),
         \A b \in Block(NumBlocks(i)) : <<a, b>> \notin DOMAIN lv,
         NEW p \in DOMAIN lv
  PROVE  p[1] # a
<1>1. SUFFICES ASSUME p[1] = a PROVE FALSE
  OBVIOUS
<1>2. Small(lv, p)
  BY <1>1 DEF Owned
<1>3. PoolOf(lv[p]) \in Pool /\ p = <<p[1], p[2]>>
  BY <1>2, BlockArea
<1>4. a \in AreasOf(ps[PoolOf(lv[p])].chunks) /\ p[2] \in Block(NumBlocks(PoolOf(lv[p])))
  BY <1>1, <1>2 DEF Owned
<1>5. PoolOf(lv[p]) = i
  BY <1>3, <1>4 DEF Owned
<1>6. QED
  BY <1>1, <1>3, <1>4, <1>5

(* Taking a block back from a client. *)
LEMMA TakenOK ==
  ASSUME NEW ps, NEW h, NEW lv, LiveType(lv), Owned(ps, h, lv), NEW p \in DOMAIN lv
  PROVE  /\ LiveType(Taken(lv, p))
         /\ DOMAIN Taken(lv, p) = DOMAIN lv \ {p}
         /\ Small(lv, p) => Owned(ps, h, Taken(lv, p))
<1> DEFINE lv2 == Taken(lv, p)
<1>1. DOMAIN lv2 = DOMAIN lv \ {p} /\ \A q \in DOMAIN lv2 : lv2[q] = lv[q]
  BY DEF Taken
<1>2. LiveType(lv2)
  BY <1>1 DEF LiveType, Taken
<1>3. ASSUME Small(lv, p) PROVE Owned(ps, h, lv2)
  <2> HIDE DEF lv2
  <2>1. \A q \in DOMAIN lv2 : Small(lv2, q) = Small(lv, q) /\ q \in DOMAIN lv
    BY <1>1 DEF Small
  <2>2. \A q \in DOMAIN lv : ~Small(lv, q) => q \in DOMAIN lv2
    BY <1>1, <1>3
  <2>3. \A q \in DOMAIN lv2 :
          IF Small(lv2, q)
          THEN /\ q[1] \in AreasOf(ps[PoolOf(lv2[q])].chunks)
               /\ q[2] \in Block(NumBlocks(PoolOf(lv2[q])))
          ELSE /\ q[1] \in h /\ q[2] = 0
               /\ \A i \in Pool : q[1] \notin AreasOf(ps[i].chunks)
    BY <1>1, <2>1 DEF Owned
  <2>4. \A a \in h : \/ \E i \in Pool : a \in AreasOf(ps[i].chunks)
                     \/ \E q \in DOMAIN lv2 : ~Small(lv2, q) /\ q[1] = a
    BY <2>1, <2>2 DEF Owned
  <2>5. QED
    BY <2>3, <2>4 DEF Owned
<1>4. QED
  BY <1>1, <1>2, <1>3

(* FixedAllocator::Deallocate, called on the pool and the chunk that own p. *)
LEMMA DeallocateStep ==
  ASSUME NEW ps, NEW h, NEW lv, Good(ps, h, lv), NEW p \in DOMAIN lv,
         NEW i \in Pool, NEW k \in OwnersOf(ps[i], p)
  PROVE  LET r == FixedDeallocate(ps[i], h, k, p) IN
         Good([ps EXCEPT ![i] = r.fa], r.heap, Taken(lv, p))
<1> DEFINE n == NumBlocks(i)
           fa == ps[i]
           r == FixedDeallocate(fa, h, k, p)
           qs == [ps EXCEPT ![i] = r.fa]
           lv2 == Taken(lv, p)
<1>1. LiveType(lv) /\ Owned(ps, h, lv) /\ PoolOK(fa, n, DOMAIN lv)
      /\ h \in SUBSET Addr /\ ps = [j \in Pool |-> ps[j]]
  BY DEF Good
<1>2. k \in 1 .. Len(fa.chunks) /\ p[1] = fa.chunks[k].pData
  BY DEF OwnersOf, HasBlock, Back
<1>3. p[1] \in AreasOf(fa.chunks)
  BY <1>2 DEF AreasOf
<1>4. Small(lv, p)
  BY <1>1, <1>3 DEF Owned
<1>5. PoolOf(lv[p]) \in Pool /\ p = <<p[1], p[2]>>
  BY <1>1, <1>4, BlockArea
<1>6. PoolOf(lv[p]) = i /\ p[2] \in Block(n)
  BY <1>1, <1>3, <1>4, <1>5 DEF Owned
<1>7. ReleaseOK(fa, n, DOMAIN lv \ {p}, h, r)
  <2> DEFINE cs == fa.chunks
             b == p[2]
  <2>1. n \in 1 .. UCHAR_MAX
    BY NumBlocksType
  <2>2. /\ k \in 1 .. Len(cs) /\ b \in Block(n)
        /\ p = <<cs[k].pData, b>> /\ <<cs[k].pData, b>> \in DOMAIN lv
    BY <1>2, <1>5, <1>6
  <2>3. cs = fa.chunks
    OBVIOUS
  <2> HIDE DEF cs, b, n, fa
  <2>4. ReleaseOK(fa, n, DOMAIN lv \ {<<cs[k].pData, b>>}, h,
                  FixedDeallocate(fa, h, k, <<cs[k].pData, b>>))
    BY <1>1, <2>1, <2>2, <2>3, FixedDeallocateOK
  <2>5. QED
    BY <2>2, <2>4
<1>8. LiveType(lv2) /\ DOMAIN lv2 = DOMAIN lv \ {p} /\ Owned(ps, h, lv2)
  BY <1>1, <1>4, TakenOK
<1>9. /\ qs = [j \in Pool |-> qs[j]]
      /\ qs[i] = r.fa
      /\ \A j \in Pool : j # i => qs[j] = ps[j]
  BY <1>1
<1> HIDE DEF r, qs, fa, lv2, n
<1>10. \A j \in Pool : PoolOK(qs[j], NumBlocks(j), DOMAIN lv2)
  <2>1. PoolOK(qs[i], NumBlocks(i), DOMAIN lv2)
    BY <1>7, <1>8, <1>9 DEF ReleaseOK, n
  <2>2. ASSUME NEW j \in Pool, j # i PROVE PoolOK(ps[j], NumBlocks(j), DOMAIN lv2)
    <3>1. PoolOK(ps[j], NumBlocks(j), DOMAIN lv)
      BY DEF Good
    <3>2. p[1] \notin AreasOf(ps[j].chunks)
      BY <1>1, <1>3, <2>2 DEF Owned, fa
    <3>3. \A a \in AreasOf(ps[j].chunks), b \in Block(NumBlocks(j)) :
            <<a, b>> \in DOMAIN lv <=> <<a, b>> \in DOMAIN lv2
      BY <1>5, <1>8, <3>2
    <3>4. QED
      BY <3>1, <3>3, HeldElsewhere
  <2>3. QED
    BY <1>9, <2>1, <2>2
<1>11. CASE AreasOf(r.fa.chunks) = AreasOf(fa.chunks) /\ r.heap = h
  <2>1. \A j \in Pool : AreasOf(qs[j].chunks) = AreasOf(ps[j].chunks) \ {}
    BY <1>9, <1>11 DEF fa
  <2>2. Owned(qs, h \ {}, lv2)
    BY <1>8, <2>1, ReleaseAreas
  <2>3. Good(qs, r.heap, lv2)
    BY <1>1, <1>8, <1>9, <1>10, <1>11, <2>2 DEF Good
  <2>4. QED
    BY <2>3 DEF qs, r, fa, lv2
<1>12. CASE \E a \in AreasOf(fa.chunks) :
              /\ AreasOf(r.fa.chunks) = AreasOf(fa.chunks) \ {a}
              /\ r.heap = h \ {a}
              /\ \A b \in Block(n) : <<a, b>> \notin DOMAIN lv \ {p}
  <2>1. PICK a \in AreasOf(fa.chunks) :
          /\ AreasOf(r.fa.chunks) = AreasOf(fa.chunks) \ {a}
          /\ r.heap = h \ {a}
          /\ \A b \in Block(n) : <<a, b>> \notin DOMAIN lv2
    BY <1>8, <1>12
  <2>2. \A j \in Pool : AreasOf(qs[j].chunks) = AreasOf(ps[j].chunks) \ {a}
    BY <1>1, <1>9, <2>1 DEF fa, Owned
  <2>3. \A q \in DOMAIN lv2 : q[1] \notin {a}
    BY <1>8, <2>1, ReleasedUnheld DEF fa, n
  <2>4. Owned(qs, h \ {a}, lv2)
    BY <1>8, <2>2, <2>3, ReleaseAreas
  <2>5. Good(qs, r.heap, lv2)
    BY <1>1, <1>8, <1>9, <1>10, <2>1, <2>4 DEF Good
  <2>6. QED
    BY <2>5 DEF qs, r, fa, lv2
<1>13. QED
  BY <1>7, <1>11, <1>12 DEF ReleaseOK
(* The chunks of a pool lie in areas malloc returned. *)
LEMMA AreasInAddr ==
  ASSUME NEW n, NEW cs \in Seq(ChunkType(Addr, n))
  PROVE  AreasOf(cs) \subseteq Addr
<1>1. ASSUME NEW k \in 1 .. Len(cs) PROVE cs[k].pData \in Addr
  <2>1. cs[k] \in ChunkType(Addr, n)
    BY ElementOfSeq
  <2>2. QED
    BY <2>1 DEF ChunkType
<1>2. QED
  BY <1>1 DEF AreasOf

(* FixedAllocator::Allocate, called on the pool that the size selects. *)
LEMMA AllocateStep ==
  ASSUME NEW ps, NEW h, NEW lv, Good(ps, h, lv), NEW i \in Pool, NEW m,
         m \in Addr => m \notin h,
         NEW r, AllocateOK(ps[i], NumBlocks(i), DOMAIN lv, h, m, r)
  PROVE  /\ r.place = NoBlock => Good([ps EXCEPT ![i] = r.fa], r.heap, lv)
         /\ \A s \in Sizes :
              r.place # NoBlock /\ IsSmall(s) /\ PoolOf(s) = i =>
                Good([ps EXCEPT ![i] = r.fa], r.heap, Given(lv, r.place, s))
<1> DEFINE n == NumBlocks(i)
           fa == ps[i]
           qs == [ps EXCEPT ![i] = r.fa]
<1>1. /\ LiveType(lv) /\ Owned(ps, h, lv) /\ h \in SUBSET Addr
      /\ \A j \in Pool : PoolOK(ps[j], NumBlocks(j), DOMAIN lv)
      /\ ps = [j \in Pool |-> ps[j]]
  BY DEF Good
<1>2. /\ qs = [j \in Pool |-> qs[j]]
      /\ qs[i] = r.fa
      /\ \A j \in Pool : j # i => qs[j] = ps[j]
  BY <1>1
<1> HIDE DEF qs
<1>3. ASSUME r.place = NoBlock PROVE Good(qs, r.heap, lv)
  <2>1. /\ PoolOK(r.fa, n, DOMAIN lv)
        /\ AreasOf(r.fa.chunks) = AreasOf(fa.chunks)
        /\ r.heap = h
    BY <1>3 DEF AllocateOK
  <2>2. \A j \in Pool : AreasOf(qs[j].chunks) = AreasOf(ps[j].chunks) \ {}
    BY <1>2, <2>1
  <2>3. Owned(qs, h \ {}, lv)
    BY <1>1, <2>2, ReleaseAreas
  <2>4. \A j \in Pool : PoolOK(qs[j], NumBlocks(j), DOMAIN lv)
    BY <1>1, <1>2, <2>1
  <2>5. QED
    BY <1>1, <1>2, <2>1, <2>3, <2>4 DEF Good
<1>4. ASSUME NEW s \in Sizes, r.place # NoBlock, IsSmall(s), PoolOf(s) = i
      PROVE  Good(qs, r.heap, Given(lv, r.place, s))
  <2> DEFINE p == r.place
             lv2 == Given(lv, p, s)
             h2 == r.heap
  <2>1. /\ p = <<p[1], p[2]>> /\ p[1] \in AreasOf(r.fa.chunks) /\ p[2] \in Block(n)
        /\ p \notin DOMAIN lv
        /\ PoolOK(r.fa, n, DOMAIN lv \cup {p})
        /\ \/ AreasOf(r.fa.chunks) = AreasOf(fa.chunks) /\ h2 = h
           \/ /\ m \in Addr
              /\ AreasOf(r.fa.chunks) = AreasOf(fa.chunks) \cup {m}
              /\ h2 = h \cup {m}
    BY <1>4 DEF AllocateOK
  <2>2. PICK A \in SUBSET Addr :
          /\ AreasOf(r.fa.chunks) = AreasOf(fa.chunks) \cup A
          /\ h2 = h \cup A
          /\ \A a \in A : a \notin h
    <3>1. CASE AreasOf(r.fa.chunks) = AreasOf(fa.chunks) /\ h2 = h
      <4>1. /\ {} \in SUBSET Addr
            /\ AreasOf(r.fa.chunks) = AreasOf(fa.chunks) \cup {}
            /\ h2 = h \cup {}
            /\ \A a \in {} : a \notin h
        BY <3>1
      <4>2. QED
        BY <4>1
    <3>2. CASE /\ m \in Addr
               /\ AreasOf(r.fa.chunks) = AreasOf(fa.chunks) \cup {m}
               /\ h2 = h \cup {m}
      <4>1. {m} \in SUBSET Addr /\ \A a \in {m} : a \notin h
        BY <3>2
      <4>2. QED
        BY <3>2, <4>1
    <3>3. QED
      BY <2>1, <3>1, <3>2
  <2>3. /\ DOMAIN lv2 = DOMAIN lv \cup {p} /\ lv2[p] = s
        /\ \A q \in DOMAIN lv : q # p /\ lv2[q] = lv[q]
    BY <2>1 DEF Given
  <2>4. LiveType(lv2)
    <3>1. p[1] \in Addr
      BY <2>1, AreasInAddr DEF PoolOK, ChunksOK
    <3>2. p[2] \in Block(UCHAR_MAX)
      <4>1. n \in 1 .. UCHAR_MAX /\ p[2] \in Block(n)
        BY <2>1, NumBlocksType
      <4>2. QED
        BY <4>1 DEF Block, UCHAR_MAX
    <3>3. p \in Addr \X Block(UCHAR_MAX)
      BY <2>1, <3>1, <3>2
    <3>4. \A q \in DOMAIN lv : lv[q] \in Sizes
      BY <1>1 DEF LiveType
    <3>5. lv2 \in [DOMAIN lv2 -> Sizes]
      BY <2>3, <3>4 DEF Given
    <3>6. QED
      BY <1>1, <2>3, <3>3, <3>5 DEF LiveType
  <2> HIDE DEF lv2, p, h2
  <2>5. \A j \in Pool : AreasOf(qs[j].chunks) \subseteq h2
    BY <1>1, <1>2, <2>2 DEF Owned
  <2>6. \A j, k \in Pool : j # k => AreasOf(qs[j].chunks) \cap AreasOf(qs[k].chunks) = {}
    <3>1. ASSUME NEW j \in Pool, j # i
          PROVE  AreasOf(qs[j].chunks) \cap AreasOf(qs[i].chunks) = {}
      BY <1>1, <1>2, <2>2, <3>1 DEF Owned
    <3>2. ASSUME NEW j \in Pool, NEW k \in Pool, j # i, k # i, j # k
          PROVE  AreasOf(qs[j].chunks) \cap AreasOf(qs[k].chunks) = {}
      BY <1>1, <1>2, <3>2 DEF Owned
    <3>3. QED
      BY <3>1, <3>2
  <2>7. ASSUME NEW q \in DOMAIN lv2, Small(lv2, q)
        PROVE  /\ q[1] \in AreasOf(qs[PoolOf(lv2[q])].chunks)
               /\ q[2] \in Block(NumBlocks(PoolOf(lv2[q])))
    <3>1. CASE q = p
      BY <1>2, <1>4, <2>1, <2>3, <3>1
    <3>2. CASE q \in DOMAIN lv
      <4>1. lv2[q] = lv[q] /\ Small(lv, q)
        BY <2>3, <2>7, <3>2 DEF Small
      <4>2. PoolOf(lv[q]) \in Pool
        BY <1>1, <3>2, <4>1, BlockArea
      <4>3. /\ q[1] \in AreasOf(ps[PoolOf(lv[q])].chunks)
            /\ q[2] \in Block(NumBlocks(PoolOf(lv[q])))
        BY <1>1, <3>2, <4>1 DEF Owned
      <4>4. AreasOf(ps[PoolOf(lv[q])].chunks) \subseteq AreasOf(qs[PoolOf(lv[q])].chunks)
        BY <1>2, <2>2, <4>2
      <4>5. QED
        BY <4>1, <4>3, <4>4
    <3>3. QED
      BY <2>3, <3>1, <3>2
  <2>8. ASSUME NEW q \in DOMAIN lv2, ~Small(lv2, q)
        PROVE  /\ q[1] \in h2 /\ q[2] = 0
               /\ \A j \in Pool : q[1] \notin AreasOf(qs[j].chunks)
    <3>1. q \in DOMAIN lv /\ ~Small(lv, q)
      BY <1>4, <2>3, <2>8 DEF Small
    <3>2. /\ q[1] \in h /\ q[2] = 0
          /\ \A j \in Pool : q[1] \notin AreasOf(ps[j].chunks)
      BY <1>1, <3>1 DEF Owned
    <3>3. QED
      BY <1>2, <2>2, <3>2
  <2>9. ASSUME NEW a \in h2
        PROVE  \/ \E j \in Pool : a \in AreasOf(qs[j].chunks)
               \/ \E q \in DOMAIN lv2 : ~Small(lv2, q) /\ q[1] = a
    <3>1. CASE a \in A
      BY <1>2, <2>2, <3>1
    <3>2. CASE \E j \in Pool : a \in AreasOf(ps[j].chunks)
      BY <1>2, <2>2, <3>2
    <3>3. CASE \E q \in DOMAIN lv : ~Small(lv, q) /\ q[1] = a
      BY <2>3, <3>3 DEF Small
    <3>4. QED
      BY <1>1, <2>2, <3>1, <3>2, <3>3 DEF Owned
  <2>10. Owned(qs, h2, lv2)
    BY <2>5, <2>6, <2>7, <2>8, <2>9 DEF Owned
  <2>11. \A j \in Pool : PoolOK(qs[j], NumBlocks(j), DOMAIN lv2)
    <3>1. ASSUME NEW j \in Pool, j # i PROVE PoolOK(ps[j], NumBlocks(j), DOMAIN lv2)
      <4>1. p[1] \notin AreasOf(ps[j].chunks)
        BY <1>2, <2>1, <2>6, <3>1
      <4>2. PoolOK(ps[j], NumBlocks(j), DOMAIN lv)
        BY <1>1
      <4>3. \A a \in AreasOf(ps[j].chunks), b \in Block(NumBlocks(j)) :
              <<a, b>> \in DOMAIN lv <=> <<a, b>> \in DOMAIN lv2
        BY <2>1, <2>3, <4>1
      <4>4. QED
        BY <4>2, <4>3, HeldElsewhere
    <3>2. QED
      BY <1>2, <2>1, <2>3, <3>1
  <2>12. Good(qs, h2, lv2)
    BY <1>1, <1>2, <2>2, <2>4, <2>10, <2>11 DEF Good
  <2>13. QED
    BY <2>12 DEF lv2, p, h2
<1>5. QED
  BY <1>3, <1>4 DEF qs

(* TrimExcessMemory, with the lists of the pools up to done trimmed. *)
LEMMA TrimStep ==
  ASSUME NEW ps, NEW h, NEW lv, Good(ps, h, lv), NEW done \in Int
  PROVE  /\ Good(Trim(ps, h, done).pool, Trim(ps, h, done).heap, lv)
         /\ \A i \in Pool : Trim(ps, h, done).pool[i].emptyChunk = NULL
<1> DEFINE emptied == [i \in Pool |-> TrimEmptyChunk(ps[i], h)]
           qs == Trim(ps, h, done).pool
           h2 == Trim(ps, h, done).heap
           R == {a \in h : \E i \in Pool : a \notin emptied[i].heap}
<1>1. /\ LiveType(lv) /\ Owned(ps, h, lv) /\ h \in SUBSET Addr
      /\ \A i \in Pool : PoolOK(ps[i], NumBlocks(i), DOMAIN lv)
  BY DEF Good
<1>2. qs = [i \in Pool |-> IF i <= done THEN TrimChunkList(emptied[i].fa) ELSE emptied[i].fa]
      /\ h2 = {a \in h : \A i \in Pool : a \in emptied[i].heap}
  BY DEF Trim
<1> HIDE DEF qs, h2
<1>3. h2 = h \ R
  BY <1>2
<1>4. ASSUME NEW i \in Pool
      PROVE  /\ ReleaseOK(ps[i], NumBlocks(i), DOMAIN lv, h, emptied[i])
             /\ emptied[i].fa.emptyChunk = NULL
  <2>1. PoolOK(ps[i], NumBlocks(i), DOMAIN lv) /\ NumBlocks(i) \in 1 .. UCHAR_MAX
    BY <1>1, NumBlocksType
  <2>2. /\ ReleaseOK(ps[i], NumBlocks(i), DOMAIN lv, h, TrimEmptyChunk(ps[i], h))
        /\ TrimEmptyChunk(ps[i], h).fa.emptyChunk = NULL
    BY <2>1, TrimEmptyChunkOK
  <2>3. QED
    BY <2>2
<1> HIDE DEF emptied
<1>5. ASSUME NEW i \in Pool
      PROVE  /\ PoolOK(qs[i], NumBlocks(i), DOMAIN lv)
             /\ qs[i].chunks = emptied[i].fa.chunks
             /\ qs[i].emptyChunk = NULL
  <2>1. PoolOK(emptied[i].fa, NumBlocks(i), DOMAIN lv) /\ emptied[i].fa.emptyChunk = NULL
    BY <1>4 DEF ReleaseOK
  <2>2. NumBlocks(i) \in 1 .. UCHAR_MAX
    BY NumBlocksType
  <2>3. /\ PoolOK(TrimChunkList(emptied[i].fa), NumBlocks(i), DOMAIN lv)
        /\ TrimChunkList(emptied[i].fa).chunks = emptied[i].fa.chunks
    BY <2>1, <2>2, TrimChunkListOK
  <2>4. TrimChunkList(emptied[i].fa).emptyChunk = NULL
    BY <2>1 DEF TrimChunkList, Reallocate, Stale, PoolOK, FixedAllocatorType, NULL
  <2>5. CASE i <= done
    <3>1. qs[i] = TrimChunkList(emptied[i].fa)
      BY <1>2, <2>5
    <3>2. QED
      BY <2>3, <2>4, <3>1
  <2>6. CASE ~(i <= done)
    <3>1. qs[i] = emptied[i].fa
      BY <1>2, <2>6
    <3>2. QED
      BY <2>1, <3>1
  <2>7. QED
    BY <2>5, <2>6
<1>6. ASSUME NEW i \in Pool
      PROVE  /\ \A a \in h : a \notin emptied[i].heap => a \in AreasOf(ps[i].chunks)
             /\ \A a \in AreasOf(ps[i].chunks) :
                  a \in AreasOf(qs[i].chunks) <=> a \in emptied[i].heap
             /\ AreasOf(qs[i].chunks) \subseteq AreasOf(ps[i].chunks)
             /\ \A a \in h, b \in Block(NumBlocks(i)) :
                  a \notin emptied[i].heap => <<a, b>> \notin DOMAIN lv
  <2>1. ReleaseOK(ps[i], NumBlocks(i), DOMAIN lv, h, emptied[i])
    BY <1>4
  <2>2. AreasOf(ps[i].chunks) \subseteq h /\ qs[i].chunks = emptied[i].fa.chunks
    BY <1>1, <1>5 DEF Owned
  <2>3. QED
    BY <2>1, <2>2 DEF ReleaseOK
<1>7. ASSUME NEW i \in Pool
      PROVE  AreasOf(qs[i].chunks) = AreasOf(ps[i].chunks) \ R
  <2>1. AreasOf(ps[i].chunks) \subseteq h
    BY <1>1 DEF Owned
  <2>2. ASSUME NEW a \in AreasOf(ps[i].chunks), NEW j \in Pool, a \notin emptied[j].heap
        PROVE  a \notin emptied[i].heap
    <3>1. a \in AreasOf(ps[j].chunks)
      BY <1>6, <2>1, <2>2
    <3>2. j = i
      BY <1>1, <3>1 DEF Owned
    <3>3. QED
      BY <2>2, <3>2
  <2>3. \A a \in AreasOf(ps[i].chunks) : a \in R <=> a \notin emptied[i].heap
    BY <2>1, <2>2
  <2>4. QED
    BY <1>6, <2>3
<1>8. ASSUME NEW p \in DOMAIN lv, p[1] \in R PROVE FALSE
  <2>1. PICK i \in Pool : p[1] \notin emptied[i].heap /\ p[1] \in h
    BY <1>8
  <2>2. p[1] \in AreasOf(ps[i].chunks) /\ \A b \in Block(NumBlocks(i)) : <<p[1], b>> \notin DOMAIN lv
    BY <1>6, <2>1
  <2>3. QED
    BY <1>1, <2>2, ReleasedUnheld
<1> HIDE DEF R
<1>9. Owned(qs, h \ R, lv)
  BY <1>1, <1>7, <1>8, ReleaseAreas
<1>10. qs = [i \in Pool |-> qs[i]]
  BY <1>2
<1>11. Good(qs, h2, lv)
  BY <1>1, <1>3, <1>5, <1>9, <1>10 DEF Good
<1>12. QED
  BY <1>5, <1>11 DEF qs, h2

(* DefaultAllocator: an area of its own for a large request. *)
LEMMA AllocateLargeStep ==
  ASSUME NEW ps, NEW h, NEW lv, Good(ps, h, lv), NEW m \in Addr, m \notin h,
         NEW s \in Sizes, ~IsSmall(s)
  PROVE  Good(ps, h \cup {m}, Given(lv, <<m, 0>>, s))
<1> DEFINE p == <<m, 0>>
           lv2 == Given(lv, p, s)
           h2 == h \cup {m}
<1>1. /\ LiveType(lv) /\ Owned(ps, h, lv) /\ h2 \in SUBSET Addr
      /\ \A i \in Pool : PoolOK(ps[i], NumBlocks(i), DOMAIN lv)
      /\ ps = [i \in Pool |-> ps[i]]
  BY DEF Good
<1>2. /\ \A i \in Pool : m \notin AreasOf(ps[i].chunks)
      /\ \A b : <<m, b>> \notin DOMAIN lv
  BY <1>1, FreshArea
<1>3. /\ DOMAIN lv2 = DOMAIN lv \cup {p} /\ lv2[p] = s
      /\ \A q \in DOMAIN lv : q # p /\ lv2[q] = lv[q]
  BY <1>2 DEF Given
<1>4. LiveType(lv2)
  <2>1. p \in Addr \X Block(UCHAR_MAX)
    BY DEF Block, UCHAR_MAX
  <2>2. \A q \in DOMAIN lv : lv[q] \in Sizes
    BY <1>1 DEF LiveType
  <2>3. lv2 \in [DOMAIN lv2 -> Sizes]
    BY <1>3, <2>2 DEF Given
  <2>4. QED
    BY <1>1, <1>3, <2>1, <2>3 DEF LiveType
<1>5. p[1] = m /\ p[2] = 0
  OBVIOUS
<1> HIDE DEF lv2, p
<1>6. ASSUME NEW q \in DOMAIN lv2
      PROVE  IF Small(lv2, q)
             THEN /\ q[1] \in AreasOf(ps[PoolOf(lv2[q])].chunks)
                  /\ q[2] \in Block(NumBlocks(PoolOf(lv2[q])))
             ELSE /\ q[1] \in h2 /\ q[2] = 0
                  /\ \A i \in Pool : q[1] \notin AreasOf(ps[i].chunks)
  <2>1. CASE q = p
    BY <1>2, <1>3, <1>5, <2>1 DEF Small
  <2>2. CASE q \in DOMAIN lv
    BY <1>1, <1>3, <2>2 DEF Small, Owned
  <2>3. QED
    BY <1>3, <2>1, <2>2
<1>7. ASSUME NEW a \in h2
      PROVE  \/ \E i \in Pool : a \in AreasOf(ps[i].chunks)
             \/ \E q \in DOMAIN lv2 : ~Small(lv2, q) /\ q[1] = a
  <2>1. CASE a = m
    BY <1>3, <1>5, <2>1 DEF Small
  <2>2. CASE a \in h
    BY <1>1, <1>3, <2>2 DEF Small, Owned
  <2>3. QED
    BY <2>1, <2>2
<1>8. Owned(ps, h2, lv2)
  BY <1>1, <1>6, <1>7 DEF Owned
<1>9. ASSUME NEW i \in Pool PROVE PoolOK(ps[i], NumBlocks(i), DOMAIN lv2)
  <2>1. \A a \in AreasOf(ps[i].chunks), b \in Block(NumBlocks(i)) :
          <<a, b>> \in DOMAIN lv <=> <<a, b>> \in DOMAIN lv2
    BY <1>2, <1>3 DEF p
  <2>2. QED
    BY <1>1, <2>1, HeldElsewhere
<1>10. Good(ps, h2, lv2)
  BY <1>1, <1>4, <1>8, <1>9 DEF Good
<1>11. QED
  BY <1>10 DEF lv2, p

(* DefaultDeallocator: the area of a large block goes back. *)
LEMMA DeallocateLargeStep ==
  ASSUME NEW ps, NEW h, NEW lv, Good(ps, h, lv), NEW p \in DOMAIN lv, ~Small(lv, p)
  PROVE  Good(ps, h \ {p[1]}, Taken(lv, p))
<1> DEFINE lv2 == Taken(lv, p)
           h2 == h \ {p[1]}
<1>1. /\ LiveType(lv) /\ Owned(ps, h, lv) /\ h2 \in SUBSET Addr
      /\ \A i \in Pool : PoolOK(ps[i], NumBlocks(i), DOMAIN lv)
      /\ ps = [i \in Pool |-> ps[i]]
  BY DEF Good
<1>2. /\ LiveType(lv2) /\ DOMAIN lv2 = DOMAIN lv \ {p}
      /\ \A q \in DOMAIN lv2 : lv2[q] = lv[q]
  BY <1>1, TakenOK DEF Taken
<1>3. /\ p[2] = 0 /\ p = <<p[1], p[2]>>
      /\ \A i \in Pool : p[1] \notin AreasOf(ps[i].chunks)
  <2>1. p = <<p[1], p[2]>>
    BY <1>1, BlockArea
  <2>2. p[2] = 0 /\ \A i \in Pool : p[1] \notin AreasOf(ps[i].chunks)
    BY <1>1 DEF Owned
  <2>3. QED
    BY <2>1, <2>2
<1> HIDE DEF lv2
<1>4. ASSUME NEW q \in DOMAIN lv2, ~Small(lv2, q)
      PROVE  /\ q[1] \in h2 /\ q[2] = 0
             /\ \A i \in Pool : q[1] \notin AreasOf(ps[i].chunks)
  <2>1. q \in DOMAIN lv /\ q # p /\ ~Small(lv, q)
    BY <1>2, <1>4 DEF Small
  <2>2. /\ q[1] \in h /\ q[2] = 0
        /\ \A i \in Pool : q[1] \notin AreasOf(ps[i].chunks)
    BY <1>1, <2>1 DEF Owned
  <2>3. q = <<q[1], q[2]>>
    BY <1>1, <2>1, BlockArea
  <2>4. QED
    BY <1>3, <2>1, <2>2, <2>3
<1>5. ASSUME NEW q \in DOMAIN lv2, Small(lv2, q)
      PROVE  /\ q[1] \in AreasOf(ps[PoolOf(lv2[q])].chunks)
             /\ q[2] \in Block(NumBlocks(PoolOf(lv2[q])))
  BY <1>1, <1>2, <1>5 DEF Small, Owned
<1>6. ASSUME NEW a \in h2
      PROVE  \/ \E i \in Pool : a \in AreasOf(ps[i].chunks)
             \/ \E q \in DOMAIN lv2 : ~Small(lv2, q) /\ q[1] = a
  BY <1>1, <1>2 DEF Small, Owned
<1>7. \A i \in Pool : AreasOf(ps[i].chunks) \subseteq h2
  BY <1>1, <1>3 DEF Owned
<1>8. Owned(ps, h2, lv2)
  BY <1>1, <1>4, <1>5, <1>6, <1>7 DEF Owned
<1>9. ASSUME NEW i \in Pool PROVE PoolOK(ps[i], NumBlocks(i), DOMAIN lv2)
  <2>1. \A a \in AreasOf(ps[i].chunks), b \in Block(NumBlocks(i)) :
          <<a, b>> \in DOMAIN lv <=> <<a, b>> \in DOMAIN lv2
    BY <1>2, <1>3
  <2>2. QED
    BY <1>1, <2>1, HeldElsewhere
<1>10. Good(ps, h2, lv2)
  BY <1>1, <1>2, <1>8, <1>9 DEF Good
<1>11. QED
  BY <1>10 DEF lv2
-----------------------------------------------------------------------------
(* The invariant is inductive *)

IInv ==
  /\ Good(pool, heap, live)
  /\ trimmed \in BOOLEAN
  /\ thrown \in BOOLEAN
  /\ undefined \in BOOLEAN

(* FixedAllocator::Allocate on pool i, with any answer of the memory system. *)
LEMMA PoolAllocates ==
  ASSUME NEW ps, NEW h, NEW lv, Good(ps, h, lv), NEW i \in Pool,
         NEW m \in MemoryAnswer(h), AllocateDefined(ps[i])
  PROVE  /\ m \in Addr => m \notin h
         /\ AllocateOK(ps[i], NumBlocks(i), DOMAIN lv, h, m, FixedAllocate(ps[i], h, m))
<1>1. m \in Addr => m \notin h
  BY EnvironmentAssumption DEF MemoryAnswer
<1>2. m \in Addr => /\ m \notin AreasOf(ps[i].chunks)
                    /\ \A b \in Block(NumBlocks(i)) : <<m, b>> \notin DOMAIN lv
  BY <1>1, FreshArea DEF Good
<1>3. PoolOK(ps[i], NumBlocks(i), DOMAIN lv) /\ NumBlocks(i) \in 1 .. UCHAR_MAX
  BY NumBlocksType DEF Good
<1>4. AllocateOK(ps[i], NumBlocks(i), DOMAIN lv, h, m, FixedAllocate(ps[i], h, m))
  BY <1>2, <1>3, FixedAllocateOK, EnvironmentAssumption
<1>5. QED
  BY <1>1, <1>4

(* The first attempt of SmallObjAllocator::Allocate, when it fails. *)
LEMMA FirstTryFails ==
  ASSUME IInv, NEW i \in Pool, NEW m \in MemoryAnswer(heap), AllocateDefined(pool[i]),
         FirstTry(i, m).place = NoBlock
  PROVE  Good(Tried(i, m), heap, live)
<1> DEFINE r == FirstTry(i, m)
<1>1. Good(pool, heap, live)
  BY DEF IInv
<1>2. /\ m \in Addr => m \notin heap
      /\ AllocateOK(pool[i], NumBlocks(i), DOMAIN live, heap, m, r)
  BY <1>1, PoolAllocates DEF FirstTry
<1> HIDE DEF r
<1>3. Good([pool EXCEPT ![i] = r.fa], r.heap, live)
  <2>1. r.place = NoBlock
    BY DEF r
  <2>2. QED
    BY <1>1, <1>2, <2>1, AllocateStep
<1>4. r.heap = heap
  BY <1>2 DEF AllocateOK, r
<1>5. QED
  BY <1>3, <1>4 DEF r, Tried

LEMMA TriedGood ==
  ASSUME IInv, NEW s \in Sizes, NEW m \in MemoryAnswer(heap), FirstTryFailed(s, m)
  PROVE  /\ PoolOf(s) \in Pool
         /\ AllocateDefined(pool[PoolOf(s)])
         /\ FirstTry(PoolOf(s), m).place = NoBlock
         /\ Good(Tried(PoolOf(s), m), heap, live)
<1>1. /\ IsSmall(s) /\ AllocateDefined(pool[PoolOf(s)])
      /\ FirstTry(PoolOf(s), m).place = NoBlock
  BY DEF FirstTryFailed
<1>2. PoolOf(s) \in Pool
  BY <1>1, PoolOfSmall, SizesAssumption
<1>3. QED
  BY <1>1, <1>2, FirstTryFails

(* Pools are numbered from 1 to allocCount. *)
LEMMA PoolNumbers == allocCount \in Int /\ \A k \in Pool : k - 1 \in Int /\ k <= allocCount
<1>1. /\ MaxSmallObjectSize + AlignSize - 1 \in Nat
      /\ AlignSize \in Nat \ {0}
  BY SizesAssumption
<1>2. allocCount \in Int
  BY <1>1 DEF allocCount, GetOffset
<1>3. QED
  BY <1>2 DEF Pool

(* If TrimExcessMemory finds nothing, it leaves everything as it is. *)
LEMMA TrimFindsNothing ==
  ASSUME NEW ps, NEW h, ps = [i \in Pool |-> ps[i]], ~Trim(ps, h, allocCount).found
  PROVE  /\ Trim(ps, h, allocCount).pool = ps
         /\ Trim(ps, h, allocCount).heap = h
         /\ \A i \in Pool : Back(ps[i]) = ps[i].capacity
<1> DEFINE emptied == [i \in Pool |-> TrimEmptyChunk(ps[i], h)]
<1>1. ASSUME NEW i \in Pool
      PROVE  ps[i].emptyChunk = NULL /\ Back(emptied[i].fa) = emptied[i].fa.capacity
  BY PoolNumbers DEF Trim
<1>2. \A i \in Pool : emptied[i].fa = ps[i] /\ emptied[i].heap = h
  BY <1>1 DEF TrimEmptyChunk
<1> HIDE DEF emptied
<1>3. \A i \in Pool : Back(ps[i]) = ps[i].capacity /\ TrimChunkList(emptied[i].fa) = ps[i]
  BY <1>1, <1>2 DEF TrimChunkList
<1>4. /\ Trim(ps, h, allocCount).pool
           = [i \in Pool |-> IF i <= allocCount THEN TrimChunkList(emptied[i].fa) ELSE emptied[i].fa]
      /\ Trim(ps, h, allocCount).heap = {a \in h : \A i \in Pool : a \in emptied[i].heap}
  BY DEF Trim, emptied
<1>5. Trim(ps, h, allocCount).heap = h
  BY <1>2, <1>4
<1>6. Trim(ps, h, allocCount).pool = [i \in Pool |-> ps[i]]
  BY <1>2, <1>3, <1>4
<1>7. QED
  BY <1>3, <1>5, <1>6

(* A first attempt that fails changes its pool only by a reserve, which then *)
(* leaves excess capacity for the trim to find.                             *)
LEMMA NothingTried ==
  ASSUME IInv, NEW i \in Pool, NEW m \in MemoryAnswer(heap), AllocateDefined(pool[i]),
         FirstTry(i, m).place = NoBlock, ~AfterTrim(i, m).found
  PROVE  AfterTrim(i, m).pool = pool /\ AfterTrim(i, m).heap = heap
<1> DEFINE fa == pool[i]
           r == FirstTry(i, m)
           ps == Tried(i, m)
<1>1. /\ Good(pool, heap, live) /\ pool = [j \in Pool |-> pool[j]]
      /\ fa \in FixedAllocatorType(NumBlocks(i)) /\ Len(fa.chunks) \in Nat
  <2>1. Good(pool, heap, live) /\ PoolOK(fa, NumBlocks(i), DOMAIN live)
    BY DEF IInv, Good
  <2>2. Len(fa.chunks) \in Nat
    BY <2>1, LenProperties DEF PoolOK, ChunksOK
  <2>3. QED
    BY <2>1, <2>2 DEF Good, PoolOK
<1>2. ps = [j \in Pool |-> ps[j]] /\ ps[i] = r.fa
      /\ \A j \in Pool : j # i => ps[j] = pool[j]
  BY <1>1 DEF Tried
<1>3. /\ AfterTrim(i, m).pool = ps /\ AfterTrim(i, m).heap = heap
      /\ Back(r.fa) = r.fa.capacity
  <2>1. ~Trim(ps, heap, allocCount).found
    BY DEF AfterTrim
  <2> HIDE DEF ps
  <2>2. /\ Trim(ps, heap, allocCount).pool = ps /\ Trim(ps, heap, allocCount).heap = heap
        /\ \A j \in Pool : Back(ps[j]) = ps[j].capacity
    BY <1>2, <2>1, TrimFindsNothing
  <2>3. QED
    BY <1>2, <2>2 DEF AfterTrim, ps
<1>4. r.fa = AttachChunk(fa, m).fa /\ ~AttachChunk(fa, m).ok
  BY DEF FirstTry, FixedAllocate, NoBlock, Place
<1>5. AttachChunk(fa, m) = MakeNewChunk(fa, m)
  BY <1>4 DEF AttachChunk
<1>6. r.fa = fa
  <2> DEFINE size == 2 * (IF Back(fa) = 0 THEN MinReserve ELSE Back(fa))
             reserved == IF fa.capacity = Back(fa) THEN Reallocate(fa, size) ELSE fa
  <2>1. r.fa = fa \/ r.fa = reserved
    BY <1>4, <1>5 DEF MakeNewChunk
  <2>2. size \in Nat /\ size # Back(fa)
    BY <1>1, MinReserveAssumption DEF Back
  <2>3. Reallocate(fa, size).capacity = size /\ Reallocate(fa, size).chunks = fa.chunks
    <3> HIDE DEF size
    <3>1. QED
      BY <1>1 DEF Reallocate, FixedAllocatorType
  <2>4. r.fa = Reallocate(fa, size) => FALSE
    <3> HIDE DEF size
    <3>1. QED
      BY <1>3, <2>2, <2>3 DEF Back
  <2>5. QED
    BY <2>1, <2>4
<1>7. ps = pool
  BY <1>1, <1>2, <1>6
<1>8. QED
  BY <1>3, <1>7

(* Whatever trimming leaves is good, and no pool has an empty chunk. *)
LEMMA TrimLeavesGood ==
  ASSUME NEW ps, Good(ps, heap, live), NEW done \in Int, trimmed \in BOOLEAN,
         TrimLeaves(Trim(ps, heap, done))
  PROVE  /\ Good(pool', heap', live) /\ trimmed' \in BOOLEAN
         /\ \A i \in Pool : pool'[i].emptyChunk = NULL
<1>1. /\ Good(Trim(ps, heap, done).pool, Trim(ps, heap, done).heap, live)
      /\ \A i \in Pool : Trim(ps, heap, done).pool[i].emptyChunk = NULL
  BY TrimStep
<1>2. QED
  BY <1>1 DEF TrimLeaves

(* ClearExtraMemory, whether it returns or throws. *)
LEMMA ClearLeavesGood ==
  ASSUME IInv, ClearExtraMemory
  PROVE  /\ Good(pool', heap', live) /\ trimmed' \in BOOLEAN /\ thrown' \in BOOLEAN
         /\ \A i \in Pool : pool'[i].emptyChunk = NULL
<1>1. Good(pool, heap, live) /\ trimmed \in BOOLEAN /\ thrown \in BOOLEAN
  BY DEF IInv
<1>2. PICK done \in Int : TrimLeaves(Trim(pool, heap, done))
  <2>1. CASE TrimLeaves(Trim(pool, heap, allocCount))
    BY <2>1, PoolNumbers
  <2>2. CASE \E k \in MayThrowAt(pool, heap) : TrimLeaves(Trim(pool, heap, k - 1))
    BY <2>2, PoolNumbers DEF MayThrowAt
  <2>3. QED
    BY <2>1, <2>2 DEF ClearExtraMemory
<1>3. thrown' \in BOOLEAN
  BY <1>1 DEF ClearExtraMemory
<1>4. QED
  BY <1>1, <1>2, <1>3, TrimLeavesGood

(* A small block is in a chunk of the pool that its size selects. *)
LEMMA SmallHasOwner ==
  ASSUME NEW ps, NEW h, NEW lv, Good(ps, h, lv), NEW p \in DOMAIN lv, Small(lv, p)
  PROVE  PoolOf(lv[p]) \in Pool /\ OwnersOf(ps[PoolOf(lv[p])], p) # {}
<1>1. PoolOf(lv[p]) \in Pool
  BY BlockArea DEF Good
<1>2. p[1] \in AreasOf(ps[PoolOf(lv[p])].chunks)
  BY DEF Good, Owned
<1>3. QED
  BY <1>1, <1>2 DEF AreasOf, OwnersOf, HasBlock, Back

(* VicinityFind finds that chunk, wherever deallocChunk_ is in the container. *)
LEMMA SizedOwner ==
  ASSUME NEW ps, NEW h, NEW lv, Good(ps, h, lv), NEW p \in DOMAIN lv, Small(lv, p),
         VicinityFindDefined(ps[PoolOf(lv[p])])
  PROVE  /\ PoolOf(lv[p]) \in Pool
         /\ VicinityFind(ps[PoolOf(lv[p])], p) \in OwnersOf(ps[PoolOf(lv[p])], p)
         /\ VicinityFind(ps[PoolOf(lv[p])], p) # NULL
<1> DEFINE fa == ps[PoolOf(lv[p])]
<1>1. PoolOf(lv[p]) \in Pool /\ OwnersOf(fa, p) # {}
  BY SmallHasOwner
<1>2. Len(fa.chunks) \in Nat
  BY <1>1, LenProperties DEF Good, PoolOK, ChunksOK
<1> HIDE DEF fa
<1>3. fa.chunks # <<>>
  BY <1>1 DEF OwnersOf, Back
<1>4. fa.deallocChunk \in Nat
  BY <1>2, <1>3 DEF VicinityFindDefined, Within, Back, fa
<1>5. VicinityFind(fa, p) \in OwnersOf(fa, p)
  BY <1>1, <1>2, <1>4, VicinityFindOK
<1>6. VicinityFind(fa, p) # NULL
  BY <1>5 DEF OwnersOf, NULL, Back
<1>7. QED
  BY <1>1, <1>5, <1>6 DEF fa

LEMMA InitIInv == Init => IInv
<1> SUFFICES ASSUME Init PROVE IInv
  OBVIOUS
<1>1. /\ pool = [i \in Pool |-> NewFixedAllocator(NumBlocks(i))]
      /\ heap = {} /\ DOMAIN live = {} /\ trimmed = FALSE
      /\ thrown = FALSE /\ undefined = FALSE
      /\ live \in [DOMAIN live -> Sizes]
  BY DEF Init
<1>2. ASSUME NEW i \in Pool
      PROVE  PoolOK(pool[i], NumBlocks(i), DOMAIN live) /\ AreasOf(pool[i].chunks) = {}
  <2> DEFINE n == NumBlocks(i)
             fa == pool[i]
  <2>1. /\ fa = [numBlocks |-> n, chunks |-> <<>>, capacity |-> 0,
                 allocChunk |-> NULL, deallocChunk |-> NULL, emptyChunk |-> NULL]
    BY <1>1 DEF NewFixedAllocator
  <2> HIDE DEF fa, n
  <2>2. fa \in FixedAllocatorType(n) /\ fa.chunks = <<>> /\ fa.emptyChunk = NULL
    BY <2>1 DEF FixedAllocatorType, Pointer, NULL
  <2>3. <<>> \in Seq(ChunkType(Addr, n)) /\ Len(<<>>) = 0
    OBVIOUS
  <2>4. PoolOK(fa, n, DOMAIN live)
    BY <2>2, <2>3 DEF PoolOK, ChunksOK, EmptyOK
  <2>5. QED
    BY <2>2, <2>3, <2>4 DEF AreasOf, fa, n
<1>3. pool = [i \in Pool |-> pool[i]]
  BY <1>1
<1>4. LiveType(live)
  BY <1>1 DEF LiveType
<1>5. Owned(pool, heap, live)
  BY <1>1, <1>2 DEF Owned
<1>6. QED
  BY <1>1, <1>2, <1>3, <1>4, <1>5 DEF IInv, Good

LEMMA NextIInv == IInv /\ [Next]_vars => IInv'
<1> SUFFICES ASSUME IInv, [Next]_vars PROVE IInv'
  OBVIOUS
<1> DEFINE Goal == /\ Good(pool', heap', live')
                   /\ trimmed' \in BOOLEAN /\ thrown' \in BOOLEAN /\ undefined' \in BOOLEAN
<1>1. /\ Good(pool, heap, live)
      /\ trimmed \in BOOLEAN /\ thrown \in BOOLEAN /\ undefined \in BOOLEAN
  BY DEF IInv
<1>2. ASSUME NEW s \in Sizes, NEW m \in MemoryAnswer(heap), AllocateSmall(s, m) PROVE Goal
  <2> DEFINE i == PoolOf(s)
             r == FirstTry(i, m)
  <2>1. /\ IsSmall(s) /\ AllocateDefined(pool[i]) /\ r.place # NoBlock
        /\ pool' = [pool EXCEPT ![i] = r.fa] /\ heap' = r.heap
        /\ live' = Given(live, r.place, s)
        /\ trimmed' = trimmed /\ thrown' = thrown /\ undefined' = undefined
    BY <1>2 DEF AllocateSmall, Give, Given
  <2>2. i \in Pool
    BY <2>1, PoolOfSmall, SizesAssumption
  <2>3. /\ m \in Addr => m \notin heap
        /\ AllocateOK(pool[i], NumBlocks(i), DOMAIN live, heap, m, r)
    BY <1>1, <2>1, <2>2, PoolAllocates DEF FirstTry
  <2> HIDE DEF r
  <2>4. Good([pool EXCEPT ![i] = r.fa], r.heap, Given(live, r.place, s))
    BY <1>1, <2>1, <2>2, <2>3, AllocateStep
  <2>5. QED
    BY <1>1, <2>1, <2>4
<1>3. ASSUME NEW s \in Sizes, NEW m \in MemoryAnswer(heap),
             AllocateFails(s, m) \/ AllocateThrows(s, m) \/ AgainUndefined(s, m)
      PROVE  Goal
  <2> DEFINE ps == Tried(PoolOf(s), m)
  <2>1. /\ FirstTryFailed(s, m) /\ live' = live
        /\ thrown' \in BOOLEAN /\ undefined' \in BOOLEAN
    BY <1>1, <1>3 DEF AllocateFails, AllocateThrows, AgainUndefined
  <2>2. Good(ps, heap, live)
    BY <2>1, TriedGood
  <2>3. PICK done \in Int : TrimLeaves(Trim(ps, heap, done))
    <3>1. CASE AllocateFails(s, m) \/ AgainUndefined(s, m)
      BY <3>1, PoolNumbers DEF AllocateFails, AgainUndefined, AfterTrim
    <3>2. CASE AllocateThrows(s, m)
      BY <3>2, PoolNumbers DEF AllocateThrows, MayThrowAt
    <3>3. QED
      BY <1>3, <3>1, <3>2
  <2> HIDE DEF ps
  <2>4. Good(pool', heap', live) /\ trimmed' \in BOOLEAN
    BY <1>1, <2>2, <2>3, TrimLeavesGood
  <2>5. QED
    BY <2>1, <2>4
<1>4. ASSUME NEW s \in Sizes, NEW m \in MemoryAnswer(heap), AllocateAgain(s, m) PROVE Goal
  <2> DEFINE i == PoolOf(s)
             ps == Tried(i, m)
             qs == AfterTrim(i, m).pool
             h == AfterTrim(i, m).heap
  <2>1. /\ FirstTryFailed(s, m) /\ AllocateDefined(qs[i])
        /\ trimmed' = TRUE /\ thrown' = thrown /\ undefined' = undefined
    BY <1>4 DEF AllocateAgain
  <2>2. PICK m2 \in MemoryAnswer(h) :
          LET got == FixedAllocate(qs[i], h, m2) IN
          /\ pool' = [qs EXCEPT ![i] = got.fa]
          /\ heap' = got.heap
          /\ IF got.place = NoBlock THEN live' = live ELSE Give(got.place, s)
    BY <1>4 DEF AllocateAgain
  <2> DEFINE r == FixedAllocate(qs[i], h, m2)
  <2>3. i \in Pool /\ IsSmall(s) /\ Good(ps, heap, live)
    BY <2>1, TriedGood DEF FirstTryFailed
  <2>5. Good(qs, h, live)
    <3> HIDE DEF ps
    <3>1. Good(Trim(ps, heap, allocCount).pool, Trim(ps, heap, allocCount).heap, live)
      BY <2>3, TrimStep, PoolNumbers
    <3>2. QED
      BY <3>1 DEF AfterTrim, ps
  <2> HIDE DEF qs, h
  <2>6. /\ m2 \in Addr => m2 \notin h
        /\ AllocateOK(qs[i], NumBlocks(i), DOMAIN live, h, m2, r)
    BY <2>1, <2>3, <2>5, PoolAllocates
  <2> HIDE DEF r
  <2>7. /\ r.place = NoBlock => Good([qs EXCEPT ![i] = r.fa], r.heap, live)
        /\ r.place # NoBlock => Good([qs EXCEPT ![i] = r.fa], r.heap, Given(live, r.place, s))
    BY <2>3, <2>5, <2>6, AllocateStep
  <2>8. /\ pool' = [qs EXCEPT ![i] = r.fa] /\ heap' = r.heap
        /\ IF r.place = NoBlock THEN live' = live ELSE live' = Given(live, r.place, s)
    BY <2>2 DEF r, Give, Given
  <2>9. QED
    BY <1>1, <2>1, <2>7, <2>8
<1>5. ASSUME GoesUndefined PROVE Goal
  BY <1>1, <1>5 DEF GoesUndefined
<1>6. ASSUME NEW s \in Sizes, NEW m \in MemoryAnswer(heap), AllocateLarge(s, m) PROVE Goal
  <2>1. /\ ~IsSmall(s) /\ m \in Addr /\ heap' = heap \cup {m} /\ pool' = pool
        /\ live' = Given(live, <<m, 0>>, s) /\ trimmed' = trimmed /\ thrown' = thrown /\ undefined' = undefined
    BY <1>6 DEF AllocateLarge, Give, Given
  <2>2. m \notin heap
    BY <2>1, EnvironmentAssumption DEF MemoryAnswer
  <2>3. QED
    BY <1>1, <2>1, <2>2, AllocateLargeStep
<1>7. ASSUME NEW p \in DOMAIN live, NEW i \in Pool, NEW k \in OwnersOf(pool[i], p),
             DeallocateIn(i, k, p)
      PROVE  Goal
  <2> DEFINE r == FixedDeallocate(pool[i], heap, k, p)
  <2>1. /\ pool' = [pool EXCEPT ![i] = r.fa] /\ heap' = r.heap /\ live' = Taken(live, p)
        /\ trimmed' = trimmed /\ thrown' = thrown /\ undefined' = undefined
    BY <1>7 DEF DeallocateIn, TakeBack, Taken
  <2>2. Good([pool EXCEPT ![i] = r.fa], r.heap, Taken(live, p))
    BY <1>1, DeallocateStep
  <2>3. QED
    BY <1>1, <2>1, <2>2
<1>8. ASSUME NEW p \in DOMAIN live, DeallocateSized(p) PROVE Goal
  <2> DEFINE i == PoolOf(live[p])
             k == VicinityFind(pool[i], p)
  <2>1. /\ IsSmall(live[p]) /\ VicinityFindDefined(pool[i])
        /\ IF k = NULL THEN TakeBack(p) /\ UNCHANGED <<pool, heap, trimmed, thrown, undefined>>
           ELSE DeallocateIn(i, k, p)
    BY <1>8 DEF DeallocateSized
  <2>2. i \in Pool /\ k \in OwnersOf(pool[i], p) /\ k # NULL
    BY <1>1, <2>1, SizedOwner DEF Small
  <2>3. QED
    BY <1>7, <2>1, <2>2
<1>9. ASSUME NEW p \in DOMAIN live, DeallocateUnsized(p) PROVE Goal
  <2>1. PICK o \in Owners(p) : DeallocateIn(o[1], o[2], p)
    BY <1>9 DEF DeallocateUnsized
  <2>2. o[1] \in Pool /\ o[2] \in OwnersOf(pool[o[1]], p)
    BY DEF Owners
  <2>3. QED
    BY <1>7, <2>1, <2>2
<1>10. ASSUME NEW p \in DOMAIN live, DeallocateLarge(p) PROVE Goal
  <2>1. /\ ~IsSmall(live[p]) \/ Owners(p) = {}
        /\ heap' = heap \ {p[1]} /\ pool' = pool /\ live' = Taken(live, p)
        /\ trimmed' = trimmed /\ thrown' = thrown /\ undefined' = undefined
    BY <1>10 DEF DeallocateLarge, TakeBack, Taken
  <2>2. ~Small(live, p)
    <3>1. SUFFICES ASSUME IsSmall(live[p]) PROVE Owners(p) # {}
      BY <2>1 DEF Small
    <3>2. PoolOf(live[p]) \in Pool /\ OwnersOf(pool[PoolOf(live[p])], p) # {}
      BY <1>1, <3>1, SmallHasOwner DEF Small
    <3>3. PICK k \in OwnersOf(pool[PoolOf(live[p])], p) : TRUE
      BY <3>2
    <3>4. <<PoolOf(live[p]), k>> \in Owners(p)
      BY <3>2, <3>3 DEF Owners
    <3>5. QED
      BY <3>4
  <2>3. QED
    BY <1>1, <2>1, <2>2, DeallocateLargeStep
<1>11. ASSUME ClearExtraMemory PROVE Goal
  <2>1. live' = live /\ undefined' = undefined
    BY <1>11 DEF ClearExtraMemory
  <2>2. QED
    BY <1>1, <1>11, <2>1, ClearLeavesGood
<1>12. ASSUME UNCHANGED vars PROVE Goal
  BY <1>1, <1>12 DEF vars
<1>13. /\ \A s \in Sizes : AllocateUndefined(s) => GoesUndefined
       /\ \A p \in DOMAIN live : DeallocateSizedUndefined(p) => GoesUndefined
       /\ \A p \in DOMAIN live : DeallocateUnsizedUndefined(p) => GoesUndefined
  BY DEF AllocateUndefined, DeallocateSizedUndefined, DeallocateUnsizedUndefined
<1> HIDE DEF Goal
<1>14. Goal
  BY <1>2, <1>3, <1>4, <1>5, <1>6, <1>8, <1>9, <1>10, <1>11, <1>12, <1>13 DEF Next
<1>15. QED
  BY <1>14 DEF IInv, Goal

(* The inductive invariant holds in every behaviour. *)
THEOREM Invariance == Spec => []IInv
<1>1. QED
  BY InitIInv, NextIInv, PTL DEF Spec
-----------------------------------------------------------------------------
(* What it implies *)

(* The state has its type: no operation leaves a count, an index or a       *)
(* pointer that its field cannot hold.                                      *)
THEOREM TypeCorrect == Spec => []TypeOK
<1>1. IInv => TypeOK
  BY DEF IInv, Good, PoolOK, LiveType, TypeOK
<1>2. QED
  BY <1>1, Invariance, PTL

(* The free list of every chunk holds exactly the blocks no client holds,   *)
(* through every allocation, deallocation, swap, release and trim.          *)
THEOREM FreeListsAreExact == Spec => []FreeListsExact
<1>1. IInv => FreeListsExact
  BY DEF IInv, Good, PoolOK, ChunksOK, FreeListsExact, Back
<1>2. QED
  BY <1>1, Invariance, PTL

(* emptyChunk_ leads to the one empty chunk of its pool, or is NULL if there *)
(* is none, even after the storage of the vector has been released.         *)
THEOREM EmptyChunkIsExact == Spec => []EmptyChunkExact
<1>1. IInv => EmptyChunkExact
  BY DEF IInv, Good, PoolOK, EmptyOK, EmptyChunkExact, Within, Back
<1>2. QED
  BY <1>1, Invariance, PTL

(* Deallocate finds the block of a client in the pool its size selects, from *)
(* wherever deallocChunk_ has come to be in the container.                  *)
THEOREM HeldBlocksAreFound == Spec => []HeldBlockIsFound
<1>1. IInv => HeldBlockIsFound
  BY SizedOwner DEF IInv, HeldBlockIsFound, Small
<1>2. QED
  BY <1>1, Invariance, PTL

(* Every area malloc gave is the memory of one chunk or of one large block. *)
THEOREM HeapIsAccounted == Spec => []HeapAccounted
<1>1. ASSUME IInv PROVE HeapAccounted
  <2> DEFINE chunkPlaces == UNION {{<<i, k>> : k \in 1 .. Back(pool[i])} : i \in Pool}
             AreaOf(o) == pool[o[1]].chunks[o[2]].pData
             large == {p[1] : p \in {q \in DOMAIN live : ~IsSmall(live[q])}}
             small == {AreaOf(o) : o \in chunkPlaces}
  <2>1. Owned(pool, heap, live) /\ \A i \in Pool : ChunksOK(pool[i].chunks, NumBlocks(i), DOMAIN live)
    BY <1>1 DEF IInv, Good, PoolOK
  <2>2. ASSUME NEW o \in chunkPlaces
        PROVE  /\ o[1] \in Pool /\ o[2] \in 1 .. Len(pool[o[1]].chunks) /\ o = <<o[1], o[2]>>
               /\ AreaOf(o) \in AreasOf(pool[o[1]].chunks)
    BY DEF Back, AreasOf
  <2>3. ASSUME NEW i \in Pool, NEW a \in AreasOf(pool[i].chunks) PROVE a \in small
    <3>1. PICK k \in 1 .. Len(pool[i].chunks) : a = pool[i].chunks[k].pData
      BY DEF AreasOf
    <3>2. <<i, k>> \in chunkPlaces /\ a = AreaOf(<<i, k>>)
      BY <3>1 DEF Back
    <3>3. QED
      BY <3>2
  <2>4. \A a \in small : \E i \in Pool : a \in AreasOf(pool[i].chunks)
    BY <2>2
  <2> HIDE DEF chunkPlaces
  <2>5. ASSUME NEW o \in chunkPlaces, NEW o2 \in chunkPlaces, AreaOf(o) = AreaOf(o2)
        PROVE  o = o2
    <3>1. o[1] = o2[1]
      BY <2>1, <2>2, <2>5 DEF Owned
    <3>2. o[2] = o2[2]
      BY <2>1, <2>2, <2>5, <3>1 DEF ChunksOK
    <3>3. QED
      BY <2>2, <3>1, <3>2
  <2> HIDE DEF small, AreaOf
  <2>6. \A a \in large : a \in heap /\ \A i \in Pool : a \notin AreasOf(pool[i].chunks)
    BY <2>1 DEF Owned, Small
  <2>7. small \cap large = {}
    BY <2>4, <2>6
  <2>8. heap = small \cup large
    <3>1. small \subseteq heap
      BY <2>1, <2>4 DEF Owned
    <3>2. ASSUME NEW a \in heap PROVE a \in small \cup large
      BY <2>1, <2>3 DEF Owned, Small
    <3>3. QED
      BY <2>6, <3>1, <3>2
  <2>9. QED
    BY <2>5, <2>7, <2>8 DEF HeapAccounted, chunkPlaces, small, AreaOf
<1>2. QED
  BY <1>1, Invariance, PTL
-----------------------------------------------------------------------------
(***************************************************************************)
(* SmallObjAllocator implements BlockPool.  The memory under a held block   *)
(* is what the block's own size says it is; so it stays what it was for as  *)
(* long as the block is held, whatever a step does to the pools.            *)
(***************************************************************************)

\* BlockBytes, of given pools and blocks.
BytesOf(ps, lv, a) ==
  LET pools == {i \in Pool : a \in Areas(ps[i])}
      large == {p \in DOMAIN lv : p[1] = a /\ ~IsSmall(lv[p])}
  IN IF pools # {} THEN BlockSize(CHOOSE i \in pools : TRUE)
     ELSE IF large # {} THEN lv[CHOOSE p \in large : TRUE]
     ELSE 0

LEMMA BlockBytesIs ==
  \A a : BlockBytes(a) = BytesOf(pool, live, a) /\ BlockBytes(a)' = BytesOf(pool', live', a)
  BY DEF BlockBytes, BytesOf

\* The size in bytes of the blocks in the area of a block of s bytes.
HeldBytes(s) == IF IsSmall(s) THEN BlockSize(PoolOf(s)) ELSE s

(* A block of its pool is big enough for the request. *)
LEMMA BigEnough ==
  ASSUME NEW s \in Nat
  PROVE  s <= HeldBytes(s) /\ HeldBytes(s) # 0
<1>1. CASE ~IsSmall(s)
  BY <1>1, SizesAssumption DEF HeldBytes, IsSmall
<1>2. CASE IsSmall(s)
  <2> DEFINE x == IF s = 0 THEN 1 ELSE s
             a == AlignSize
             u == x + a - 1
             q == u \div a
  <2>1. x \in Nat \ {0} /\ s <= x /\ a \in Nat \ {0}
    BY SizesAssumption
  <2>2. HeldBytes(s) = q * a
    BY <1>2 DEF HeldBytes, BlockSize, PoolOf, GetOffset
  <2> HIDE DEF x, a
  <2>3. u \in Nat
    BY <2>1
  <2> HIDE DEF u
  <2>4. q \in Int /\ u < a * q + a /\ a * q = q * a /\ a * q \in Int
    BY <2>1, <2>3
  <2> HIDE DEF q
  <2>5. x <= a * q
    BY <2>1, <2>3, <2>4 DEF u
  <2>6. QED
    BY <2>1, <2>2, <2>4, <2>5
<1>3. QED
  BY <1>1, <1>2

(* The memory under a held block is cut to the size of its pool's blocks, or *)
(* is all one large block's.                                                *)
LEMMA BytesUnderHeld ==
  ASSUME NEW ps, NEW h, NEW lv, Good(ps, h, lv), NEW p \in DOMAIN lv
  PROVE  BytesOf(ps, lv, p[1]) = HeldBytes(lv[p])
<1> DEFINE a == p[1]
           pools == {i \in Pool : a \in Areas(ps[i])}
           large == {q \in DOMAIN lv : q[1] = a /\ ~IsSmall(lv[q])}
<1>1. LiveType(lv) /\ Owned(ps, h, lv)
  BY DEF Good
<1>2. \A i \in Pool : Areas(ps[i]) = AreasOf(ps[i].chunks)
  BY DEF Areas, AreasOf, Back
<1>3. CASE Small(lv, p)
  <2>1. PoolOf(lv[p]) \in Pool /\ a \in Areas(ps[PoolOf(lv[p])])
    <3>1. PoolOf(lv[p]) \in Pool
      BY <1>1, <1>3, BlockArea
    <3>2. QED
      BY <1>1, <1>2, <1>3, <3>1 DEF Owned
  <2>2. pools = {PoolOf(lv[p])}
    BY <1>1, <1>2, <2>1 DEF Owned
  <2>3. QED
    BY <1>3, <2>2 DEF BytesOf, HeldBytes, Small
<1>4. CASE ~Small(lv, p)
  <2>1. pools = {}
    BY <1>1, <1>2, <1>4 DEF Owned
  <2>2. p \in large
    BY <1>4 DEF Small
  <2>3. ASSUME NEW q \in large PROVE q = p
    <3>1. q[2] = 0 /\ p[2] = 0
      BY <1>1, <1>4 DEF Owned, Small
    <3>2. q = <<q[1], q[2]>> /\ p = <<p[1], p[2]>>
      BY <1>1, BlockArea
    <3>3. QED
      BY <3>1, <3>2
  <2>4. large = {p}
    BY <2>2, <2>3
  <2>5. QED
    BY <1>4, <2>1, <2>4 DEF BytesOf, HeldBytes, Small
<1>5. QED
  BY <1>3, <1>4

-----------------------------------------------------------------------------
(* What a step does to the client's blocks *)

BlocksAfter ==
  \/ live' = live
  \/ \E p, s : p \notin DOMAIN live /\ live' = Given(live, p, s)
  \/ \E p \in DOMAIN live : live' = Taken(live, p)

LEMMA OneBlockAtATime ==
  ASSUME IInv, [Next]_vars
  PROVE  BlocksAfter
<1>1. Good(pool, heap, live)
  BY DEF IInv
<1>2. ASSUME NEW s \in Sizes, NEW m \in MemoryAnswer(heap), AllocateSmall(s, m)
      PROVE  BlocksAfter
  <2> DEFINE i == PoolOf(s)
             r == FirstTry(i, m)
  <2>1. /\ IsSmall(s) /\ AllocateDefined(pool[i]) /\ r.place # NoBlock
        /\ live' = Given(live, r.place, s)
    BY <1>2 DEF AllocateSmall, Give, Given
  <2>2. i \in Pool
    BY <2>1, PoolOfSmall, SizesAssumption
  <2>3. AllocateOK(pool[i], NumBlocks(i), DOMAIN live, heap, m, r)
    BY <1>1, <2>1, <2>2, PoolAllocates DEF FirstTry
  <2> HIDE DEF r
  <2>4. r.place \notin DOMAIN live
    BY <2>1, <2>3 DEF AllocateOK
  <2>5. QED
    BY <2>1, <2>4 DEF BlocksAfter
<1>3. ASSUME NEW s \in Sizes, NEW m \in MemoryAnswer(heap), AllocateAgain(s, m)
      PROVE  BlocksAfter
  <2> DEFINE i == PoolOf(s)
             ps == Tried(i, m)
             qs == AfterTrim(i, m).pool
             h == AfterTrim(i, m).heap
  <2>1. FirstTryFailed(s, m) /\ AllocateDefined(qs[i])
    BY <1>3 DEF AllocateAgain
  <2>2. PICK m2 \in MemoryAnswer(h) :
          LET got == FixedAllocate(qs[i], h, m2) IN
          IF got.place = NoBlock THEN live' = live ELSE Give(got.place, s)
    BY <1>3 DEF AllocateAgain
  <2> DEFINE r == FixedAllocate(qs[i], h, m2)
  <2>3. i \in Pool /\ Good(ps, heap, live)
    BY <2>1, TriedGood
  <2>4. Good(qs, h, live)
    <3> HIDE DEF ps
    <3>2. Good(Trim(ps, heap, allocCount).pool, Trim(ps, heap, allocCount).heap, live)
      BY <2>3, TrimStep, PoolNumbers
    <3>3. QED
      BY <3>2 DEF AfterTrim, ps
  <2> HIDE DEF qs, h
  <2>5. AllocateOK(qs[i], NumBlocks(i), DOMAIN live, h, m2, r)
    BY <2>1, <2>3, <2>4, PoolAllocates
  <2>6. IF r.place = NoBlock THEN live' = live ELSE live' = Given(live, r.place, s)
    BY <2>2 DEF Give, Given
  <2> HIDE DEF r
  <2>7. r.place # NoBlock => r.place \notin DOMAIN live
    BY <2>5 DEF AllocateOK
  <2>8. QED
    BY <2>6, <2>7 DEF BlocksAfter
<1>4. ASSUME NEW s \in Sizes, NEW m \in MemoryAnswer(heap), AllocateLarge(s, m)
      PROVE  BlocksAfter
  <2>1. ~IsSmall(s) /\ m \in Addr /\ live' = Given(live, <<m, 0>>, s)
    BY <1>4 DEF AllocateLarge, Give, Given
  <2>2. m \notin heap
    BY <2>1, EnvironmentAssumption DEF MemoryAnswer
  <2>3. <<m, 0>> \notin DOMAIN live
    BY <1>1, <2>2, FreshArea DEF Good
  <2>4. QED
    BY <2>1, <2>3 DEF BlocksAfter
<1>5. ASSUME NEW p \in DOMAIN live, TakeBack(p) PROVE BlocksAfter
  BY <1>5 DEF TakeBack, Taken, BlocksAfter
<1>6. ASSUME NEW p \in DOMAIN live,
             DeallocateSized(p) \/ DeallocateUnsized(p) \/ DeallocateLarge(p)
      PROVE  BlocksAfter
  <2>1. TakeBack(p)
    BY <1>6 DEF DeallocateSized, DeallocateUnsized, DeallocateLarge, DeallocateIn
  <2>2. QED
    BY <1>5, <2>1
<1>7. ASSUME UNCHANGED live PROVE BlocksAfter
  BY <1>7 DEF BlocksAfter
<1>8. /\ \A s \in Sizes : AllocateUndefined(s) => UNCHANGED live
      /\ \A s \in Sizes, m \in MemoryAnswer(heap) :
           AllocateFails(s, m) \/ AllocateThrows(s, m) \/ AgainUndefined(s, m) => UNCHANGED live
      /\ \A p \in DOMAIN live :
           DeallocateSizedUndefined(p) \/ DeallocateUnsizedUndefined(p) => UNCHANGED live
      /\ ClearExtraMemory => UNCHANGED live
      /\ UNCHANGED vars => UNCHANGED live
  BY DEF AllocateFails, AllocateThrows, AllocateUndefined, AgainUndefined,
         DeallocateSizedUndefined, DeallocateUnsizedUndefined, GoesUndefined,
         ClearExtraMemory, vars
<1>9. QED
  BY <1>2, <1>3, <1>4, <1>6, <1>7, <1>8 DEF Next

-----------------------------------------------------------------------------
(* The refinement *)

AreaMap == [a \in Addr |-> BlockBytes(a)]

LEMMA AreaAfter ==
  ASSUME NEW a \in Addr
  PROVE  /\ AreaMap[a] = BytesOf(pool, live, a)
         /\ AreaMap'[a] = BytesOf(pool', live', a)
  BY BlockBytesIs DEF AreaMap

(* The area of a block that stays held keeps the size it is cut to. *)
LEMMA KeepsHeldAreas ==
  ASSUME IInv, IInv', \A q \in DOMAIN live \cap DOMAIN live' : live'[q] = live[q]
  PROVE  Abstract!HeldAreasKept
<1>1. Good(pool, heap, live) /\ Good(pool', heap', live')
  BY DEF IInv
<1>2. ASSUME NEW q \in DOMAIN live \cap DOMAIN live'
      PROVE  AreaMap'[q[1]] = AreaMap[q[1]]
  <2>1. q[1] \in Addr
    BY <1>1 DEF Good, LiveType
  <2>2. /\ BytesOf(pool, live, q[1]) = HeldBytes(live[q])
        /\ BytesOf(pool', live', q[1]) = HeldBytes(live'[q])
    BY <1>1, BytesUnderHeld
  <2>3. QED
    BY <2>1, <2>2, AreaAfter
<1>3. AreaMap' = [a \in Addr |-> AreaMap'[a]]
  BY DEF AreaMap
<1>4. QED
  BY <1>2, <1>3 DEF Abstract!HeldAreasKept, AreaMap

LEMMA StepRefines ==
  ASSUME IInv, IInv', BlocksAfter
  PROVE  Abstract!Next
<1>1. Good(pool, heap, live) /\ Good(pool', heap', live')
  BY DEF IInv
<1>2. CASE live' = live
  <2>1. Abstract!HeldAreasKept
    BY <1>2, KeepsHeldAreas
  <2>2. QED
    BY <1>2, <2>1 DEF Abstract!Next, Abstract!Reorganize
<1>3. ASSUME NEW p, NEW s, p \notin DOMAIN live, live' = Given(live, p, s)
      PROVE  Abstract!Next
  <2>1. /\ DOMAIN live' = DOMAIN live \cup {p} /\ live'[p] = s
        /\ \A q \in DOMAIN live : live'[q] = live[q]
    BY <1>3 DEF Given
  <2>2. p[1] \in Addr /\ live'[p] \in Nat
    BY <1>1, <2>1, SizesAssumption DEF Good, LiveType
  <2>3. BytesOf(pool', live', p[1]) = HeldBytes(live'[p])
    BY <1>1, <2>1, BytesUnderHeld
  <2>4. AreaMap'[p[1]] # 0 /\ live'[p] <= AreaMap'[p[1]]
    BY <2>2, <2>3, AreaAfter, BigEnough
  <2>5. Abstract!HeldAreasKept
    BY <2>1, KeepsHeldAreas
  <2>6. Abstract!Allocate(p)
    BY <1>3, <2>1, <2>2, <2>4, <2>5 DEF Abstract!Allocate, AreaMap
  <2>7. QED
    BY <2>1, <2>6 DEF Abstract!Next
<1>4. ASSUME NEW p \in DOMAIN live, live' = Taken(live, p)
      PROVE  Abstract!Next
  <2>1. Abstract!HeldAreasKept
    BY <1>4, KeepsHeldAreas DEF Taken
  <2>2. Abstract!Deallocate(p)
    BY <1>4, <2>1 DEF Abstract!Deallocate, Taken
  <2>3. QED
    BY <2>2 DEF Abstract!Next
<1>5. QED
  BY <1>2, <1>3, <1>4 DEF BlocksAfter

LEMMA InitRefines == Init => Abstract!Init
<1> SUFFICES ASSUME Init PROVE Abstract!Init
  OBVIOUS
<1>1. live = <<>> /\ DOMAIN live = {}
  BY DEF Init
<1>2. \A i \in Pool : Areas(pool[i]) = {}
  BY DEF Init, NewFixedAllocator, Areas, Back
<1>3. \A a \in Addr : BlockBytes(a) = 0
  BY <1>1, <1>2 DEF BlockBytes
<1>4. QED
  BY <1>1, <1>3 DEF Abstract!Init

(* Every operation of the allocator is one of BlockPool's: a block handed    *)
(* out is one nobody held and is big enough, and the memory under a held     *)
(* block is not released, moved or recut by growing, swapping or trimming.   *)
THEOREM AllocatorImplementsBlockPool == Spec => ImplementsBlockPool
<1>1. Init => Abstract!Init
  BY InitRefines
<1>2. IInv /\ IInv' /\ [Next]_vars => [Abstract!Next]_<<AreaMap, live>>
  BY OneBlockAtATime, StepRefines
<1>3. QED
  BY Invariance, <1>1, <1>2, PTL DEF Spec, ImplementsBlockPool, Abstract!Spec, AreaMap
-----------------------------------------------------------------------------
(* Trimming *)

(* A chunk whose every block is free has n blocks on its list. *)
LEMMA EveryBlockListed ==
  ASSUME NEW c, NEW n \in 1 .. UCHAR_MAX, c.blocksAvailable \in 0 .. n,
         FreeListIs(c, n, Block(n))
  PROVE  c.blocksAvailable = n
<1> DEFINE k == c.blocksAvailable
<1>1. PICK order \in [1 .. k -> Block(n)] :
        /\ IsFreeList(c, order)
        /\ Block(n) = {order[i] : i \in 1 .. k}
  BY DEF FreeListIs
<1>2. order \in Bijection(1 .. k, Block(n))
  BY <1>1 DEF IsFreeList, Bijection, Injection, IsInjective, Surjection
<1>3. Cardinality(Block(n)) = n
  BY FS_Interval DEF Block, UCHAR_MAX
<1>4. IsFiniteSet(1 .. k) /\ Cardinality(1 .. k) = k
  BY FS_Interval DEF UCHAR_MAX
<1>5. Cardinality(Block(n)) = Cardinality(1 .. k)
  BY <1>2, <1>4, FS_Bijection DEF ExistsBijection
<1>6. QED
  BY <1>3, <1>4, <1>5

(* Without an empty chunk, a client holds a block in every area in use. *)
LEMMA NoEmptyAllHeld ==
  ASSUME NEW ps, NEW h, NEW lv, Good(ps, h, lv), \A i \in Pool : ps[i].emptyChunk = NULL,
         NEW a \in h
  PROVE  \E p \in DOMAIN lv : p[1] = a
<1>1. CASE \E p \in DOMAIN lv : ~Small(lv, p) /\ p[1] = a
  BY <1>1
<1>2. CASE \E i \in Pool : a \in AreasOf(ps[i].chunks)
  <2>1. PICK i \in Pool : a \in AreasOf(ps[i].chunks)
    BY <1>2
  <2> DEFINE n == NumBlocks(i)
             cs == ps[i].chunks
  <2>2. PICK k \in 1 .. Len(cs) : a = cs[k].pData
    BY <2>1 DEF AreasOf
  <2>3. n \in 1 .. UCHAR_MAX
    BY NumBlocksType
  <2>4. ChunksOK(cs, n, DOMAIN lv) /\ EmptyOK(cs, n, NULL)
    BY DEF Good, PoolOK
  <2> HIDE DEF cs, n
  <2>5. cs[k] \in ChunkType(Addr, n) /\ ~HasAvailable(cs[k], n)
    BY <2>4, ElementOfSeq DEF ChunksOK, EmptyOK, NULL
  <2>6. cs[k].blocksAvailable \in 0 .. n /\ cs[k].blocksAvailable # n
    BY <2>5 DEF ChunkType, HasAvailable
  <2>7. FreeListIs(cs[k], n, Unheld(cs[k], n, DOMAIN lv))
    BY <2>4 DEF ChunksOK
  <2>8. Unheld(cs[k], n, DOMAIN lv) # Block(n)
    BY <2>3, <2>6, <2>7, EveryBlockListed
  <2>9. PICK b \in Block(n) : <<a, b>> \in DOMAIN lv
    BY <2>2, <2>8 DEF Unheld
  <2>10. QED
    BY <2>9
<1>3. QED
  BY <1>1, <1>2 DEF Good, Owned

(* ClearExtraMemory gives back every area in which no client holds a block, *)
(* even if it throws while it trims the lists: the one chunk a pool may keep *)
(* empty is the one emptyChunk_ leads to, and all of those are released     *)
(* before the first list is copied.                                         *)
THEOREM ClearingReleasesUnused == Spec => ClearReleasesUnused
<1>1. IInv /\ [Next]_vars =>
        [ClearExtraMemory => \A a \in heap' : \E p \in DOMAIN live' : p[1] = a]_vars
  <2>1. SUFFICES ASSUME IInv, ClearExtraMemory, NEW a \in heap'
                 PROVE  \E p \in DOMAIN live' : p[1] = a
    OBVIOUS
  <2>2. live' = live
    BY <2>1 DEF ClearExtraMemory
  <2>3. Good(pool', heap', live) /\ \A i \in Pool : pool'[i].emptyChunk = NULL
    BY <2>1, ClearLeavesGood
  <2>4. QED
    BY <2>1, <2>2, <2>3, NoEmptyAllHeld
<1>2. QED
  BY Invariance, <1>1, PTL DEF Spec, ClearReleasesUnused
-----------------------------------------------------------------------------
(* Until memory is first trimmed *)

\* No trim has changed a pool or thrown.
Untrimmed == ~trimmed /\ ~thrown

\* allocChunk_ and deallocChunk_ of every pool lead into its container.
Tracked == Untrimmed => ~undefined /\ \A i \in Pool : PointersOK(pool[i])

\* What the operations read through the pointers of fa is in the container.
ReadsDefined(fa) ==
  /\ AllocateDefined(fa) /\ VicinityFindDefined(fa)
  /\ \A k \in 1 .. Back(fa) : DoDeallocateDefined(fa, k)

LEMMA PointersReadable ==
  ASSUME NEW fa, PointersOK(fa)
  PROVE  ReadsDefined(fa)
BY DEF PointersOK, ReadsDefined, AllocateDefined, VicinityFindDefined, DoDeallocateDefined,
       Within, Back

LEMMA FirstOwnerPlace ==
  ASSUME NEW p, NEW o \in Owners(p)
  PROVE  o[1] \in Pool /\ o[2] \in OwnersOf(pool[o[1]], p) /\ o[2] \in 1 .. Back(pool[o[1]])
BY DEF Owners, OwnersOf

(* Until then, no step becomes undefined. *)
LEMMA NoUndefinedStep ==
  ASSUME IInv, Tracked, Untrimmed
  PROVE  /\ \A s \in Sizes : ~AllocateUndefined(s)
         /\ \A p \in DOMAIN live : ~DeallocateSizedUndefined(p) /\ ~DeallocateUnsizedUndefined(p)
<1>1. \A i \in Pool : ReadsDefined(pool[i])
  BY PointersReadable DEF Tracked
<1>2. Good(pool, heap, live)
  BY DEF IInv
<1>3. ASSUME NEW s \in Sizes, AllocateUndefined(s) PROVE FALSE
  <2>1. PoolOf(s) \in Pool
    BY <1>3, PoolOfSmall, SizesAssumption DEF AllocateUndefined
  <2>2. QED
    BY <1>1, <1>3, <2>1 DEF AllocateUndefined, ReadsDefined
<1>4. ASSUME NEW p \in DOMAIN live, DeallocateSizedUndefined(p) PROVE FALSE
  <2> DEFINE fa == pool[PoolOf(live[p])]
  <2>1. /\ Small(live, p)
        /\ \/ ~VicinityFindDefined(fa)
           \/ ~DoDeallocateDefined(fa, VicinityFind(fa, p))
    BY <1>4 DEF DeallocateSizedUndefined, Small
  <2>2. PoolOf(live[p]) \in Pool
    BY <1>2, <2>1, SmallHasOwner
  <2>3. VicinityFindDefined(fa)
    BY <1>1, <2>2 DEF ReadsDefined
  <2>4. VicinityFind(fa, p) \in OwnersOf(fa, p)
    BY <1>2, <2>1, <2>3, SizedOwner
  <2>5. VicinityFind(fa, p) \in 1 .. Back(fa)
    BY <2>4 DEF OwnersOf
  <2>6. QED
    BY <1>1, <2>1, <2>2, <2>3, <2>5 DEF ReadsDefined
<1>5. ASSUME NEW p \in DOMAIN live, DeallocateUnsizedUndefined(p) PROVE FALSE
  <2>1. PICK o \in Owners(p) : ~DoDeallocateDefined(pool[o[1]], o[2])
    BY <1>5 DEF DeallocateUnsizedUndefined
  <2>2. o[1] \in Pool /\ o[2] \in 1 .. Back(pool[o[1]])
    BY FirstOwnerPlace
  <2>3. QED
    BY <1>1, <2>1, <2>2 DEF ReadsDefined
<1>6. QED
  BY <1>3, <1>4, <1>5

LEMMA NextTracked ==
  ASSUME IInv, Tracked, [Next]_vars
  PROVE  Tracked'
<1>1. Good(pool, heap, live)
  BY DEF IInv
<1>2. ASSUME NEW s \in Sizes, NEW m \in MemoryAnswer(heap), AllocateSmall(s, m)
      PROVE  Tracked'
  <2> DEFINE i == PoolOf(s)
             r == FirstTry(i, m)
  <2>1. /\ IsSmall(s) /\ AllocateDefined(pool[i]) /\ r.place # NoBlock
        /\ pool' = [pool EXCEPT ![i] = r.fa]
        /\ trimmed' = trimmed /\ thrown' = thrown /\ undefined' = undefined
    BY <1>2 DEF AllocateSmall
  <2>2. i \in Pool
    BY <2>1, PoolOfSmall, SizesAssumption
  <2>3. ASSUME Untrimmed PROVE PointersOK(r.fa)
    <3>1. PoolOK(pool[i], NumBlocks(i), DOMAIN live) /\ NumBlocks(i) \in 1 .. UCHAR_MAX
      BY <1>1, <2>2, NumBlocksType DEF Good
    <3>2. PointersOK(pool[i])
      BY <2>2, <2>3 DEF Tracked
    <3>3. ReserveThrows \notin Addr /\ FixedAllocate(pool[i], heap, m).place # NoBlock
      BY <2>1, EnvironmentAssumption DEF FirstTry
    <3>4. PointersOK(FixedAllocate(pool[i], heap, m).fa)
      BY <3>1, <3>2, <3>3, AllocateKeepsPointers
    <3>5. QED
      BY <3>4 DEF FirstTry
  <2> HIDE DEF r
  <2>4. \A j \in Pool : pool'[j] = IF j = i THEN r.fa ELSE pool[j]
    BY <1>1, <2>1, <2>2 DEF Good
  <2>5. QED
    BY <2>1, <2>3, <2>4 DEF Tracked, Untrimmed
<1>3. ASSUME NEW p \in DOMAIN live, NEW i \in Pool, NEW k \in OwnersOf(pool[i], p),
             DeallocateIn(i, k, p)
      PROVE  Tracked'
  <2> DEFINE r == FixedDeallocate(pool[i], heap, k, p)
             n == NumBlocks(i)
  <2>1. /\ pool' = [pool EXCEPT ![i] = r.fa]
        /\ trimmed' = trimmed /\ thrown' = thrown /\ undefined' = undefined
    BY <1>3 DEF DeallocateIn
  <2>2. ASSUME Untrimmed PROVE PointersOK(r.fa)
    <3> DEFINE cs == pool[i].chunks
               b == p[2]
    <3>1. k \in 1 .. Len(cs) /\ p[1] = cs[k].pData
      BY DEF OwnersOf, HasBlock, Back
    <3>2. LiveType(live) /\ Owned(pool, heap, live) /\ PoolOK(pool[i], n, DOMAIN live)
      BY <1>1 DEF Good
    <3>3. p[1] \in AreasOf(cs)
      BY <3>1 DEF AreasOf
    <3>small. Small(live, p)
      BY <3>2, <3>3 DEF Owned
    <3>4. Small(live, p) /\ PoolOf(live[p]) \in Pool /\ p = <<p[1], p[2]>>
      BY <3>2, <3>small, BlockArea
    <3>5. PoolOf(live[p]) = i /\ b \in Block(n)
      BY <3>2, <3>3, <3>4 DEF Owned
    <3>6. n \in 1 .. UCHAR_MAX /\ PointersOK(pool[i]) /\ p = <<cs[k].pData, b>>
      BY <2>2, <3>1, <3>4, NumBlocksType DEF Tracked
    <3> HIDE DEF b, n, cs
    <3>7. cs = pool[i].chunks /\ <<cs[k].pData, b>> \in DOMAIN live
      BY <3>6 DEF cs
    <3>8. PointersOK(FixedDeallocate(pool[i], heap, k, <<cs[k].pData, b>>).fa)
      BY <3>1, <3>2, <3>5, <3>6, <3>7, DeallocateKeepsPointers
    <3>9. QED
      BY <3>6, <3>8
  <2> HIDE DEF r
  <2>3. \A j \in Pool : pool'[j] = IF j = i THEN r.fa ELSE pool[j]
    BY <1>1, <2>1 DEF Good
  <2>4. QED
    BY <2>1, <2>2, <2>3 DEF Tracked, Untrimmed
<1>4. ASSUME NEW p \in DOMAIN live, DeallocateSized(p) PROVE Tracked'
  <2> DEFINE i == PoolOf(live[p])
             k == VicinityFind(pool[i], p)
  <2>1. /\ IsSmall(live[p]) /\ VicinityFindDefined(pool[i])
        /\ IF k = NULL THEN TakeBack(p) /\ UNCHANGED <<pool, heap, trimmed, thrown, undefined>>
           ELSE DeallocateIn(i, k, p)
    BY <1>4 DEF DeallocateSized
  <2>2. i \in Pool /\ k \in OwnersOf(pool[i], p) /\ k # NULL
    BY <1>1, <2>1, SizedOwner DEF Small
  <2>3. QED
    BY <1>3, <2>1, <2>2
<1>5. ASSUME NEW p \in DOMAIN live, DeallocateUnsized(p) PROVE Tracked'
  <2>1. PICK o \in Owners(p) : DeallocateIn(o[1], o[2], p)
    BY <1>5 DEF DeallocateUnsized
  <2>2. o[1] \in Pool /\ o[2] \in OwnersOf(pool[o[1]], p)
    BY DEF Owners
  <2>3. QED
    BY <1>3, <2>1, <2>2
<1>6. ASSUME trimmed' = TRUE \/ thrown' = TRUE
      PROVE  Tracked'
  BY <1>6 DEF Tracked, Untrimmed
<1>7. ASSUME pool' = pool, trimmed' = trimmed, thrown' = thrown, undefined' = undefined
      PROVE  Tracked'
  BY <1>7 DEF Tracked, Untrimmed
<1>8. ASSUME NEW s \in Sizes, NEW m \in MemoryAnswer(heap), AllocateFails(s, m)
      PROVE  Tracked'
  <2> DEFINE i == PoolOf(s)
  <2>1. FirstTryFailed(s, m) /\ ~AfterTrim(i, m).found /\ TrimLeaves(AfterTrim(i, m))
        /\ thrown' = thrown /\ undefined' = undefined
    BY <1>8 DEF AllocateFails
  <2>2. i \in Pool /\ AllocateDefined(pool[i]) /\ FirstTry(i, m).place = NoBlock
    BY <2>1, TriedGood
  <2>3. AfterTrim(i, m).pool = pool
    BY <2>1, <2>2, NothingTried
  <2>4. pool' = pool /\ trimmed' = (trimmed \/ AfterTrim(i, m).found)
    BY <2>1, <2>3 DEF TrimLeaves
  <2>5. trimmed' = trimmed
    BY <2>1, <2>4 DEF IInv
  <2>6. QED
    BY <1>7, <2>1, <2>4, <2>5
<1>9. ASSUME NEW s \in Sizes, NEW m \in MemoryAnswer(heap),
             AllocateThrows(s, m) \/ AllocateAgain(s, m) \/ AgainUndefined(s, m)
      PROVE  Tracked'
  BY <1>6, <1>9 DEF AllocateThrows, AllocateAgain, AgainUndefined, TrimLeaves
<1>10. ASSUME NEW s \in Sizes, NEW m \in MemoryAnswer(heap), AllocateLarge(s, m)
       PROVE  Tracked'
  BY <1>7, <1>10 DEF AllocateLarge
<1>11. ASSUME NEW p \in DOMAIN live, DeallocateLarge(p) PROVE Tracked'
  BY <1>7, <1>11 DEF DeallocateLarge
<1>12. ASSUME GoesUndefined, ~Untrimmed PROVE Tracked'
  BY <1>12 DEF GoesUndefined, Tracked, Untrimmed
<1>13. ASSUME NEW s \in Sizes, AllocateUndefined(s) PROVE Tracked'
  BY <1>12, <1>13, NoUndefinedStep DEF AllocateUndefined
<1>14. ASSUME NEW p \in DOMAIN live,
              DeallocateSizedUndefined(p) \/ DeallocateUnsizedUndefined(p)
       PROVE  Tracked'
  BY <1>12, <1>14, NoUndefinedStep DEF DeallocateSizedUndefined, DeallocateUnsizedUndefined
<1>15. ASSUME ClearExtraMemory PROVE Tracked'
  <2>1. CASE thrown' = TRUE
    BY <1>6, <2>1
  <2>2. CASE TrimLeaves(Trim(pool, heap, allocCount)) /\ thrown' = thrown
    <3>1. undefined' = undefined
      BY <1>15 DEF ClearExtraMemory
    <3>2. CASE Trim(pool, heap, allocCount).found
      BY <1>6, <2>2, <3>2 DEF TrimLeaves
    <3>3. CASE ~Trim(pool, heap, allocCount).found
      <4>1. Trim(pool, heap, allocCount).pool = pool
        BY <1>1, <3>3, TrimFindsNothing DEF Good
      <4>2. pool' = pool /\ trimmed' = (trimmed \/ Trim(pool, heap, allocCount).found)
        BY <2>2, <4>1 DEF TrimLeaves
      <4>3. trimmed' = trimmed
        BY <3>3, <4>2 DEF IInv
      <4>4. QED
        BY <1>7, <2>2, <3>1, <4>2, <4>3
    <3>4. QED
      BY <3>2, <3>3
  <2>3. QED
    BY <1>15, <2>1, <2>2 DEF ClearExtraMemory
<1>16. ASSUME UNCHANGED vars PROVE Tracked'
  BY <1>7, <1>16 DEF vars
<1>17. QED
  BY <1>2, <1>4, <1>5, <1>8, <1>9, <1>10, <1>11, <1>13, <1>14, <1>15, <1>16 DEF Next

LEMMA InitTracked == Init => Tracked
  BY DEF Init, Tracked, Untrimmed, PointersOK, NewFixedAllocator

LEMMA TrackedInvariance == Spec => []Tracked
<1>1. IInv /\ Tracked /\ [Next]_vars => Tracked'
  BY NextTracked
<1>2. QED
  BY Invariance, InitTracked, <1>1, PTL DEF Spec

(* Until a trim changes a pool or throws, whatever allocations succeed and   *)
(* fail and whatever is released, nothing undefined has happened, both       *)
(* pointers of every pool lead into its container and IsCorrupt finds        *)
(* nothing wrong.                                                           *)
THEOREM SoundUntilMemoryIsTrimmed == Spec => []SoundUntilTrimmed
<1>1. IInv /\ Tracked => SoundUntilTrimmed
  <2> SUFFICES ASSUME IInv, Tracked, Untrimmed
               PROVE  ~undefined /\ PointersInContainer /\ ~IsCorrupt
    BY DEF SoundUntilTrimmed, Untrimmed
  <2>1. ASSUME NEW i \in Pool
        PROVE  /\ PoolOK(pool[i], NumBlocks(i), DOMAIN live) /\ PointersOK(pool[i])
               /\ NumBlocks(i) \in 1 .. UCHAR_MAX
    BY NumBlocksType DEF IInv, Good, Tracked
  <2>2. ~IsCorrupt
    BY <2>1, PoolNotCorrupt DEF IsCorrupt
  <2>3. PointersInContainer
    BY <2>1 DEF PointersInContainer, PointersOK, Within, Back
  <2>4. QED
    BY <2>2, <2>3 DEF Tracked
<1>2. QED
  BY <1>1, Invariance, TrackedInvariance, PTL

(* Nor can the next operation read anything through those pointers that lies *)
(* outside.                                                                 *)
THEOREM DefinedUntilMemoryIsTrimmed ==
  Spec => [](~trimmed /\ ~thrown => \A i \in Pool : ReadsDefined(pool[i]))
<1>1. Tracked => (~trimmed /\ ~thrown => \A i \in Pool : ReadsDefined(pool[i]))
  BY PointersReadable DEF Tracked, Untrimmed
<1>2. QED
  BY <1>1, TrackedInvariance, PTL

-----------------------------------------------------------------------------
(* ChunkCheck: what the checks of one chunk find out when clients overrun  *)
(* their blocks.                                                           *)

\* The chunk as the allocator knows it: nothing is said of the bytes of blocks
\* that clients hold.
Masked(ch, h) ==
  [ch EXCEPT !.stealth = [b \in Block(N) |-> IF b \in h THEN Client ELSE ch.stealth[b]]]

\* A chunk with any numbers in its bytes.
RawChunk ==
  [pData : {"area"}, firstAvailableBlock : Int, blocksAvailable : 0 .. N,
   stealth : [Block(N) -> Int]]

\* The free list threads the blocks that clients do not hold.
Threaded(ch, h) ==
  /\ Masked(ch, h) \in ChunkType({"area"}, N)
  /\ FreeListIs(Masked(ch, h), N, Block(N) \ h)

ChunkInv ==
  /\ chunk \in RawChunk
  /\ lent \subseteq Block(N)
  /\ overruns \in Nat
  /\ overruns = 0 => Threaded(chunk, lent)

-----------------------------------------------------------------------------
LEMMA SameChunk ==
  ASSUME NEW d \in RawChunk, NEW e \in RawChunk,
         d.firstAvailableBlock = e.firstAvailableBlock,
         d.blocksAvailable = e.blocksAvailable,
         \A b \in Block(N) : d.stealth[b] = e.stealth[b]
  PROVE  d = e
<1>1. d.stealth = e.stealth
  BY DEF RawChunk
<1>2. QED
  BY <1>1 DEF RawChunk

(* A masked chunk, field by field. *)
LEMMA MaskedFields ==
  ASSUME NEW ch \in RawChunk, NEW h
  PROVE  /\ Masked(ch, h) \in RawChunk
         /\ Masked(ch, h).firstAvailableBlock = ch.firstAvailableBlock
         /\ Masked(ch, h).blocksAvailable = ch.blocksAvailable
         /\ \A b \in Block(N) :
              Masked(ch, h).stealth[b] = IF b \in h THEN Client ELSE ch.stealth[b]
<1> DEFINE s == [b \in Block(N) |-> IF b \in h THEN Client ELSE ch.stealth[b]]
<1>1. s \in [Block(N) -> Int]
  BY DEF RawChunk, Client
<1>2. Masked(ch, h) = [ch EXCEPT !.stealth = s]
  BY DEF Masked
<1>3. \A b \in Block(N) : s[b] = IF b \in h THEN Client ELSE ch.stealth[b]
  OBVIOUS
<1> HIDE DEF s
<1>4. QED
  BY <1>1, <1>2, <1>3 DEF RawChunk

LEMMA AllocatedFields ==
  ASSUME NEW ch \in RawChunk, ch.firstAvailableBlock \in Block(N), ~IsFilled(ch)
  PROVE  /\ AllocateBlock(ch) \in RawChunk
         /\ AllocateBlock(ch).firstAvailableBlock = ch.stealth[ch.firstAvailableBlock]
         /\ AllocateBlock(ch).blocksAvailable = ch.blocksAvailable - 1
         /\ \A b \in Block(N) :
              AllocateBlock(ch).stealth[b] =
                IF b = ch.firstAvailableBlock THEN Client ELSE ch.stealth[b]
<1> DEFINE f == ch.firstAvailableBlock
           s == [ch.stealth EXCEPT ![f] = Client]
<1>1. s \in [Block(N) -> Int] /\ ch.stealth[f] \in Int
  BY DEF RawChunk, Client
<1>2. \A b \in Block(N) : s[b] = IF b = f THEN Client ELSE ch.stealth[b]
  BY DEF RawChunk
<1>3. ch.blocksAvailable - 1 \in 0 .. N
  BY NAssumption DEF RawChunk, IsFilled, UCHAR_MAX
<1>4. /\ AllocateBlock(ch).pData = ch.pData
      /\ AllocateBlock(ch).firstAvailableBlock = ch.stealth[f]
      /\ AllocateBlock(ch).blocksAvailable = ch.blocksAvailable - 1
      /\ AllocateBlock(ch).stealth = s
  BY DEF AllocateBlock, RawChunk
<1>5. AllocateBlock(ch) \in RawChunk
  <2> HIDE DEF s
  <2>1. QED
    BY <1>1, <1>3, <1>4 DEF AllocateBlock, RawChunk
<1>6. QED
  BY <1>2, <1>4, <1>5

LEMMA DeallocatedFields ==
  ASSUME NEW ch \in RawChunk, NEW b \in Block(N), ch.blocksAvailable < N
  PROVE  /\ DeallocateBlock(ch, b) \in RawChunk
         /\ DeallocateBlock(ch, b).firstAvailableBlock = b
         /\ DeallocateBlock(ch, b).blocksAvailable = ch.blocksAvailable + 1
         /\ \A x \in Block(N) :
              DeallocateBlock(ch, b).stealth[x] =
                IF x = b THEN ch.firstAvailableBlock ELSE ch.stealth[x]
<1> DEFINE s == [ch.stealth EXCEPT ![b] = ch.firstAvailableBlock]
<1>1. s \in [Block(N) -> Int] /\ b \in Int
  BY DEF RawChunk, Block
<1>2. \A x \in Block(N) : s[x] = IF x = b THEN ch.firstAvailableBlock ELSE ch.stealth[x]
  BY DEF RawChunk
<1>3. ch.blocksAvailable + 1 \in 0 .. N
  BY NAssumption DEF RawChunk, UCHAR_MAX
<1>4. /\ DeallocateBlock(ch, b).firstAvailableBlock = b
      /\ DeallocateBlock(ch, b).blocksAvailable = ch.blocksAvailable + 1
      /\ DeallocateBlock(ch, b).stealth = s
  BY DEF DeallocateBlock, RawChunk
<1>5. DeallocateBlock(ch, b) \in RawChunk
  <2> HIDE DEF s
  <2>1. QED
    BY <1>1, <1>3, <1>4 DEF DeallocateBlock, RawChunk
<1>6. QED
  BY <1>2, <1>4, <1>5

(* Chunk::Allocate does to the masked chunk what it does to the chunk. *)
LEMMA MaskedAllocate ==
  ASSUME NEW ch \in RawChunk, NEW h, ch.firstAvailableBlock \in Block(N) \ h, ~IsFilled(ch)
  PROVE  Masked(AllocateBlock(ch), h \cup {ch.firstAvailableBlock})
           = AllocateBlock(Masked(ch, h))
<1> DEFINE f == ch.firstAvailableBlock
           d == Masked(AllocateBlock(ch), h \cup {f})
           e == AllocateBlock(Masked(ch, h))
<1>1. /\ d \in RawChunk /\ d.firstAvailableBlock = ch.stealth[f]
      /\ d.blocksAvailable = ch.blocksAvailable - 1
      /\ \A b \in Block(N) : d.stealth[b] = IF b \in h \cup {f} THEN Client ELSE ch.stealth[b]
  BY AllocatedFields, MaskedFields
<1>2. /\ Masked(ch, h).firstAvailableBlock = f /\ ~IsFilled(Masked(ch, h))
      /\ Masked(ch, h) \in RawChunk
  BY MaskedFields DEF IsFilled
<1>3. /\ e \in RawChunk /\ e.firstAvailableBlock = ch.stealth[f]
      /\ e.blocksAvailable = ch.blocksAvailable - 1
      /\ \A b \in Block(N) : e.stealth[b] = IF b \in h \cup {f} THEN Client ELSE ch.stealth[b]
  BY <1>2, AllocatedFields, MaskedFields
<1> HIDE DEF d, e
<1>4. d = e
  BY <1>1, <1>3, SameChunk
<1>5. QED
  BY <1>4 DEF d, e

(* So does Chunk::Deallocate. *)
LEMMA MaskedDeallocate ==
  ASSUME NEW ch \in RawChunk, NEW h, NEW b \in Block(N), ch.blocksAvailable < N
  PROVE  Masked(DeallocateBlock(ch, b), h \ {b}) = DeallocateBlock(Masked(ch, h), b)
<1> DEFINE d == Masked(DeallocateBlock(ch, b), h \ {b})
           e == DeallocateBlock(Masked(ch, h), b)
           after(x) == IF x = b THEN ch.firstAvailableBlock
                       ELSE IF x \in h THEN Client ELSE ch.stealth[x]
<1>1. /\ d \in RawChunk /\ d.firstAvailableBlock = b
      /\ d.blocksAvailable = ch.blocksAvailable + 1
      /\ \A x \in Block(N) : d.stealth[x] = after(x)
  BY DeallocatedFields, MaskedFields
<1>2. /\ Masked(ch, h) \in RawChunk /\ Masked(ch, h).blocksAvailable < N
  BY MaskedFields
<1>3. /\ e \in RawChunk /\ e.firstAvailableBlock = b
      /\ e.blocksAvailable = ch.blocksAvailable + 1
      /\ \A x \in Block(N) : e.stealth[x] = after(x)
  BY <1>2, DeallocatedFields, MaskedFields
<1> HIDE DEF d, e
<1>4. d = e
  BY <1>1, <1>3, SameChunk
<1>5. QED
  BY <1>4 DEF d, e

(* Chunks that differ in their clients' bytes alone are masked alike. *)
LEMMA SeenAlike ==
  ASSUME NEW ch \in RawChunk, NEW d \in RawChunk, NEW h,
         d.firstAvailableBlock = ch.firstAvailableBlock,
         d.blocksAvailable = ch.blocksAvailable,
         \A x \in Block(N) \ h : d.stealth[x] = ch.stealth[x]
  PROVE  Masked(d, h) = Masked(ch, h)
<1> DEFINE d2 == Masked(d, h)
           e2 == Masked(ch, h)
<1>1. /\ d2 \in RawChunk /\ d2.firstAvailableBlock = ch.firstAvailableBlock
      /\ d2.blocksAvailable = ch.blocksAvailable
      /\ \A x \in Block(N) : d2.stealth[x] = IF x \in h THEN Client ELSE ch.stealth[x]
  BY MaskedFields
<1>2. /\ e2 \in RawChunk /\ e2.firstAvailableBlock = ch.firstAvailableBlock
      /\ e2.blocksAvailable = ch.blocksAvailable
      /\ \A x \in Block(N) : e2.stealth[x] = IF x \in h THEN Client ELSE ch.stealth[x]
  BY MaskedFields
<1> HIDE DEF d2, e2
<1>3. d2 = e2
  BY <1>1, <1>2, SameChunk
<1>4. QED
  BY <1>3 DEF d2, e2

(* What is written in the block b of a client is not seen. *)
LEMMA MaskedWrite ==
  ASSUME NEW ch \in RawChunk, NEW h, NEW b \in Block(N), NEW byte \in Int,
         NEW d, d = [ch EXCEPT !.stealth[b] = byte]
  PROVE  /\ d \in RawChunk
         /\ b \in h => Masked(d, h) = Masked(ch, h)
<1> DEFINE s == [ch.stealth EXCEPT ![b] = byte]
<1>1. s \in [Block(N) -> Int] /\ \A x \in Block(N) : x # b => s[x] = ch.stealth[x]
  BY DEF RawChunk
<1>2. d = [ch EXCEPT !.stealth = s]
  BY DEF RawChunk
<1> HIDE DEF s
<1>3. /\ d \in RawChunk /\ d.firstAvailableBlock = ch.firstAvailableBlock
      /\ d.blocksAvailable = ch.blocksAvailable /\ d.stealth = s
  BY <1>1, <1>2 DEF RawChunk
<1>4. ASSUME b \in h PROVE \A x \in Block(N) \ h : d.stealth[x] = ch.stealth[x]
  BY <1>1, <1>3, <1>4
<1>5. QED
  BY <1>3, <1>4, SeenAlike

-----------------------------------------------------------------------------
(* The invariant *)

LEMMA ChunkInvInit == ChunkInit => ChunkInv
<1> SUFFICES ASSUME ChunkInit PROVE ChunkInv
  OBVIOUS
<1>1. chunk \in ChunkType({"area"}, N) /\ FreeListIs(chunk, N, Block(N)) /\ lent = {}
  BY NewChunkFreeList, NAssumption DEF ChunkInit
<1>2. chunk \in RawChunk
  BY <1>1 DEF ChunkType, RawChunk, StealthIndex, Client
<1>3. Masked(chunk, lent) = chunk
  BY <1>1, <1>2, MaskedFields, SameChunk
<1>4. QED
  BY <1>1, <1>2, <1>3 DEF ChunkInit, ChunkInv, Threaded

LEMMA ByteType == Byte \subseteq Int
  BY NAssumption DEF Byte, UCHAR_MAX

LEMMA ChunkInvStep == ChunkInv /\ [ChunkNext]_chunkVars => ChunkInv'
<1> SUFFICES ASSUME ChunkInv, [ChunkNext]_chunkVars PROVE ChunkInv'
  OBVIOUS
<1>1. chunk \in RawChunk /\ lent \subseteq Block(N) /\ overruns \in Nat
  BY DEF ChunkInv
<1>2. CASE Allocate
  <2> DEFINE f == chunk.firstAvailableBlock
             e == Masked(chunk, lent)
  <2>1. /\ ~IsFilled(chunk) /\ f \in Block(N) /\ chunk' = AllocateBlock(chunk)
        /\ lent' = lent \cup {f} /\ overruns' = overruns
    BY <1>2 DEF Allocate
  <2>2. chunk' \in RawChunk
    BY <1>1, <2>1, AllocatedFields
  <2>3. ASSUME overruns = 0 PROVE Threaded(chunk', lent')
    <3>1. e \in ChunkType({"area"}, N) /\ FreeListIs(e, N, Block(N) \ lent)
      BY <2>3 DEF ChunkInv, Threaded
    <3>2. e.firstAvailableBlock = f /\ ~IsFilled(e)
      BY <1>1, <2>1, MaskedFields DEF IsFilled
    <3> HIDE DEF e
    <3>3. /\ f \in Block(N) \ lent
          /\ AllocateBlock(e) \in ChunkType({"area"}, N)
          /\ FreeListIs(AllocateBlock(e), N, (Block(N) \ lent) \ {f})
      BY <3>1, <3>2, AllocateBlockFreeList, NAssumption
    <3>4. Masked(chunk', lent') = AllocateBlock(e)
      BY <1>1, <2>1, <3>3, MaskedAllocate DEF e
    <3>5. (Block(N) \ lent) \ {f} = Block(N) \ lent'
      BY <2>1
    <3>6. QED
      BY <3>3, <3>4, <3>5 DEF Threaded
  <2>4. QED
    BY <1>1, <2>1, <2>2, <2>3 DEF ChunkInv
<1>3. ASSUME NEW b \in Block(N), Deallocate(b) PROVE ChunkInv'
  <2> DEFINE e == Masked(chunk, lent)
  <2>1. /\ b \in lent /\ chunk.blocksAvailable < N /\ chunk' = DeallocateBlock(chunk, b)
        /\ lent' = lent \ {b} /\ overruns' = overruns
    BY <1>3 DEF Deallocate
  <2>2. chunk' \in RawChunk /\ Masked(chunk', lent') = DeallocateBlock(e, b)
    BY <1>1, <2>1, DeallocatedFields, MaskedDeallocate
  <2>3. ASSUME overruns = 0 PROVE Threaded(chunk', lent')
    <3>1. e \in ChunkType({"area"}, N) /\ FreeListIs(e, N, Block(N) \ lent)
      BY <2>3 DEF ChunkInv, Threaded
    <3> HIDE DEF e
    <3>2. /\ DeallocateBlock(e, b) \in ChunkType({"area"}, N)
          /\ FreeListIs(DeallocateBlock(e, b), N, (Block(N) \ lent) \cup {b})
      BY <2>1, <3>1, DeallocateBlockFreeList, NAssumption
    <3>3. (Block(N) \ lent) \cup {b} = Block(N) \ lent'
      BY <2>1
    <3>4. QED
      BY <2>2, <3>2, <3>3 DEF Threaded
  <2>4. QED
    BY <1>1, <2>1, <2>2, <2>3 DEF ChunkInv
<1>4. ASSUME NEW b \in Block(N), NEW byte \in Byte, Write(b, byte) PROVE ChunkInv'
  <2>1. /\ b \in lent /\ chunk' = [chunk EXCEPT !.stealth[b] = byte]
        /\ lent' = lent /\ overruns' = overruns
    BY <1>4 DEF Write
  <2>2. chunk' \in RawChunk /\ Masked(chunk', lent) = Masked(chunk, lent)
    BY <1>1, <2>1, MaskedWrite, ByteType
  <2>3. QED
    BY <1>1, <2>1, <2>2 DEF ChunkInv, Threaded
<1>5. ASSUME NEW b \in Block(N), NEW byte \in Byte, Overrun(b, byte) PROVE ChunkInv'
  <2>1. /\ chunk' = [chunk EXCEPT !.stealth[b] = byte]
        /\ lent' = lent /\ overruns' = overruns + 1
    BY <1>5 DEF Overrun
  <2>2. chunk' \in RawChunk
    BY <1>1, <2>1, MaskedWrite, ByteType
  <2>3. QED
    BY <1>1, <2>1, <2>2 DEF ChunkInv
<1>6. CASE UNCHANGED chunkVars
  BY <1>6 DEF chunkVars, ChunkInv
<1>7. QED
  BY <1>2, <1>3, <1>4, <1>5, <1>6 DEF ChunkNext

(* The inductive invariant holds in every behaviour. *)
THEOREM ChunkInvariance == ChunkSpec => []ChunkInv
<1>1. QED
  BY ChunkInvInit, ChunkInvStep, PTL DEF ChunkSpec

-----------------------------------------------------------------------------
(* What the checks find out *)

(* IsCorrupt reports a chunk exactly when its indexes do not make a list of *)
(* blocksAvailable_ blocks, whatever clients have written where: neither a  *)
(* wild index nor a loop escapes it, and it raises no false alarm.          *)
THEOREM CorruptionIsFound == ChunkSpec => []IsCorruptExact
<1>1. ChunkInv => IsCorruptExact
  <2> SUFFICES ASSUME ChunkInv PROVE IsCorruptExact
    OBVIOUS
  <2>1. N \in Nat /\ chunk.blocksAvailable \in 0 .. N /\ chunk.blocksAvailable \in Nat
    BY NAssumption DEF ChunkInv, RawChunk, UCHAR_MAX
  <2>2. \A order : IsList(order) <=> Lists(chunk, order)
    BY DEF IsList, Lists
  <2>3. ASSUME NEW order \in [1 .. chunk.blocksAvailable -> Block(N)], IsList(order)
        PROVE  ~ChunkIsCorrupt(chunk, N)
    BY <2>1, <2>2, <2>3, ListedNotCorrupt
  <2>4. ASSUME ~ChunkIsCorrupt(chunk, N)
        PROVE  \E order \in [1 .. chunk.blocksAvailable -> Block(N)] : IsList(order)
    BY <2>1, <2>2, <2>4, NotCorruptListed
  <2>5. QED
    BY <2>3, <2>4 DEF IsCorruptExact
<1>2. QED
  BY <1>1, ChunkInvariance, PTL

(* While clients keep to their own blocks, whatever they write there,       *)
(* IsBlockAvailable tells the free blocks from theirs and IsCorrupt has     *)
(* nothing to report.                                                       *)
THEOREM AvailabilityIsKnown == ChunkSpec => []AvailableIsUnheld
<1>1. ChunkInv => AvailableIsUnheld
  <2> SUFFICES ASSUME ChunkInv, overruns = 0
               PROVE  /\ \A b \in Block(N) : IsBlockAvailable(chunk, N, b) <=> b \notin lent
                      /\ ~ChunkIsCorrupt(chunk, N)
    BY DEF AvailableIsUnheld
  <2> DEFINE m == chunk.blocksAvailable
             e == Masked(chunk, lent)
  <2>1. N \in Nat /\ m \in 0 .. N /\ chunk \in RawChunk
    BY NAssumption DEF ChunkInv, RawChunk, UCHAR_MAX
  <2>2. /\ e.blocksAvailable = m /\ e.firstAvailableBlock = chunk.firstAvailableBlock
        /\ \A b \in Block(N) \ lent : e.stealth[b] = chunk.stealth[b]
    BY <2>1, MaskedFields
  <2> HIDE DEF e
  <2>3. FreeListIs(e, N, Block(N) \ lent)
    BY DEF ChunkInv, Threaded, e
  <2>4. PICK order \in [1 .. m -> Block(N)] :
          /\ IsFreeList(e, order)
          /\ Block(N) \ lent = {order[i] : i \in 1 .. m}
    BY <2>2, <2>3 DEF FreeListIs
  <2>5. Lists(chunk, order)
    <3>1. \A i \in 1 .. m - 1 : chunk.stealth[order[i]] = order[i + 1]
      <4>1. TAKE i \in 1 .. m - 1
      <4>2. i \in 1 .. m
        BY <2>1
      <4>3. order[i] \in Block(N) \ lent
        BY <2>4, <4>2
      <4>4. QED
        BY <2>2, <2>4, <4>3 DEF IsFreeList
    <3>2. QED
      BY <2>2, <2>4, <3>1 DEF Lists, IsFreeList
  <2>6. QED
    BY <2>1, <2>4, <2>5, ListedNotCorrupt
<1>2. QED
  BY <1>1, ChunkInvariance, PTL
=============================================================================
