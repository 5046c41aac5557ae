---------------------------- MODULE OperatorLemmas ----------------------------
(***************************************************************************)
(* Lemmas about the operators that the models are built from: what Chunk's *)
(* operations do to its free list (Chunk.tla), for every chunk size, and   *)
(* what those of RefLinkedBase do to the links of smart pointers           *)
(* (RefLinks.tla), for any number of them; what the passes of a loop do    *)
(* (Loops.tla), for any number of them; and the facts about naturals and   *)
(* sequences that these and the proofs that cite them need.                *)
(***************************************************************************)
EXTENDS Chunk, RefLinks, Loops, Sequences, FiniteSetTheorems, SequenceTheorems,
        WellFoundedInduction, TLAPS


(* The order of the naturals has no infinite descent, in the form the       *)
(* library's theorem on minimal elements takes it.                          *)
LEMMA LessThanWellFounded == IsWellFoundedOn({p \in Nat \X Nat : p[1] < p[2]}, Nat)
  BY NatLessThanWellFounded DEF OpToRel

(* Every nonempty set of naturals has a least element. *)
LEMMA NatLeast ==
  ASSUME NEW S \in SUBSET Nat, S # {}
  PROVE  \E x \in S : \A y \in S : x <= y
<1>1. PICK x \in S : \A y \in S : <<y, x>> \notin {p \in Nat \X Nat : p[1] < p[2]}
  BY LessThanWellFounded, WFMin
<1>2. ASSUME NEW y \in S PROVE x <= y
  <2>1. ~(y < x)
    BY <1>1
  <2>2. QED
    BY <2>1
<1>3. QED
  BY <1>2

(* What holds at first and after each pass that it held before holds after *)
(* all of them.                                                             *)
LEMMA EachAfterTheOneBefore ==
  ASSUME NEW n \in Nat, NEW P, 0 \in P, \A k \in 1 .. n : k - 1 \in P => k \in P
  PROVE  \A k \in 0 .. n : k \in P
<1> DEFINE S == {k \in 0 .. n : k \notin P}
<1>1. SUFFICES ASSUME S # {} PROVE FALSE
  BY DEF S
<1>2. PICK k \in S : \A j \in S : k <= j
  <2>1. S \in SUBSET Nat
    OBVIOUS
  <2> HIDE DEF S
  <2>2. QED
    BY <1>1, <2>1, NatLeast
<1>3. k \in 1 .. n /\ k - 1 \in 0 .. n /\ ~(k <= k - 1)
  BY <1>2
<1>4. k - 1 \in P
  BY <1>2, <1>3
<1>5. QED
  BY <1>2, <1>3, <1>4

\* What there is after pass k, where g tells it for those before.
Stage(pass, x, g, k) == IF k = 0 THEN x ELSE pass[k][g[k - 1]]

Stages(pass, x, g, n) == g = [k \in 0 .. n |-> Stage(pass, x, g, k)]

LEMMA StagesStepwise ==
  ASSUME NEW pass, NEW x, NEW g, NEW n \in Nat, Stages(pass, x, g, n)
  PROVE  g = [k \in 0 .. n |-> g[k]] /\ \A k \in 0 .. n : g[k] = Stage(pass, x, g, k)
<1>1. g = [k \in 0 .. n |-> Stage(pass, x, g, k)]
  BY DEF Stages
<1>2. \A k \in 0 .. n : g[k] = Stage(pass, x, g, k)
  BY <1>1
<1>3. QED
  BY <1>1, <1>2

LEMMA StagesPointwise ==
  ASSUME NEW pass, NEW x, NEW h, NEW n \in Nat, h = [k \in 0 .. n |-> h[k]],
         \A k \in 0 .. n : h[k] = Stage(pass, x, h, k)
  PROVE  Stages(pass, x, h, n)
  BY DEF Stages

(* There is a first stage, and one after each. *)
LEMMA PassesIs ==
  ASSUME NEW pass, NEW x, NEW n \in Nat
  PROVE  Stages(pass, x, Passes(pass, x, n), n)
<1> DEFINE P == {j \in Nat : \E g : Stages(pass, x, g, j)}
<1>1. 0 \in P
  <2> DEFINE g == [k \in 0 .. 0 |-> x]
  <2>1. g = [k \in 0 .. 0 |-> g[k]] /\ \A k \in 0 .. 0 : g[k] = Stage(pass, x, g, k)
    BY DEF Stage
  <2> HIDE DEF g
  <2>2. Stages(pass, x, g, 0)
    BY <2>1, StagesPointwise
  <2>3. QED
    BY <2>2
<1>2. ASSUME NEW j \in 1 .. n, j - 1 \in P PROVE j \in P
  <2>1. PICK g : Stages(pass, x, g, j - 1)
    BY <1>2
  <2>2. \A k \in 0 .. j - 1 : g[k] = Stage(pass, x, g, k)
    BY <1>2, <2>1, StagesStepwise
  <2> DEFINE h == [k \in 0 .. j |-> IF k = j THEN Stage(pass, x, g, j) ELSE g[k]]
  <2>3. h = [k \in 0 .. j |-> h[k]] /\ h[j] = Stage(pass, x, g, j)
        /\ \A k \in 0 .. j - 1 : h[k] = g[k]
    OBVIOUS
  <2> HIDE DEF h, P
  <2>4. ASSUME NEW k \in 0 .. j PROVE h[k] = Stage(pass, x, h, k)
    <3>1. CASE k = 0
      <4>1. 0 \in 0 .. j - 1
        OBVIOUS
      <4>2. h[0] = g[0] /\ g[0] = Stage(pass, x, g, 0)
        BY <2>2, <2>3, <4>1
      <4>3. Stage(pass, x, g, 0) = x /\ Stage(pass, x, h, 0) = x
        BY DEF Stage
      <4>4. QED
        BY <3>1, <4>2, <4>3
    <3>2. CASE k # 0
      <4>1. k - 1 \in 0 .. j - 1 /\ (k = j \/ k \in 0 .. j - 1)
        BY <3>2
      <4>2. h[k - 1] = g[k - 1]
        BY <2>3, <4>1
      <4>3. h[k] = Stage(pass, x, g, k)
        BY <2>2, <2>3, <4>1
      <4>4. QED
        BY <3>2, <4>2, <4>3 DEF Stage
    <3>3. QED
      BY <3>1, <3>2
  <2>5. Stages(pass, x, h, j)
    BY <2>3, <2>4, StagesPointwise
  <2>6. QED
    BY <2>5 DEF P
<1> HIDE DEF P
<1>3. n \in P
  <2>1. \A k \in 0 .. n : k \in P
    BY <1>1, <1>2, EachAfterTheOneBefore
  <2>2. QED
    BY <2>1
<1>4. Passes(pass, x, n) = CHOOSE g : Stages(pass, x, g, n)
  BY DEF Passes, Stages, Stage
<1>5. QED
  BY <1>3, <1>4 DEF P

\* x is in V, and every pass takes values of V to such.
Keeps(pass, x, n, V) == n \in Nat /\ x \in V /\ \A k \in 1 .. n, v \in V : pass[k][v] \in V

(* The passes, one after the other, of values that every pass takes to such. *)
LEMMA PassesAre ==
  ASSUME NEW V, NEW x, NEW n, NEW pass, Keeps(pass, x, n, V)
  PROVE  /\ Passes(pass, x, n) \in [0 .. n -> V]
         /\ Passes(pass, x, n)[0] = x
         /\ \A k \in 1 .. n : Passes(pass, x, n)[k] = pass[k][Passes(pass, x, n)[k - 1]]
         /\ Loop(pass, x, n) = Passes(pass, x, n)[n]
         /\ Loop(pass, x, n) \in V
<1> DEFINE g == Passes(pass, x, n)
           P == {k \in Nat : g[k] \in V}
<1>0. n \in Nat /\ x \in V
  BY DEF Keeps
<1>1. g = [k \in 0 .. n |-> g[k]] /\ \A k \in 0 .. n : g[k] = Stage(pass, x, g, k)
  BY <1>0, PassesIs, StagesStepwise
<1>3. Loop(pass, x, n) = g[n]
  BY DEF Loop
<1> HIDE DEF g
<1>4. g[0] = x
  <2>1. 0 \in 0 .. n
    BY <1>0
  <2>2. QED
    BY <1>1, <2>1 DEF Stage
<1>8. ASSUME NEW k \in 1 .. n PROVE g[k] = pass[k][g[k - 1]]
  <2>1. k \in 0 .. n /\ k # 0
    OBVIOUS
  <2>2. QED
    BY <1>1, <2>1 DEF Stage
<1>5. \A k \in 0 .. n : k \in P
  <2>1. 0 \in P
    BY <1>0, <1>4
  <2>2. ASSUME NEW k \in 1 .. n, k - 1 \in P PROVE k \in P
    <3>1. pass[k][g[k - 1]] \in V
      BY <2>2 DEF Keeps
    <3>2. QED
      BY <1>8, <3>1
  <2> HIDE DEF P
  <2>3. QED
    BY <1>0, <2>1, <2>2, EachAfterTheOneBefore
<1>6. g \in [0 .. n -> V] /\ n \in 0 .. n
  <2>1. \A k \in 0 .. n : g[k] \in V
    BY <1>5
  <2>2. [k \in 0 .. n |-> g[k]] \in [0 .. n -> V]
    BY <2>1
  <2>3. QED
    BY <1>0, <1>1, <2>2
<1>7. QED
  BY <1>3, <1>4, <1>6, <1>8 DEF g

-----------------------------------------------------------------------------
(* Chunk::Reset lists every block. *)
LEMMA NewChunkFreeList ==
  ASSUME NEW Addr, NEW a \in Addr, NEW n \in 1 .. UCHAR_MAX
  PROVE  /\ NewChunk(a, n) \in ChunkType(Addr, n)
         /\ FreeListIs(NewChunk(a, n), n, Block(n))
<1> DEFINE c == NewChunk(a, n)
           order == [i \in 1 .. n |-> i - 1]
<1>1. c \in ChunkType(Addr, n)
  BY DEF NewChunk, ChunkType, StealthIndex, Block, UCHAR_MAX
<1>2. c.blocksAvailable = n /\ c.firstAvailableBlock = 0
      /\ \A b \in Block(n) : c.stealth[b] = b + 1
  BY DEF NewChunk
<1>3. order \in [1 .. c.blocksAvailable -> Block(n)]
  BY <1>2 DEF Block, UCHAR_MAX
<1>4. IsFreeList(c, order)
  BY <1>2, <1>3 DEF IsFreeList, Block, Client, UCHAR_MAX
<1>5. Block(n) = {order[i] : i \in 1 .. c.blocksAvailable}
  <2>1. ASSUME NEW b \in Block(n) PROVE b + 1 \in 1 .. n /\ order[b + 1] = b
    BY DEF Block, UCHAR_MAX
  <2>2. QED
    BY <2>1, <1>2, <1>3
<1>6. QED
  BY <1>1, <1>3, <1>4, <1>5 DEF FreeListIs

(* A chunk whose free list has n blocks has every block free. *)
LEMMA AllAvailable ==
  ASSUME NEW c, NEW n \in 1 .. UCHAR_MAX, NEW free,
         c.blocksAvailable = n, FreeListIs(c, n, free)
  PROVE  free = Block(n)
<1>1. PICK order \in [1 .. n -> Block(n)] :
        /\ IsFreeList(c, order)
        /\ free = {order[i] : i \in 1 .. n}
  BY DEF FreeListIs
<1>2. order \in Injection(1 .. n, Block(n))
  BY <1>1 DEF IsFreeList, Injection, IsInjective
<1>3. IsFiniteSet(Block(n)) /\ Cardinality(Block(n)) = n
  BY FS_Interval DEF Block, UCHAR_MAX
<1>4. IsFiniteSet(1 .. n) /\ Cardinality(1 .. n) = n
  <2>1. n \in Nat /\ 1 \in Int /\ n \in Int /\ ~(1 > n) /\ n - 1 + 1 = n
    BY DEF UCHAR_MAX
  <2>2. QED
    BY <2>1, FS_Interval
<1>5. order \in Surjection(1 .. n, Block(n))
  BY <1>2, <1>3, <1>4, FS_Injection
<1>6. QED
  BY <1>1, <1>5 DEF Surjection

(* A chunk with a block that is not free has fewer than n on its list. *)
LEMMA NotAllAvailable ==
  ASSUME NEW c, NEW n \in 1 .. UCHAR_MAX, NEW free,
         c.blocksAvailable \in 0 .. n, FreeListIs(c, n, free),
         NEW b \in Block(n), b \notin free
  PROVE  c.blocksAvailable < n
BY AllAvailable DEF UCHAR_MAX

-----------------------------------------------------------------------------
(* Chunk::Allocate takes the first block off the list; that block was free, *)
(* and the index read from it is one the allocator wrote.                   *)
LEMMA AllocateBlockFreeList ==
  ASSUME NEW Addr, NEW n \in 1 .. UCHAR_MAX, NEW c \in ChunkType(Addr, n), NEW free,
         FreeListIs(c, n, free), ~IsFilled(c)
  PROVE  /\ c.firstAvailableBlock \in Block(n)
         /\ c.firstAvailableBlock \in free
         /\ AllocateBlock(c) \in ChunkType(Addr, n)
         /\ AllocateBlock(c).pData = c.pData
         /\ ~HasAvailable(AllocateBlock(c), n)
         /\ FreeListIs(AllocateBlock(c), n, free \ {c.firstAvailableBlock})
<1> DEFINE avail == c.blocksAvailable
           first == c.firstAvailableBlock
           d == AllocateBlock(c)
<1>1. PICK order \in [1 .. avail -> Block(n)] :
        /\ IsFreeList(c, order)
        /\ free = {order[i] : i \in 1 .. avail}
  BY DEF FreeListIs
<1>2. avail \in 1 .. n /\ n \in Nat
  BY DEF ChunkType, IsFilled, UCHAR_MAX
<1>3. first = order[1] /\ first \in Block(n) /\ first \in free
  BY <1>1, <1>2 DEF IsFreeList
<1>4. c.stealth[first] \in StealthIndex(n)
  BY <1>1, <1>2, <1>3 DEF IsFreeList, ChunkType
<1>5. /\ d.pData = c.pData
      /\ d.firstAvailableBlock = c.stealth[first]
      /\ d.blocksAvailable = avail - 1
      /\ d.stealth = [c.stealth EXCEPT ![first] = Client]
  BY DEF AllocateBlock, ChunkType
<1>6. d \in ChunkType(Addr, n)
  <2>1. [c.stealth EXCEPT ![first] = Client] \in [Block(n) -> StealthIndex(n) \cup {Client}]
    BY <1>3 DEF ChunkType
  <2>2. avail - 1 \in 0 .. n
    BY <1>2
  <2>3. QED
    BY <1>4, <2>1, <2>2 DEF AllocateBlock, ChunkType
<1>7. ~HasAvailable(d, n)
  BY <1>2, <1>5 DEF HasAvailable
<1> DEFINE rest == [i \in 1 .. avail - 1 |-> order[i + 1]]
<1>8. rest \in [1 .. d.blocksAvailable -> Block(n)]
  BY <1>1, <1>2, <1>5
<1>9. \A i \in 1 .. avail - 1 : rest[i] # first
  BY <1>1, <1>2, <1>3 DEF IsFreeList
<1>10. \A i \in 1 .. avail - 1 : d.stealth[rest[i]] = c.stealth[rest[i]]
  <2>1. TAKE i \in 1 .. avail - 1
  <2>2. rest[i] \in Block(n) /\ rest[i] # first
    BY <1>5, <1>8, <1>9
  <2>3. DOMAIN c.stealth = Block(n)
    BY DEF ChunkType
  <2>4. QED
    BY <1>5, <2>2, <2>3
<1>11. IsFreeList(d, rest)
  <2>1. \A i, j \in 1 .. avail - 1 : rest[i] = rest[j] => i = j
    BY <1>1, <1>2 DEF IsFreeList
  <2>2. avail - 1 > 0 => rest[1] = d.firstAvailableBlock
    BY <1>1, <1>2, <1>3, <1>5 DEF IsFreeList
  <2>3. \A i \in 1 .. avail - 2 : d.stealth[rest[i]] = rest[i + 1]
    <3>1. TAKE i \in 1 .. avail - 2
    <3>2. i \in 1 .. avail - 1 /\ i + 1 \in 1 .. avail - 1
      BY <1>2
    <3>3. rest[i] = order[i + 1] /\ rest[i + 1] = order[(i + 1) + 1]
      BY <3>2
    <3>4. c.stealth[order[i + 1]] = order[(i + 1) + 1]
      BY <1>1, <3>2 DEF IsFreeList
    <3>5. QED
      BY <1>10, <3>2, <3>3, <3>4
  <2>4. \A i \in 1 .. avail - 1 : d.stealth[rest[i]] # Client
    <3>1. TAKE i \in 1 .. avail - 1
    <3>2. i + 1 \in 1 .. avail /\ rest[i] = order[i + 1]
      BY <1>2
    <3>3. c.stealth[order[i + 1]] # Client
      BY <1>1, <3>2 DEF IsFreeList
    <3>4. QED
      BY <1>10, <3>2, <3>3
  <2>5. d.blocksAvailable - 1 = avail - 2
    BY <1>2, <1>5
  <2>6. QED
    BY <1>5, <2>1, <2>2, <2>3, <2>4, <2>5 DEF IsFreeList
<1>12. free \ {first} = {rest[i] : i \in 1 .. avail - 1}
  <2>1. ASSUME NEW b \in free, b # first PROVE \E i \in 1 .. avail - 1 : b = rest[i]
    <3>1. PICK i \in 1 .. avail : b = order[i]
      BY <1>1
    <3>2. i # 1 /\ i - 1 \in 1 .. avail - 1 /\ (i - 1) + 1 = i
      BY <1>2, <1>3, <2>1, <3>1
    <3>3. QED
      BY <3>1, <3>2
  <2>2. ASSUME NEW i \in 1 .. avail - 1 PROVE rest[i] \in free
    BY <1>1, <1>2
  <2>3. QED
    BY <1>9, <2>1, <2>2
<1>13. QED
  BY <1>3, <1>5, <1>6, <1>7, <1>8, <1>11, <1>12 DEF FreeListIs

(* Chunk::Deallocate puts a block that was not free at the head. *)
LEMMA DeallocateBlockFreeList ==
  ASSUME NEW Addr, NEW n \in 1 .. UCHAR_MAX, NEW c \in ChunkType(Addr, n), NEW free,
         FreeListIs(c, n, free), NEW b \in Block(n), b \notin free
  PROVE  /\ DeallocateBlock(c, b) \in ChunkType(Addr, n)
         /\ DeallocateBlock(c, b).pData = c.pData
         /\ DeallocateBlock(c, b).blocksAvailable = c.blocksAvailable + 1
         /\ ~HasAvailable(c, n)
         /\ FreeListIs(DeallocateBlock(c, b), n, free \cup {b})
<1> DEFINE avail == c.blocksAvailable
           d == DeallocateBlock(c, b)
<1>1. PICK order \in [1 .. avail -> Block(n)] :
        /\ IsFreeList(c, order)
        /\ free = {order[i] : i \in 1 .. avail}
  BY DEF FreeListIs
<1>2. avail \in 0 .. n - 1 /\ n \in Nat
  <2>1. avail \in 0 .. n
    BY DEF ChunkType
  <2>2. avail < n
    BY <2>1, NotAllAvailable
  <2>3. QED
    BY <2>1, <2>2 DEF UCHAR_MAX
<1>3. /\ d.pData = c.pData
      /\ d.firstAvailableBlock = b
      /\ d.blocksAvailable = avail + 1
      /\ d.stealth = [c.stealth EXCEPT ![b] = c.firstAvailableBlock]
  BY DEF DeallocateBlock, ChunkType
<1>4. d \in ChunkType(Addr, n)
  <2>1. d.stealth \in [Block(n) -> StealthIndex(n) \cup {Client}]
    BY <1>3 DEF ChunkType
  <2>2. avail + 1 \in 0 .. n /\ b \in StealthIndex(n)
    BY <1>2 DEF StealthIndex, Block
  <2>3. QED
    BY <1>3, <2>1, <2>2 DEF DeallocateBlock, ChunkType
<1> DEFINE more == [i \in 1 .. avail + 1 |-> IF i = 1 THEN b ELSE order[i - 1]]
<1>5. more \in [1 .. d.blocksAvailable -> Block(n)]
  BY <1>1, <1>2, <1>3
<1>6. d.stealth[b] = c.firstAvailableBlock /\ c.firstAvailableBlock # Client
  BY <1>3 DEF ChunkType, StealthIndex, Client
<1>7. \A i \in 1 .. avail : order[i] # b /\ d.stealth[order[i]] = c.stealth[order[i]]
  <2>1. TAKE i \in 1 .. avail
  <2>2. order[i] \in Block(n) /\ order[i] # b
    BY <1>1
  <2>3. DOMAIN c.stealth = Block(n)
    BY DEF ChunkType
  <2>4. QED
    BY <1>3, <2>2, <2>3
<1>8. IsFreeList(d, more)
  <2>1. \A i, j \in 1 .. avail + 1 : more[i] = more[j] => i = j
    BY <1>1, <1>2, <1>7 DEF IsFreeList
  <2>2. more[1] = d.firstAvailableBlock
    BY <1>2, <1>3
  <2>3. \A i \in 1 .. avail : d.stealth[more[i]] = more[i + 1]
    <3>1. TAKE i \in 1 .. avail
    <3>2. CASE i = 1
      BY <1>1, <1>2, <1>6, <3>2 DEF IsFreeList
    <3>3. CASE i # 1
      <4>1. i - 1 \in 1 .. avail - 1 /\ (i - 1) + 1 = i /\ i - 1 \in 1 .. avail
        BY <1>2, <3>3
      <4>2. more[i] = order[i - 1] /\ more[i + 1] = order[i]
        BY <1>2, <3>3
      <4>3. c.stealth[order[i - 1]] = order[i]
        BY <1>1, <4>1 DEF IsFreeList
      <4>4. QED
        BY <1>7, <4>1, <4>2, <4>3
    <3>4. QED
      BY <3>2, <3>3
  <2>4. \A i \in 1 .. avail + 1 : d.stealth[more[i]] # Client
    BY <1>1, <1>2, <1>6, <1>7 DEF IsFreeList
  <2>5. d.blocksAvailable - 1 = avail
    BY <1>2, <1>3
  <2> HIDE DEF d, more, avail
  <2>6. QED
    BY <1>3, <2>1, <2>2, <2>3, <2>4, <2>5 DEF IsFreeList
<1>9. free \cup {b} = {more[i] : i \in 1 .. avail + 1}
  <2>1. ASSUME NEW x \in free PROVE \E i \in 1 .. avail + 1 : x = more[i]
    <3>1. PICK i \in 1 .. avail : x = order[i]
      BY <1>1
    <3>2. i + 1 \in 1 .. avail + 1 /\ more[i + 1] = order[i]
      BY <1>2
    <3>3. QED
      BY <3>1, <3>2
  <2>2. b = more[1] /\ 1 \in 1 .. avail + 1
    BY <1>2
  <2>3. ASSUME NEW i \in 1 .. avail + 1 PROVE more[i] \in free \cup {b}
    BY <1>1, <1>2
  <2> HIDE DEF more
  <2>4. QED
    BY <2>1, <2>2, <2>3
<1>10. ~HasAvailable(c, n)
  BY <1>2 DEF HasAvailable
<1>11. QED
  BY <1>3, <1>4, <1>5, <1>8, <1>9, <1>10 DEF FreeListIs
-----------------------------------------------------------------------------
(* The traversal of IsCorrupt and IsBlockAvailable *)

\* Index k of a traversal g of chunk c, from the one before it.
WalkStep(c, n, g, k) ==
  IF k = 1 THEN c.firstAvailableBlock
  ELSE IF g[k - 1] \in Block(n) THEN c.stealth[g[k - 1]] ELSE g[k - 1]

\* g is a traversal of j steps.
Walks(c, n, g, j) == g = [k \in 1 .. j |-> WalkStep(c, n, g, k)]

\* A traversal is given by each of its steps.
LEMMA TraversalPointwise ==
  ASSUME NEW c, NEW n, NEW g, NEW j \in Nat,
         g = [k \in 1 .. j |-> g[k]], \A k \in 1 .. j : g[k] = WalkStep(c, n, g, k)
  PROVE  Walks(c, n, g, j)
  BY DEF Walks

\* The same, read the other way.
LEMMA TraversalStepwise ==
  ASSUME NEW c, NEW n, NEW g, NEW j \in Nat, Walks(c, n, g, j)
  PROVE  /\ g = [k \in 1 .. j |-> g[k]]
         /\ \A k \in 1 .. j : g[k] = WalkStep(c, n, g, k)
<1> DEFINE h == [k \in 1 .. j |-> WalkStep(c, n, g, k)]
<1>1. g = h
  BY DEF Walks
<1>2. h = [k \in 1 .. j |-> h[k]] /\ \A k \in 1 .. j : h[k] = WalkStep(c, n, g, k)
  OBVIOUS
<1> HIDE DEF h
<1>3. QED
  BY <1>1, <1>2

(* There is a traversal of any length, so Traversal is one: index by index, each  *)
(* from the one before it, whatever is written in the chunk.                *)
LEMMA TraversalIs ==
  ASSUME NEW c, NEW n, c.blocksAvailable \in Nat
  PROVE  Walks(c, n, Traversal(c, n), c.blocksAvailable)
<1> DEFINE m == c.blocksAvailable
           S == {j \in 0 .. m : ~\E g : Walks(c, n, g, j)}
<1>1. \E g : Walks(c, n, g, m)
  <2>1. SUFFICES ASSUME S # {} PROVE FALSE
    BY DEF S
  <2>2. PICK x \in S : \A y \in S : x <= y
    <3>1. S \in SUBSET Nat
      OBVIOUS
    <3> HIDE DEF S
    <3>2. QED
      BY <2>1, <3>1, NatLeast
  <2>3. x # 0
    <3> DEFINE g == [k \in 1 .. 0 |-> 0]
    <3>1. Walks(c, n, g, 0)
      BY DEF Walks
    <3>2. QED
      BY <2>2, <3>1
  <2>4. x \in 1 .. m /\ x - 1 \in 0 .. m /\ x - 1 < x /\ x - 1 \in Nat /\ x \in Nat
    BY <2>2, <2>3
  <2>5. PICK g : Walks(c, n, g, x - 1)
    BY <2>2, <2>4
  <2> HIDE DEF S
  <2>6. \A k \in 1 .. x - 1 : g[k] = WalkStep(c, n, g, k)
    BY <2>4, <2>5, TraversalStepwise
  <2> DEFINE h == [k \in 1 .. x |-> IF k = x THEN WalkStep(c, n, g, x) ELSE g[k]]
  <2>7. h = [k \in 1 .. x |-> h[k]]
    OBVIOUS
  <2>8. h[x] = WalkStep(c, n, g, x) /\ \A k \in 1 .. x - 1 : h[k] = g[k]
    BY <2>4
  <2> HIDE DEF h
  <2>9. ASSUME NEW k \in 1 .. x PROVE h[k] = WalkStep(c, n, h, k)
    <3>1. WalkStep(c, n, g, k) = WalkStep(c, n, h, k)
      <4>1. CASE k = 1
        BY <4>1 DEF WalkStep
      <4>2. CASE k # 1
        <5>1. k - 1 \in 1 .. x - 1
          BY <2>4, <4>2
        <5>2. h[k - 1] = g[k - 1]
          BY <2>8, <5>1
        <5>3. QED
          BY <5>2 DEF WalkStep
      <4>3. QED
        BY <4>1, <4>2
    <3>2. k = x \/ k \in 1 .. x - 1
      BY <2>4
    <3>3. QED
      BY <2>6, <2>8, <3>1, <3>2
  <2>10. Walks(c, n, h, x)
    BY <2>4, <2>7, <2>9, TraversalPointwise
  <2>11. QED
    BY <2>2, <2>10 DEF S
<1>2. Traversal(c, n) = CHOOSE g : Walks(c, n, g, m)
  BY DEF Traversal, Walks, WalkStep
<1>3. QED
  BY <1>1, <1>2

\* order lists blocksAvailable_ different blocks, each holding the next one's
\* index: a free list, as far as the chunk itself can tell.
Lists(c, order) ==
  /\ \A i, j \in 1 .. c.blocksAvailable : order[i] = order[j] => i = j
  /\ c.blocksAvailable > 0 => order[1] = c.firstAvailableBlock
  /\ \A i \in 1 .. c.blocksAvailable - 1 : c.stealth[order[i]] = order[i + 1]

(* The traversal meets the blocks of a list in their order. *)
LEMMA WalkFollowsList ==
  ASSUME NEW c, NEW n, c.blocksAvailable \in Nat,
         NEW order \in [1 .. c.blocksAvailable -> Block(n)], Lists(c, order)
  PROVE  \A k \in 1 .. c.blocksAvailable : Traversal(c, n)[k] = order[k]
<1> DEFINE m == c.blocksAvailable
           w == Traversal(c, n)
           S == {j \in 1 .. m : w[j] # order[j]}
<1>1. \A k \in 1 .. m : w[k] = WalkStep(c, n, w, k)
  BY TraversalIs, TraversalStepwise
<1> HIDE DEF w
<1>2. SUFFICES ASSUME S # {} PROVE FALSE
  BY DEF w
<1>3. PICK k \in S : \A j \in S : k <= j
  <2>1. S \in SUBSET Nat
    OBVIOUS
  <2> HIDE DEF S
  <2>2. QED
    BY <1>2, <2>1, NatLeast
<1>4. k # 1
  BY <1>1, <1>3 DEF Lists, WalkStep
<1>5. k - 1 \in 1 .. m - 1 /\ k - 1 \in 1 .. m /\ (k - 1) + 1 = k
  BY <1>3, <1>4
<1>6. w[k - 1] = order[k - 1]
  BY <1>3, <1>5
<1>7. order[k - 1] \in Block(n) /\ c.stealth[order[k - 1]] = order[k]
  BY <1>5 DEF Lists
<1>8. w[k] = order[k]
  BY <1>1, <1>3, <1>4, <1>6, <1>7 DEF WalkStep
<1>9. QED
  BY <1>3, <1>8

(* IsCorrupt finds nothing wrong with a chunk that has such a list, and      *)
(* IsBlockAvailable finds just the blocks on it.                            *)
LEMMA ListedNotCorrupt ==
  ASSUME NEW c, NEW n \in Nat, c.blocksAvailable \in 0 .. n,
         NEW order \in [1 .. c.blocksAvailable -> Block(n)], Lists(c, order)
  PROVE  /\ ~ChunkIsCorrupt(c, n)
         /\ \A b : IsBlockAvailable(c, n, b) <=>
                     b \in {order[i] : i \in 1 .. c.blocksAvailable}
<1>1. \A k \in 1 .. c.blocksAvailable : Traversal(c, n)[k] = order[k]
  BY WalkFollowsList
<1>2. ASSUME NEW k \in 1 .. c.blocksAvailable
      PROVE  /\ Traversal(c, n)[k] \in Block(n)
             /\ \A j \in 1 .. k - 1 : Traversal(c, n)[j] # Traversal(c, n)[k]
  <2>1. Traversal(c, n)[k] \in Block(n)
    BY <1>1
  <2>2. ASSUME NEW j \in 1 .. k - 1 PROVE Traversal(c, n)[j] # Traversal(c, n)[k]
    <3>1. j \in 1 .. c.blocksAvailable /\ j # k
      OBVIOUS
    <3>2. order[j] # order[k]
      BY <3>1 DEF Lists
    <3>3. QED
      BY <1>1, <3>1, <3>2
  <2>3. QED
    BY <2>1, <2>2
<1>3. ~ChunkIsCorrupt(c, n)
  BY <1>2 DEF ChunkIsCorrupt
<1>4. \A b : IsBlockAvailable(c, n, b) <=> b \in {order[i] : i \in 1 .. c.blocksAvailable}
  BY <1>1 DEF IsBlockAvailable
<1>5. QED
  BY <1>3, <1>4

(* A traversal that IsCorrupt has no fault to find with is itself the list. *)
LEMMA NotCorruptListed ==
  ASSUME NEW c, NEW n \in Nat, c.blocksAvailable \in Nat, ~ChunkIsCorrupt(c, n)
  PROVE  /\ Traversal(c, n) \in [1 .. c.blocksAvailable -> Block(n)]
         /\ Lists(c, Traversal(c, n))
<1> DEFINE m == c.blocksAvailable
           w == Traversal(c, n)
<1>1. w = [k \in 1 .. m |-> w[k]] /\ \A k \in 1 .. m : w[k] = WalkStep(c, n, w, k)
  BY TraversalIs, TraversalStepwise
<1>2. \A k \in 1 .. m : w[k] \in Block(n) /\ \A j \in 1 .. k - 1 : w[j] # w[k]
  BY DEF ChunkIsCorrupt
<1> HIDE DEF w
<1>3. w \in [1 .. m -> Block(n)]
  BY <1>1, <1>2
<1>4. \A i, j \in 1 .. m : w[i] = w[j] => i = j
  <2>1. SUFFICES ASSUME NEW i \in 1 .. m, NEW j \in 1 .. m, i < j PROVE w[i] # w[j]
    OBVIOUS
  <2>2. i \in 1 .. j - 1
    BY <2>1
  <2>3. QED
    BY <1>2, <2>2
<1>5. m > 0 => w[1] = c.firstAvailableBlock
  BY <1>1 DEF WalkStep
<1>6. ASSUME NEW i \in 1 .. m - 1 PROVE c.stealth[w[i]] = w[i + 1]
  <2>1. i + 1 \in 1 .. m /\ i + 1 # 1 /\ (i + 1) - 1 = i /\ i \in 1 .. m
    OBVIOUS
  <2>2. w[i] \in Block(n)
    BY <1>2, <2>1
  <2>3. QED
    BY <1>1, <2>1, <2>2 DEF WalkStep
<1>7. QED
  BY <1>3, <1>4, <1>5, <1>6 DEF Lists, w

-----------------------------------------------------------------------------
(* Links of smart pointers *)

\* LinksInverse, of given links and smart pointers.
Mutual(l, M) ==
  /\ l \in Links
  /\ \A n \in M : l.next[n] \in M /\ l.prev[l.next[n]] = n
  /\ \A n \in M : l.prev[n] \in M /\ l.next[l.prev[n]] = n
  /\ \A n \in Node \ M : l.next[n] = NoNode /\ l.prev[n] = NoNode

\* Neighbours lead to the same object.
Alike(l, M, v) == \A n \in M : v[l.next[n]] = v[n]

-----------------------------------------------------------------------------
(* What the operations do to the links *)

\* A new smart pointer that is linked to itself leaves the others as they are.
LEMMA AloneKeeps ==
  ASSUME NEW l, NEW M \in SUBSET Node, Mutual(l, M), NEW n \in Node \ M,
         NEW v, Alike(l, M, v)
  PROVE  /\ Mutual(LinkAlone(l, n), M \cup {n})
         /\ Alike(LinkAlone(l, n), M \cup {n}, v)
         /\ IsAlone(LinkAlone(l, n), n)
         /\ \A m \in M : LinkAlone(l, n).next[m] = l.next[m]
<1> DEFINE r == LinkAlone(l, n)
<1>1. /\ r.prev = [l.prev EXCEPT ![n] = n] /\ r.next = [l.next EXCEPT ![n] = n]
      /\ r \in Links
      /\ l.prev \in [Node -> Node \cup {NoNode}] /\ l.next \in [Node -> Node \cup {NoNode}]
  BY DEF LinkAlone, Links, Mutual
<1>2. \A m \in Node : /\ r.prev[m] = IF m = n THEN n ELSE l.prev[m]
                      /\ r.next[m] = IF m = n THEN n ELSE l.next[m]
  BY <1>1
<1> HIDE DEF r
<1>3. Mutual(r, M \cup {n}) /\ Alike(r, M \cup {n}, v)
  BY <1>1, <1>2 DEF Mutual, Alike
<1>4. QED
  BY <1>2, <1>3 DEF r, IsAlone

\* RefLinkedBase(rhs): a copy enters the cycle of the pointer it copies.
LEMMA AfterKeeps ==
  ASSUME NEW l, NEW M \in SUBSET Node, Mutual(l, M), NEW n \in Node \ M, NEW m \in M,
         NEW v, Alike(l, M, v), v[n] = v[m]
  PROVE  /\ Mutual(LinkAfter(l, n, m), M \cup {n})
         /\ Alike(LinkAfter(l, n, m), M \cup {n}, v)
<1> DEFINE r == LinkAfter(l, n, m)
           q == l.next[m]
<1>1. /\ r.prev = [l.prev EXCEPT ![n] = m, ![q] = n]
      /\ r.next = [l.next EXCEPT ![n] = q, ![m] = n]
      /\ l.prev \in [Node -> Node \cup {NoNode}] /\ l.next \in [Node -> Node \cup {NoNode}]
      /\ q \in M /\ q # n /\ m # n
  BY DEF LinkAfter, Links, Mutual
<1>2. r \in Links
  BY <1>1 DEF LinkAfter, Links
<1>3. \A k \in Node :
        /\ r.prev[k] = IF k = n THEN m ELSE IF k = q THEN n ELSE l.prev[k]
        /\ r.next[k] = IF k = n THEN q ELSE IF k = m THEN n ELSE l.next[k]
  BY <1>1
<1>4. l.prev[q] = m /\ v[q] = v[m]
  BY DEF Mutual, Alike
<1> HIDE DEF r
<1>5. Mutual(r, M \cup {n})
  <2>1. \A k \in M \cup {n} : r.next[k] \in M \cup {n} /\ r.prev[r.next[k]] = k
    BY <1>1, <1>3, <1>4 DEF Mutual
  <2>2. \A k \in M \cup {n} : r.prev[k] \in M \cup {n} /\ r.next[r.prev[k]] = k
    BY <1>1, <1>3, <1>4 DEF Mutual
  <2>3. \A k \in Node \ (M \cup {n}) : r.next[k] = NoNode /\ r.prev[k] = NoNode
    BY <1>1, <1>3 DEF Mutual
  <2>4. QED
    BY <1>2, <2>1, <2>2, <2>3 DEF Mutual
<1>6. Alike(r, M \cup {n}, v)
  BY <1>1, <1>3, <1>4 DEF Alike
<1>7. QED
  BY <1>5, <1>6 DEF r

\* Release: the neighbours of the one that goes are linked to each other.
LEMMA UnlinkKeeps ==
  ASSUME NEW l, NEW M \in SUBSET Node, Mutual(l, M), NEW n \in M,
         NEW v, Alike(l, M, v)
  PROVE  /\ Mutual(Unlink(l, n), M \ {n})
         /\ Alike(Unlink(l, n), M \ {n}, v)
<1> DEFINE r == Unlink(l, n)
           p == l.prev[n]
           q == l.next[n]
<1>1. /\ l.prev \in [Node -> Node \cup {NoNode}] /\ l.next \in [Node -> Node \cup {NoNode}]
      /\ p \in M /\ q \in M /\ l.prev[q] = n /\ l.next[p] = n
      /\ v[q] = v[n] /\ v[n] = v[p]
  BY DEF Links, Mutual, Alike
<1>2. CASE IsAlone(l, n)
  <2>1. /\ r.prev = [l.prev EXCEPT ![n] = NoNode] /\ r.next = [l.next EXCEPT ![n] = NoNode]
    BY <1>2 DEF Unlink
  <2>2. r \in Links /\ p = n /\ q = n
    BY <1>1, <1>2 DEF Unlink, Links, IsAlone
  <2>3. \A k \in Node : /\ r.prev[k] = IF k = n THEN NoNode ELSE l.prev[k]
                        /\ r.next[k] = IF k = n THEN NoNode ELSE l.next[k]
    BY <1>1, <2>1
  <2> HIDE DEF r
  <2>4. Mutual(r, M \ {n})
    BY <1>1, <2>2, <2>3 DEF Mutual
  <2>5. Alike(r, M \ {n}, v)
    BY <1>1, <2>2, <2>3 DEF Alike
  <2>6. QED
    BY <2>4, <2>5 DEF r
<1>3. CASE ~IsAlone(l, n)
  <2>1. /\ r.prev = [[l.prev EXCEPT ![q] = p] EXCEPT ![n] = NoNode]
        /\ r.next = [[l.next EXCEPT ![p] = q] EXCEPT ![n] = NoNode]
    BY <1>3 DEF Unlink
  <2>2. r \in Links /\ p # n /\ q # n
    BY <1>1, <1>3 DEF Unlink, Links, IsAlone, Mutual
  <2>3. \A k \in Node :
          /\ r.prev[k] = IF k = n THEN NoNode ELSE IF k = q THEN p ELSE l.prev[k]
          /\ r.next[k] = IF k = n THEN NoNode ELSE IF k = p THEN q ELSE l.next[k]
    BY <1>1, <2>1
  <2> HIDE DEF r
  <2>4. Mutual(r, M \ {n})
    <3>1. \A k \in M \ {n} : r.next[k] \in M \ {n} /\ r.prev[r.next[k]] = k
      BY <1>1, <2>2, <2>3 DEF Mutual
    <3>2. \A k \in M \ {n} : r.prev[k] \in M \ {n} /\ r.next[r.prev[k]] = k
      BY <1>1, <2>2, <2>3 DEF Mutual
    <3>3. QED
      BY <2>2, <2>3, <3>1, <3>2 DEF Mutual
  <2>5. Alike(r, M \ {n}, v)
    BY <1>1, <2>2, <2>3 DEF Alike
  <2>6. QED
    BY <2>4, <2>5 DEF r
<1>4. QED
  BY <1>2, <1>3

-----------------------------------------------------------------------------
(* Swap *)

\* The other of two places.
Other(a, b, n) == IF n = a THEN b ELSE IF n = b THEN a ELSE n

\* r is l with the places of a and b exchanged.
Exchanged(l, r, M, a, b) ==
  /\ r \in Links
  /\ \A m \in M : /\ r.next[m] = Other(a, b, l.next[Other(a, b, m)])
                  /\ r.prev[m] = Other(a, b, l.prev[Other(a, b, m)])
  /\ \A m \in Node \ M : r.next[m] = l.next[m] /\ r.prev[m] = l.prev[m]

\* Swap of one that is alone with one that is not.
LEMMA TakePlaceExchanges ==
  ASSUME NEW l, NEW M \in SUBSET Node, Mutual(l, M), NEW a \in M, NEW b \in M,
         IsAlone(l, a), ~IsAlone(l, b)
  PROVE  Exchanged(l, TakePlace(l, a, b), M, a, b)
<1> DEFINE r == TakePlace(l, a, b)
           p == l.prev[b]
           q == l.next[b]
<1>1. /\ l.prev \in [Node -> Node \cup {NoNode}] /\ l.next \in [Node -> Node \cup {NoNode}]
      /\ p \in M /\ q \in M /\ l.prev[q] = b /\ l.next[p] = b
      /\ a # b /\ l.next[a] = a /\ l.prev[a] = a
      /\ p # a /\ p # b /\ q # a /\ q # b
  BY DEF Links, Mutual, IsAlone
<1>2. /\ r.prev = [l.prev EXCEPT ![a] = p, ![q] = a, ![b] = b]
      /\ r.next = [l.next EXCEPT ![a] = q, ![p] = a, ![b] = b]
  BY DEF TakePlace
<1>3. r \in Links
  BY <1>1 DEF TakePlace, Links
<1>4. \A m \in Node :
        /\ r.prev[m] = IF m = b THEN b ELSE IF m = q THEN a ELSE IF m = a THEN p ELSE l.prev[m]
        /\ r.next[m] = IF m = b THEN b ELSE IF m = p THEN a ELSE IF m = a THEN q ELSE l.next[m]
  BY <1>1, <1>2
<1> HIDE DEF r
<1>5. \A m \in M : /\ l.next[m] = b => m = p
                   /\ l.next[m] = a => m = a
                   /\ l.prev[m] = b => m = q
                   /\ l.prev[m] = a => m = a
  BY <1>1 DEF Mutual
<1>6. \A m \in M : /\ r.next[m] = Other(a, b, l.next[Other(a, b, m)])
                   /\ r.prev[m] = Other(a, b, l.prev[Other(a, b, m)])
  BY <1>1, <1>4, <1>5 DEF Other
<1>7. QED
  BY <1>1, <1>3, <1>4, <1>6 DEF Exchanged, r

\* Swap of two that follow each other in a longer cycle.
LEMMA NeighboursExchange ==
  ASSUME NEW l, NEW M \in SUBSET Node, Mutual(l, M), NEW a \in M, NEW b \in M,
         l.next[a] = b, l.prev[a] # b, ~IsAlone(l, a)
  PROVE  Exchanged(l, SwapNeighbours(l, a, b), M, a, b)
<1> DEFINE r == SwapNeighbours(l, a, b)
           p == l.prev[a]
           q == l.next[b]
<1>1. /\ l.prev \in [Node -> Node \cup {NoNode}] /\ l.next \in [Node -> Node \cup {NoNode}]
      /\ p \in M /\ q \in M /\ l.prev[q] = b /\ l.next[p] = a /\ l.prev[b] = a
      /\ a # b /\ p # a /\ p # b /\ q # a /\ q # b
  BY DEF Links, Mutual, IsAlone
<1>2. /\ r.prev = [l.prev EXCEPT ![a] = b, ![b] = p, ![q] = a]
      /\ r.next = [l.next EXCEPT ![a] = q, ![b] = a, ![p] = b]
  BY <1>1 DEF SwapNeighbours
<1>3. r \in Links
  BY <1>1, <1>2 DEF SwapNeighbours, Links
<1>4. \A m \in Node :
        /\ r.prev[m] = IF m = q THEN a ELSE IF m = b THEN p ELSE IF m = a THEN b ELSE l.prev[m]
        /\ r.next[m] = IF m = p THEN b ELSE IF m = b THEN a ELSE IF m = a THEN q ELSE l.next[m]
  BY <1>1, <1>2
<1> HIDE DEF r
<1>5. \A m \in M : /\ l.next[m] = b => m = a
                   /\ l.next[m] = a => m = p
                   /\ l.prev[m] = b => m = q
                   /\ l.prev[m] = a => m = b
  BY <1>1 DEF Mutual
<1>6. \A m \in M : /\ r.next[m] = Other(a, b, l.next[Other(a, b, m)])
                   /\ r.prev[m] = Other(a, b, l.prev[Other(a, b, m)])
  BY <1>1, <1>4, <1>5 DEF Other
<1>7. QED
  BY <1>1, <1>3, <1>4, <1>6 DEF Exchanged, r

\* Swap of two that are not neighbours, in one cycle or in two.
LEMMA ApartExchange ==
  ASSUME NEW l, NEW M \in SUBSET Node, Mutual(l, M), NEW a \in M, NEW b \in M,
         l.next[a] # b, l.prev[a] # b, ~IsAlone(l, a), ~IsAlone(l, b), a # b
  PROVE  Exchanged(l, SwapApart(l, a, b), M, a, b)
<1> DEFINE r == SwapApart(l, a, b)
           pa == l.prev[a]
           qa == l.next[a]
           pb == l.prev[b]
           qb == l.next[b]
           pr == Exchange(l.prev, a, b)
           n1 == Exchange(l.next, a, b)
           n2 == Exchange(n1, pb, pa)
           p2 == Exchange(pr, qb, qa)
<1>1. /\ l.prev \in [Node -> Node \cup {NoNode}] /\ l.next \in [Node -> Node \cup {NoNode}]
      /\ {pa, qa, pb, qb} \subseteq M
      /\ l.prev[qa] = a /\ l.next[pa] = a /\ l.prev[qb] = b /\ l.next[pb] = b
      /\ {pa, qa, pb, qb} \cap {a, b} = {} /\ pa # pb /\ qa # qb
  BY DEF Links, Mutual, IsAlone
<1>2. /\ pr \in [Node -> Node \cup {NoNode}]
      /\ n1 \in [Node -> Node \cup {NoNode}]
      /\ \A m \in Node : /\ pr[m] = IF m = b THEN pa ELSE IF m = a THEN pb ELSE l.prev[m]
                         /\ n1[m] = IF m = b THEN qa ELSE IF m = a THEN qb ELSE l.next[m]
  BY <1>1 DEF Exchange
<1>3. pr[a] = pb /\ pr[b] = pa
  BY <1>1, <1>2
<1>ends. l.next[a] = qa /\ l.next[b] = qb /\ l.prev[a] = pa /\ l.prev[b] = pb
  OBVIOUS
<1> HIDE DEF n1, pr, pa, pb
<1>4. /\ n2 \in [Node -> Node \cup {NoNode}]
      /\ \A m \in Node : n2[m] = IF m = pa THEN n1[pb] ELSE IF m = pb THEN n1[pa] ELSE n1[m]
  BY <1>1, <1>2 DEF Exchange
<1> HIDE DEF n2
<1>5. n2[a] = qb /\ n2[b] = qa
  BY <1>1, <1>2, <1>4
<1> HIDE DEF qa, qb
<1>6. /\ p2 \in [Node -> Node \cup {NoNode}]
      /\ \A m \in Node : p2[m] = IF m = qa THEN pr[qb] ELSE IF m = qb THEN pr[qa] ELSE pr[m]
  BY <1>1, <1>2 DEF Exchange
<1>7. r = [prev |-> p2, next |-> n2]
  BY <1>3, <1>5 DEF SwapApart, pr, n1, n2
<1> HIDE DEF p2
<1>8. r \in Links /\ r.prev = p2 /\ r.next = n2
  BY <1>4, <1>6, <1>7 DEF Links
<1> HIDE DEF r
<1>9. \A m \in M : /\ l.next[m] = b => m = pb
                   /\ l.next[m] = a => m = pa
                   /\ l.prev[m] = b => m = qb
                   /\ l.prev[m] = a => m = qa
  BY <1>1 DEF Mutual, pa, pb, qa, qb
<1>10. \A m \in M : r.next[m] = Other(a, b, l.next[Other(a, b, m)])
  <2>1. ASSUME NEW m \in M \ {a, b}
        PROVE  r.next[m] = Other(a, b, l.next[m])
    <3>1. m \in Node /\ n1[m] = l.next[m] /\ n1[pa] = a /\ n1[pb] = b
      BY <1>1, <1>2
    <3>2. CASE m = pa
      BY <1>1, <1>4, <1>8, <3>1, <3>2 DEF Other
    <3>3. CASE m = pb
      BY <1>1, <1>4, <1>8, <3>1, <3>3 DEF Other
    <3>4. CASE m # pa /\ m # pb
      <4>1. l.next[m] # a /\ l.next[m] # b
        BY <1>9, <3>4
      <4>2. QED
        BY <1>4, <1>8, <3>1, <3>4, <4>1 DEF Other
    <3>5. QED
      BY <3>2, <3>3, <3>4
  <2>2. r.next[a] = Other(a, b, l.next[b]) /\ r.next[b] = Other(a, b, l.next[a])
    BY <1>1, <1>2, <1>4, <1>8, <1>9, <1>ends DEF Other
  <2>3. QED
    BY <2>1, <2>2 DEF Other
<1>11. \A m \in M : r.prev[m] = Other(a, b, l.prev[Other(a, b, m)])
  <2>1. ASSUME NEW m \in M \ {a, b}
        PROVE  r.prev[m] = Other(a, b, l.prev[m])
    <3>1. m \in Node /\ pr[m] = l.prev[m] /\ pr[qa] = a /\ pr[qb] = b
      BY <1>1, <1>2
    <3>2. CASE m = qa
      BY <1>1, <1>6, <1>8, <3>1, <3>2 DEF Other
    <3>3. CASE m = qb
      BY <1>1, <1>6, <1>8, <3>1, <3>3 DEF Other
    <3>4. CASE m # qa /\ m # qb
      <4>1. l.prev[m] # a /\ l.prev[m] # b
        BY <1>9, <3>4
      <4>2. QED
        BY <1>6, <1>8, <3>1, <3>4, <4>1 DEF Other
    <3>5. QED
      BY <3>2, <3>3, <3>4
  <2>2. r.prev[a] = Other(a, b, l.prev[b]) /\ r.prev[b] = Other(a, b, l.prev[a])
    BY <1>1, <1>2, <1>6, <1>8, <1>9, <1>ends DEF Other
  <2>3. QED
    BY <2>1, <2>2 DEF Other
<1>12. \A m \in Node \ M : r.next[m] = l.next[m] /\ r.prev[m] = l.prev[m]
  BY <1>1, <1>2, <1>4, <1>6, <1>8
<1>13. QED
  BY <1>8, <1>10, <1>11, <1>12 DEF Exchanged, r

\* Which of the two is named first makes no difference.
LEMMA ExchangedBack ==
  ASSUME NEW l, NEW r, NEW M, NEW a, NEW b, Exchanged(l, r, M, b, a)
  PROVE  Exchanged(l, r, M, a, b)
<1>1. \A m : Other(a, b, m) = Other(b, a, m)
  BY DEF Other
<1>2. QED
  BY <1>1 DEF Exchanged

(* Swap exchanges the places of its two smart pointers, whichever of its    *)
(* six cases they are.                                                      *)
LEMMA SwapExchanges ==
  ASSUME NEW l, NEW M \in SUBSET Node, Mutual(l, M), NEW a \in M, NEW b \in M
  PROVE  Exchanged(l, SwapLinks(l, a, b), M, a, b)
<1>1. /\ l \in Links
      /\ l.prev \in [Node -> Node \cup {NoNode}] /\ l.next \in [Node -> Node \cup {NoNode}]
  BY DEF Mutual, Links
<1>2. CASE IsAlone(l, a) /\ IsAlone(l, b)
  <2>1. SwapLinks(l, a, b) = l
    BY <1>2 DEF SwapLinks
  <2>2. \A m \in M : /\ l.next[m] = a => m = a
                     /\ l.next[m] = b => m = b
                     /\ l.prev[m] = a => m = a
                     /\ l.prev[m] = b => m = b
    BY <1>2 DEF IsAlone, Mutual
  <2>3. l.next[a] = a /\ l.prev[a] = a /\ l.next[b] = b /\ l.prev[b] = b
    BY <1>2 DEF IsAlone, Mutual
  <2>4. QED
    BY <1>1, <2>1, <2>2, <2>3 DEF Exchanged, Other
<1>3. CASE IsAlone(l, a) /\ ~IsAlone(l, b)
  <2>1. SwapLinks(l, a, b) = TakePlace(l, a, b)
    BY <1>3 DEF SwapLinks
  <2>2. QED
    BY <1>3, <2>1, TakePlaceExchanges
<1>4. CASE ~IsAlone(l, a) /\ IsAlone(l, b)
  <2>1. SwapLinks(l, a, b) = TakePlace(l, b, a)
    BY <1>4 DEF SwapLinks
  <2>2. QED
    BY <1>4, <2>1, TakePlaceExchanges, ExchangedBack
<1>5. CASE ~IsAlone(l, a) /\ ~IsAlone(l, b) /\ l.next[a] = b /\ l.prev[a] = b
  <2>1. SwapLinks(l, a, b) = l
    BY <1>5 DEF SwapLinks
  <2>2. \A m \in M : /\ l.next[m] = b => m = a
                     /\ l.next[m] = a => m = b
                     /\ l.prev[m] = b => m = a
                     /\ l.prev[m] = a => m = b
    BY <1>5 DEF Mutual
  <2>3. l.next[b] = a /\ l.prev[b] = a
    BY <1>5 DEF Mutual
  <2>4. QED
    BY <1>1, <1>5, <2>1, <2>2, <2>3 DEF Exchanged, Other
<1>6. CASE ~IsAlone(l, a) /\ ~IsAlone(l, b) /\ l.next[a] = b /\ l.prev[a] # b
  <2>1. SwapLinks(l, a, b) = SwapNeighbours(l, a, b)
    BY <1>6 DEF SwapLinks
  <2>2. QED
    BY <1>6, <2>1, NeighboursExchange
<1>7. CASE ~IsAlone(l, a) /\ ~IsAlone(l, b) /\ l.next[a] # b /\ l.prev[a] = b
  <2>1. SwapLinks(l, a, b) = SwapNeighbours(l, b, a)
    BY <1>7 DEF SwapLinks
  <2>2. l.next[b] = a /\ l.prev[b] # a
    BY <1>7 DEF Mutual
  <2>3. QED
    BY <1>7, <2>1, <2>2, NeighboursExchange, ExchangedBack
<1>8. CASE ~IsAlone(l, a) /\ ~IsAlone(l, b) /\ l.next[a] # b /\ l.prev[a] # b
  <2>1. SwapLinks(l, a, b) = SwapApart(l, a, b)
    BY <1>8 DEF SwapLinks
  <2>2. CASE a # b
    BY <1>8, <2>1, <2>2, ApartExchange
  <2>3. CASE a = b
    <3> DEFINE p == l.prev[a]
               f == l.next
               g == l.prev
    <3>1. f \in [Node -> Node \cup {NoNode}] /\ g \in [Node -> Node \cup {NoNode}]
          /\ p \in Node /\ f[a] \in Node
      BY <1>1 DEF Mutual
    <3>2. Exchange(f, a, a) = f /\ Exchange(g, a, a) = g /\ Exchange(f, p, p) = f
          /\ Exchange(g, f[a], f[a]) = g
      BY <3>1 DEF Exchange
    <3>3. SwapApart(l, a, a) = [prev |-> g, next |-> f]
      BY <3>2 DEF SwapApart
    <3>4. /\ SwapApart(l, a, a) \in Links
          /\ SwapApart(l, a, a).next = l.next /\ SwapApart(l, a, a).prev = l.prev
      BY <3>1, <3>3 DEF Links
    <3>5. QED
      BY <2>1, <2>3, <3>4 DEF Exchanged, Other
  <2>4. QED
    BY <2>2, <2>3
<1>9. QED
  BY <1>2, <1>3, <1>4, <1>5, <1>6, <1>7, <1>8

\* Exchanging two places twice changes nothing.
LEMMA OtherTwice ==
  ASSUME NEW a, NEW b, NEW n
  PROVE  /\ Other(a, b, Other(a, b, n)) = n
         /\ \A M : a \in M /\ b \in M /\ n \in M => Other(a, b, n) \in M
  BY DEF Other

\* When two exchange their places and what they lead to, links stay cycles
\* and the members of a cycle still lead to one object.
LEMMA ExchangedKeeps ==
  ASSUME NEW l, NEW r, NEW M \in SUBSET Node, Mutual(l, M), NEW a \in M, NEW b \in M,
         Exchanged(l, r, M, a, b),
         NEW v, NEW w, Alike(l, M, v), \A m \in M : w[m] = v[Other(a, b, m)]
  PROVE  Mutual(r, M) /\ Alike(r, M, w)
<1> DEFINE O(n) == Other(a, b, n)
<1>1. \A n \in M : O(O(n)) = n /\ O(n) \in M
  BY OtherTwice
<1>2. \A m \in M : r.next[m] = O(l.next[O(m)]) /\ r.prev[m] = O(l.prev[O(m)])
  BY DEF Exchanged
<1>3. \A m \in M : w[m] = v[O(m)]
  OBVIOUS
<1> HIDE DEF O
<1>4. \A n \in M : r.next[n] \in M /\ r.prev[r.next[n]] = n
  BY <1>1, <1>2 DEF Mutual
<1>5. \A n \in M : r.prev[n] \in M /\ r.next[r.prev[n]] = n
  BY <1>1, <1>2 DEF Mutual
<1>6. Mutual(r, M)
  BY <1>4, <1>5 DEF Mutual, Exchanged
<1>7. ASSUME NEW n \in M PROVE w[r.next[n]] = w[n]
  <2>1. O(n) \in M /\ l.next[O(n)] \in M
    BY <1>1 DEF Mutual
  <2>2. r.next[n] \in M /\ O(r.next[n]) = l.next[O(n)]
    BY <1>1, <1>2, <2>1
  <2>3. w[r.next[n]] = v[l.next[O(n)]] /\ w[n] = v[O(n)]
    BY <1>3, <2>2
  <2>4. QED
    BY <2>1, <2>3 DEF Alike
<1>8. QED
  BY <1>6, <1>7 DEF Alike

-----------------------------------------------------------------------------
(* Walks along the links *)

(* A set of numbers that starts at 0 and goes on from each number below m. *)
LEMMA UpTo ==
  ASSUME NEW m \in Nat, NEW S, 0 \in S, \A k \in 0 .. m : k \in S /\ k < m => k + 1 \in S
  PROVE  \A k \in 0 .. m : k \in S
<1> DEFINE D == {k \in 0 .. m : k \notin S}
<1>1. SUFFICES ASSUME D # {} PROVE FALSE
  OBVIOUS
<1>2. PICK x \in D : \A y \in D : x <= y
  <2>1. D \in SUBSET Nat
    OBVIOUS
  <2> HIDE DEF D
  <2>2. QED
    BY <1>1, <2>1, NatLeast
<1>3. x - 1 \in 0 .. m /\ x - 1 < m /\ (x - 1) + 1 = x /\ ~(x <= x - 1)
  BY <1>2
<1>4. QED
  BY <1>2, <1>3

\* Where a walk w from n along f is after k steps.
StepTo(f, n, w, k) ==
  IF k = 0 THEN n ELSE IF w[k - 1] = NoNode THEN NoNode ELSE f[w[k - 1]]

\* w is a walk of j steps.
WalkOf(f, n, w, j) == w = [k \in 0 .. j |-> StepTo(f, n, w, k)]

\* A walk is given by each of its steps.
LEMMA WalkStepwise ==
  ASSUME NEW f, NEW n, NEW w, NEW j \in Nat
  PROVE  WalkOf(f, n, w, j) <=> /\ w = [k \in 0 .. j |-> w[k]]
                                /\ \A k \in 0 .. j : w[k] = StepTo(f, n, w, k)
<1>1. ASSUME WalkOf(f, n, w, j)
      PROVE  w = [k \in 0 .. j |-> w[k]] /\ \A k \in 0 .. j : w[k] = StepTo(f, n, w, k)
  <2> DEFINE h == [k \in 0 .. j |-> StepTo(f, n, w, k)]
  <2>1. w = h
    BY <1>1 DEF WalkOf
  <2>2. h = [k \in 0 .. j |-> h[k]] /\ \A k \in 0 .. j : h[k] = StepTo(f, n, w, k)
    OBVIOUS
  <2> HIDE DEF h
  <2>3. QED
    BY <2>1, <2>2
<1>2. ASSUME w = [k \in 0 .. j |-> w[k]], \A k \in 0 .. j : w[k] = StepTo(f, n, w, k)
      PROVE  WalkOf(f, n, w, j)
  BY <1>2 DEF WalkOf
<1>3. QED
  BY <1>1, <1>2

(* There are walks of any length, so Walk is one. *)
LEMMA WalkIs ==
  ASSUME NEW f, NEW n
  PROVE  WalkOf(f, n, Walk(f, n), Cardinality(Node))
<1> DEFINE N == Cardinality(Node)
           S == {j \in Nat : \E w : WalkOf(f, n, w, j)}
<1>1. N \in Nat
  BY NodeAssumption, FS_CardinalityType
<1>2. 0 \in S
  <2> DEFINE w == [k \in 0 .. 0 |-> n]
  <2>1. w = [k \in 0 .. 0 |-> w[k]] /\ \A k \in 0 .. 0 : w[k] = StepTo(f, n, w, k)
    BY DEF StepTo
  <2> HIDE DEF w
  <2>2. WalkOf(f, n, w, 0)
    BY <2>1, WalkStepwise
  <2>3. QED
    BY <2>2
<1>3. ASSUME NEW k \in Nat, k \in S PROVE k + 1 \in S
  <2>1. PICK w : WalkOf(f, n, w, k)
    BY <1>3
  <2>2. \A i \in 0 .. k : w[i] = StepTo(f, n, w, i)
    BY <2>1, WalkStepwise
  <2> DEFINE q == k + 1
  <2>3. q \in Nat /\ q - 1 = k /\ q # 0
    OBVIOUS
  <2> HIDE DEF q
  <2> DEFINE v == [i \in 0 .. q |-> IF i = q THEN StepTo(f, n, w, q) ELSE w[i]]
  <2>4. v = [i \in 0 .. q |-> v[i]] /\ v[q] = StepTo(f, n, w, q)
    BY <2>3
  <2>5. \A i \in 0 .. k : i \in 0 .. q /\ i # q /\ v[i] = w[i]
    BY <2>3
  <2> HIDE DEF v
  <2>6. ASSUME NEW i \in 0 .. q PROVE v[i] = StepTo(f, n, v, i)
    <3>1. StepTo(f, n, w, i) = StepTo(f, n, v, i)
      <4>1. i # 0 => i - 1 \in 0 .. k
        BY <2>3
      <4>2. QED
        BY <2>5, <4>1 DEF StepTo
    <3>2. i = q \/ i \in 0 .. k
      BY <2>3
    <3>3. QED
      BY <2>2, <2>4, <2>5, <3>1, <3>2
  <2>7. WalkOf(f, n, v, q)
    BY <2>3, <2>4, <2>6, WalkStepwise
  <2>8. QED
    BY <2>3, <2>7 DEF q
<1> HIDE DEF S
<1>4. N \in S
  BY <1>1, <1>2, <1>3, UpTo
<1>5. \E w : WalkOf(f, n, w, N)
  BY <1>4 DEF S
<1>6. Walk(f, n) = CHOOSE w : WalkOf(f, n, w, N)
  BY DEF Walk, WalkOf, StepTo
<1>7. QED
  BY <1>5, <1>6

\* f leads around within M and g leads back.
Turns(f, g, M) ==
  /\ \A m \in M : f[m] \in M /\ g[f[m]] = m
  /\ \A m \in M : g[m] \in M /\ f[g[m]] = m

\* A cycle is what a walk of as many steps as there are places meets.
LEMMA CycleOf ==
  ASSUME NEW f, NEW n
  PROVE  /\ Cardinality(Node) \in Nat
         /\ Cycle(f, n) = {Walk(f, n)[k] : k \in 0 .. Cardinality(Node)} \ {NoNode}
         /\ Walk(f, n)[0] = n
         /\ \A k \in 0 .. Cardinality(Node) :
              k < Cardinality(Node) /\ Walk(f, n)[k] # NoNode
                => Walk(f, n)[k + 1] = f[Walk(f, n)[k]]
<1> DEFINE N == Cardinality(Node)
           w == Walk(f, n)
<1>1. N \in Nat
  BY NodeAssumption, FS_CardinalityType
<1>2. Cycle(f, n) = {w[k] : k \in 0 .. N} \ {NoNode}
  BY DEF Cycle
<1>3. \A k \in 0 .. N : w[k] = StepTo(f, n, w, k)
  BY <1>1, WalkIs, WalkStepwise
<1> HIDE DEF w, N
<1>4. w[0] = n
  BY <1>1, <1>3 DEF StepTo
<1>5. ASSUME NEW k \in 0 .. N, k < N, w[k] # NoNode PROVE w[k + 1] = f[w[k]]
  <2>1. k + 1 \in 0 .. N /\ k + 1 # 0 /\ (k + 1) - 1 = k
    BY <1>1, <1>5
  <2>2. QED
    BY <1>3, <1>5, <2>1 DEF StepTo
<1>6. QED
  BY <1>1, <1>2, <1>4, <1>5 DEF w, N

(* A walk stays within any set that its links do not leave. *)
LEMMA CycleWithin ==
  ASSUME NEW f, NEW S \in SUBSET Node, NEW n \in S, \A m \in S : f[m] \in S
  PROVE  Cycle(f, n) \subseteq S /\ \A k \in 0 .. Cardinality(Node) : Walk(f, n)[k] \in S
<1> DEFINE N == Cardinality(Node)
           w == Walk(f, n)
           D == {k \in 0 .. N : w[k] \in S}
<1>1. /\ N \in Nat /\ Cycle(f, n) = {w[k] : k \in 0 .. N} \ {NoNode} /\ w[0] = n
      /\ \A k \in 0 .. N : k < N /\ w[k] # NoNode => w[k + 1] = f[w[k]]
  BY CycleOf
<1> HIDE DEF w, N
<1>2. 0 \in D
  BY <1>1
<1>3. ASSUME NEW k \in 0 .. N, k \in D, k < N PROVE k + 1 \in D
  <2>1. w[k] \in S /\ w[k] # NoNode /\ k + 1 \in 0 .. N
    BY <1>1, <1>3, NodeAssumption
  <2>2. QED
    BY <1>1, <1>3, <2>1
<1>4. \A k \in 0 .. N : k \in D
  <2> HIDE DEF D
  <2>1. QED
    BY <1>1, <1>2, <1>3, UpTo
<1>5. QED
  BY <1>1, <1>4 DEF w, N

(* A walk along links that lead around comes back to where it began, so it  *)
(* meets whatever the links lead to, in both directions.                    *)
LEMMA CycleClosed ==
  ASSUME NEW f, NEW g, NEW M \in SUBSET Node, Turns(f, g, M), NEW n \in M
  PROVE  /\ n \in Cycle(f, n)
         /\ Cycle(f, n) \subseteq M
         /\ \A m \in Cycle(f, n) : f[m] \in Cycle(f, n) /\ g[m] \in Cycle(f, n)
<1> DEFINE N == Cardinality(Node)
           w == Walk(f, n)
           C == Cycle(f, n)
<1>1. /\ N \in Nat /\ C = {w[k] : k \in 0 .. N} \ {NoNode} /\ w[0] = n
      /\ \A k \in 0 .. N : k < N /\ w[k] # NoNode => w[k + 1] = f[w[k]]
  BY CycleOf
<1>2. C \subseteq M /\ \A k \in 0 .. N : w[k] \in M /\ w[k] # NoNode
  <2>1. \A m \in M : f[m] \in M
    BY DEF Turns
  <2>2. QED
    BY <2>1, CycleWithin, NodeAssumption
<1> HIDE DEF w, N
<1>3. C = {w[k] : k \in 0 .. N}
  BY <1>1, <1>2
<1> HIDE DEF C
<1>4. \A k \in 0 .. N : k < N => w[k + 1] = f[w[k]] /\ g[w[k + 1]] = w[k]
  BY <1>1, <1>2 DEF Turns
<1>5. PICK p \in 1 .. N : w[p] = n
  <2> DEFINE R == {i \in 0 .. N : \E j \in 0 .. N : i < j /\ w[i] = w[j]}
  <2>1. R # {}
    <3> DEFINE h == [k \in 0 .. N |-> w[k]]
    <3>1. h \in [0 .. N -> Node] /\ \A k \in 0 .. N : h[k] = w[k]
      BY <1>2
    <3>2. IsFiniteSet(0 .. N) /\ Cardinality(0 .. N) = N + 1
      BY <1>1, FS_Interval
    <3>3. IsFiniteSet(Node) /\ Cardinality(Node) < Cardinality(0 .. N)
      BY <1>1, <3>2, NodeAssumption DEF N
    <3> HIDE DEF h
    <3> DEFINE B == 0 .. N
    <3>7. IsFiniteSet(B) /\ IsFiniteSet(Node) /\ Cardinality(Node) < Cardinality(B)
          /\ h \in [B -> Node]
      BY <3>1, <3>2, <3>3
    <3> HIDE DEF B
    <3>8. \E x, y \in B : x # y /\ h[x] = h[y]
      BY <3>7, FS_PigeonHole
    <3>4. PICK x, y \in 0 .. N : x # y /\ h[x] = h[y]
      BY <3>8 DEF B
    <3>5. x < y \/ y < x
      BY <1>1, <3>4
    <3>6. QED
      BY <3>1, <3>4, <3>5
  <2>2. PICK i \in R : \A k \in R : i <= k
    <3>1. R \in SUBSET Nat
      BY <1>1
    <3> HIDE DEF R
    <3>2. QED
      BY <2>1, <3>1, NatLeast
  <2>3. PICK j \in 0 .. N : i < j /\ w[i] = w[j]
    BY <2>2
  <2>4. i = 0
    <3>1. SUFFICES ASSUME i # 0 PROVE FALSE
      OBVIOUS
    <3>2. /\ i - 1 \in 0 .. N /\ i - 1 < N /\ (i - 1) + 1 = i
          /\ j - 1 \in 0 .. N /\ j - 1 < N /\ (j - 1) + 1 = j /\ i - 1 < j - 1
      BY <1>1, <2>2, <2>3, <3>1
    <3>3. g[w[i]] = w[i - 1] /\ g[w[j]] = w[j - 1]
      BY <1>4, <3>2
    <3>4. i - 1 \in R /\ ~(i <= i - 1)
      BY <2>2, <2>3, <3>2, <3>3
    <3>5. QED
      BY <2>2, <3>4
  <2>5. j \in 1 .. N /\ w[j] = n
    BY <1>1, <2>3, <2>4
  <2>6. QED
    BY <2>5
<1>6. f[w[N]] \in C
  <2> DEFINE D == {k \in 0 .. N : k <= N - p => w[k + p] = w[k]}
  <2>1. 0 \in D
    BY <1>1, <1>5
  <2>2. ASSUME NEW k \in 0 .. N, k \in D, k < N PROVE k + 1 \in D
    <3>1. k + 1 \in 0 .. N
      BY <1>1, <2>2
    <3>2. CASE ~(k + 1 <= N - p)
      BY <3>1, <3>2
    <3>3. CASE k + 1 <= N - p
      <4>1. k <= N - p /\ k + p \in 0 .. N /\ k + p < N /\ (k + p) + 1 = (k + 1) + p
        BY <1>1, <1>5, <3>3
      <4>2. w[k + p] = w[k]
        BY <2>2, <4>1
      <4>3. w[k + 1] = f[w[k]] /\ w[(k + p) + 1] = f[w[k + p]]
        BY <1>4, <2>2, <4>1
      <4>4. QED
        BY <3>1, <4>1, <4>2, <4>3
    <3>4. QED
      BY <3>2, <3>3
  <2>3. \A k \in 0 .. N : k \in D
    <3> HIDE DEF D
    <3>1. QED
      BY <1>1, <2>1, <2>2, UpTo
  <2>4. N - p \in 0 .. N /\ N - p < N /\ (N - p) + p = N /\ (N - p) + 1 \in 0 .. N
    BY <1>1, <1>5
  <2>5. w[N] = w[N - p]
    BY <2>3, <2>4
  <2>6. f[w[N]] = w[(N - p) + 1]
    BY <1>4, <2>4, <2>5
  <2>7. QED
    BY <1>3, <2>4, <2>6
<1>7. n \in C
  <2>1. 0 \in 0 .. N /\ w[0] = n
    BY <1>1
  <2>2. QED
    BY <1>3, <2>1
<1>8. ASSUME NEW m \in C PROVE f[m] \in C /\ g[m] \in C
  <2>1. PICK k \in 0 .. N : m = w[k]
    BY <1>3
  <2>2. f[m] \in C
    <3>1. CASE k = N
      BY <1>6, <2>1, <3>1
    <3>2. CASE k # N
      <4>1. k < N /\ k + 1 \in 0 .. N
        BY <1>1, <3>2
      <4>2. QED
        BY <1>3, <1>4, <2>1, <4>1
    <3>3. QED
      BY <3>1, <3>2
  <2>3. g[m] \in C
    <3> DEFINE i == IF k = 0 THEN p - 1 ELSE k - 1
    <3>1. i \in 0 .. N /\ i < N /\ i + 1 = IF k = 0 THEN p ELSE k
      BY <1>1, <1>5
    <3>2. w[i + 1] = m
      BY <1>1, <1>5, <2>1, <3>1
    <3> HIDE DEF i
    <3>3. g[m] = w[i]
      BY <1>4, <3>1, <3>2
    <3>4. QED
      BY <1>3, <3>1, <3>3
  <2>4. QED
    BY <2>2, <2>3
<1>9. QED
  BY <1>2, <1>7, <1>8 DEF C
-----------------------------------------------------------------------------
(* Merge *)

\* One direction of the links turns the other back, and it that one.
LEMMA MutualTurns ==
  ASSUME NEW l, NEW M, Mutual(l, M)
  PROVE  Turns(l.next, l.prev, M) /\ Turns(l.prev, l.next, M)
  BY DEF Mutual, Turns

(* Merging a smart pointer that is alone. *)
LEMMA MergeAloneKeeps ==
  ASSUME NEW l, NEW M \in SUBSET Node, Mutual(l, M), NEW a \in M, NEW b \in M, a # b,
         IsAlone(l, b), NEW v, Alike(l, M, v), v[a] = v[b], NEW r,
         r = [prev |-> [l.prev EXCEPT ![b] = l.prev[a], ![a] = b],
              next |-> [l.next EXCEPT ![b] = a, ![l.prev[a]] = b]]
  PROVE  Mutual(r, M) /\ Alike(r, M, v)
<1> DEFINE p == l.prev[a]
<1>1. /\ l.prev \in [Node -> Node \cup {NoNode}] /\ l.next \in [Node -> Node \cup {NoNode}]
      /\ p \in M /\ l.next[p] = a /\ l.next[b] = b /\ l.prev[b] = b /\ p # b /\ v[p] = v[a]
  BY DEF Links, Mutual, IsAlone, Alike
<1>2. /\ r \in Links
      /\ r.prev = [l.prev EXCEPT ![b] = p, ![a] = b]
      /\ r.next = [l.next EXCEPT ![b] = a, ![p] = b]
  BY <1>1 DEF Links
<1>3. \A m \in Node : /\ r.prev[m] = IF m = a THEN b ELSE IF m = b THEN p ELSE l.prev[m]
                      /\ r.next[m] = IF m = p THEN b ELSE IF m = b THEN a ELSE l.next[m]
  BY <1>1, <1>2
<1>4. \A m \in M : r.next[m] \in M /\ r.prev[r.next[m]] = m
  BY <1>1, <1>3 DEF Mutual
<1>5. \A m \in M : r.prev[m] \in M /\ r.next[r.prev[m]] = m
  BY <1>1, <1>3 DEF Mutual
<1>6. \A m \in Node \ M : r.next[m] = NoNode /\ r.prev[m] = NoNode
  <2>1. \A m \in Node \ M : l.next[m] = NoNode /\ l.prev[m] = NoNode /\ m # a /\ m # b /\ m # p
    BY <1>1 DEF Mutual
  <2> QED
    BY <1>3, <2>1
<1>7. Mutual(r, M)
  BY <1>2, <1>4, <1>5, <1>6 DEF Mutual
<1>8. Alike(r, M, v)
  BY <1>1, <1>3 DEF Alike
<1>9. QED
  BY <1>7, <1>8

\* What Merge makes of two cycles when neither smart pointer is alone.
Crossed(l, a, b) ==
  [prev |-> [l.prev EXCEPT ![l.next[a]] = l.prev[b], ![b] = a],
   next |-> [l.next EXCEPT ![l.prev[b]] = l.prev[a], ![a] = b]]

\* What each link is after Merge splices two longer cycles.
LEMMA CrossedIs ==
  ASSUME NEW l, NEW M \in SUBSET Node, Mutual(l, M), NEW a \in M, NEW b \in M,
         b \notin Cycle(l.prev, a), ~IsAlone(l, a), ~IsAlone(l, b)
  PROVE  /\ Crossed(l, a, b) \in Links
         /\ \A m \in Node :
              /\ Crossed(l, a, b).prev[m] = IF m = b THEN a
                                            ELSE IF m = l.next[a] THEN l.prev[b] ELSE l.prev[m]
              /\ Crossed(l, a, b).next[m] = IF m = a THEN b
                                            ELSE IF m = l.prev[b] THEN l.prev[a] ELSE l.next[m]
         /\ {l.prev[a], l.next[a]} \subseteq M \ {a, b, l.prev[b]}
         /\ l.prev[b] \in M \ {a, b}
         /\ l.next[l.prev[a]] = a /\ l.prev[l.next[a]] = a /\ l.next[l.prev[b]] = b
<1> DEFINE r == Crossed(l, a, b)
           X == Cycle(l.prev, a)
           p == l.prev[b]
           q == l.next[a]
<1>1. a \in X /\ X \subseteq M /\ \A m \in X : l.prev[m] \in X /\ l.next[m] \in X
  BY MutualTurns, CycleClosed
<1> HIDE DEF X
<1>2. b \notin X
  BY DEF X
<1>3. /\ l.prev \in [Node -> Node \cup {NoNode}] /\ l.next \in [Node -> Node \cup {NoNode}]
      /\ p \in M /\ q \in M /\ l.prev[a] \in M
      /\ l.next[p] = b /\ l.prev[q] = a /\ l.next[l.prev[a]] = a /\ q # a /\ l.prev[a] # a
      /\ p # b
  BY DEF Links, Mutual, IsAlone
<1>4. p \notin X /\ q \in X /\ l.prev[a] \in X
  BY <1>1, <1>2, <1>3
<1>5. p # a /\ p # q /\ p # l.prev[a] /\ q # b /\ l.prev[a] # b
  BY <1>1, <1>2, <1>4
<1>6. /\ r.prev = [l.prev EXCEPT ![q] = p, ![b] = a]
      /\ r.next = [l.next EXCEPT ![p] = l.prev[a], ![a] = b]
      /\ r \in Links
  BY <1>3 DEF Crossed, Links
<1>7. \A m \in Node : /\ r.prev[m] = IF m = b THEN a ELSE IF m = q THEN p ELSE l.prev[m]
                      /\ r.next[m] = IF m = a THEN b ELSE IF m = p THEN l.prev[a] ELSE l.next[m]
  BY <1>3, <1>6
<1>8. QED
  BY <1>3, <1>5, <1>6, <1>7

(* The cycles are joined rightly when a's has two members ...               *)
LEMMA MergePairKeeps ==
  ASSUME NEW l, NEW M \in SUBSET Node, Mutual(l, M), NEW a \in M, NEW b \in M,
         b \notin Cycle(l.prev, a), ~IsAlone(l, a), ~IsAlone(l, b),
         l.next[a] = l.prev[a], NEW v, Alike(l, M, v), v[a] = v[b]
  PROVE  Mutual(Crossed(l, a, b), M) /\ Alike(Crossed(l, a, b), M, v)
<1> DEFINE r == Crossed(l, a, b)
           p == l.prev[b]
           q == l.next[a]
<1>1. /\ r \in Links
      /\ \A m \in Node : /\ r.prev[m] = IF m = b THEN a ELSE IF m = q THEN p ELSE l.prev[m]
                         /\ r.next[m] = IF m = a THEN b ELSE IF m = p THEN q ELSE l.next[m]
      /\ q \in M \ {a, b, p} /\ p \in M \ {a, b}
      /\ l.prev[a] = q /\ l.next[q] = a /\ l.prev[q] = a /\ l.next[p] = b
  BY CrossedIs
<1> HIDE DEF r
<1>2. v[p] = v[b] /\ v[q] = v[a]
  BY <1>1 DEF Alike
<1>3. \A m \in M : r.next[m] \in M /\ r.prev[r.next[m]] = m
  BY <1>1 DEF Mutual
<1>4. \A m \in M : r.prev[m] \in M /\ r.next[r.prev[m]] = m
  BY <1>1 DEF Mutual
<1>5. \A m \in Node \ M : r.next[m] = NoNode /\ r.prev[m] = NoNode
  BY <1>1 DEF Mutual
<1>6. Mutual(r, M)
  BY <1>1, <1>3, <1>4, <1>5 DEF Mutual
<1>7. Alike(r, M, v)
  BY <1>1, <1>2 DEF Alike
<1>8. QED
  BY <1>6, <1>7 DEF r

(* ... and when it has more, the walk along prev_ meets a smart pointer that *)
(* the walk along next_ has lost, so the assertion finds it.                *)
LEMMA MergeAssertionFinds ==
  ASSUME NEW l, NEW M \in SUBSET Node, Mutual(l, M), NEW a \in M, NEW b \in M,
         b \notin Cycle(l.prev, a), ~IsAlone(l, a), ~IsAlone(l, b),
         l.next[a] # l.prev[a]
  PROVE  ~CountsAgree(Crossed(l, a, b), a)
<1> DEFINE r == Crossed(l, a, b)
           X == Cycle(l.prev, a)
           Y == Cycle(r.next, a)
           Z == Cycle(r.prev, a)
           p == l.prev[b]
           q == l.next[a]
           o == l.prev[a]
           back == [m \in Node |-> IF m = a THEN b ELSE IF m = p THEN q ELSE l.next[m]]
<1>1. /\ \A m \in Node : /\ r.prev[m] = IF m = b THEN a ELSE IF m = q THEN p ELSE l.prev[m]
                         /\ r.next[m] = IF m = a THEN b ELSE IF m = p THEN o ELSE l.next[m]
      /\ {o, q} \subseteq M \ {a, b, p} /\ p \in M \ {a, b} /\ o # q
      /\ l.next[o] = a /\ l.prev[q] = a /\ l.next[p] = b
  BY CrossedIs
<1> HIDE DEF r, p, q, o
<1>2. /\ \A m \in M : l.next[m] \in M /\ l.prev[l.next[m]] = m
      /\ \A m \in M : l.prev[m] \in M /\ l.next[l.prev[m]] = m
  BY DEF Mutual
<1>3. a \in X /\ X \subseteq M /\ \A m \in X : l.prev[m] \in X /\ l.next[m] \in X
  BY MutualTurns, CycleClosed
<1>4. b \notin X /\ q \in X /\ o \in X /\ p \notin X
  BY <1>1, <1>2, <1>3 DEF q, o, p
<1>5. Turns(r.prev, back, M)
  <2>1. \A m \in M : back[m] = IF m = a THEN b ELSE IF m = p THEN q ELSE l.next[m]
    OBVIOUS
  <2> HIDE DEF back
  <2>2. l.prev[b] = p /\ l.next[a] = q
    BY DEF p, q
  <2>3. \A m \in M : r.prev[m] \in M /\ back[r.prev[m]] = m
    BY <1>1, <1>2, <2>1, <2>2
  <2>4. \A m \in M : back[m] \in M /\ r.prev[back[m]] = m
    BY <1>1, <1>2, <2>1, <2>2
  <2>5. QED
    BY <2>3, <2>4 DEF Turns
<1>6. a \in Z /\ Z \subseteq M /\ \A m \in Z : r.prev[m] \in Z /\ back[m] \in Z
  BY <1>5, CycleClosed
<1>7. Y \subseteq Z
  <2>1. ASSUME NEW m \in Z PROVE r.next[m] \in Z
    <3>1. m \in Node /\ back[m] = IF m = a THEN b ELSE IF m = p THEN q ELSE l.next[m]
      BY <1>6
    <3>2. o \in Z
      <4>1. r.prev[a] = o
        BY <1>1, <1>3, <1>4 DEF o
      <4>2. QED
        BY <1>6, <4>1
    <3>3. QED
      BY <1>1, <1>6, <2>1, <3>1, <3>2
  <2>2. QED
    BY <1>6, <2>1, CycleWithin
<1>8. q \notin Y
  <2> DEFINE S == (M \ X) \cup {a, o}
  <2>1. ASSUME NEW m \in S PROVE r.next[m] \in S
    <3>1. CASE m = a
      BY <1>1, <1>4, <3>1
    <3>2. CASE m = o
      BY <1>1, <3>2
    <3>3. CASE m \in M \ X /\ m = p
      BY <1>1, <1>3, <3>3
    <3>4. CASE m \in M \ X /\ m # p
      <4>1. r.next[m] = l.next[m] /\ l.next[m] \in M /\ l.prev[l.next[m]] = m
        BY <1>1, <1>2, <1>3, <3>4
      <4>2. l.next[m] \notin X
        BY <1>3, <3>4, <4>1
      <4>3. QED
        BY <4>1, <4>2
    <3>5. QED
      BY <3>1, <3>2, <3>3, <3>4
  <2>2. a \in S /\ S \subseteq Node /\ q \notin S
    BY <1>1, <1>4
  <2> HIDE DEF S
  <2>3. Y \subseteq S
    BY <2>1, <2>2, CycleWithin
  <2>4. QED
    BY <2>2, <2>3
<1>9. q \in Z
  <2>1. SUFFICES ASSUME q \notin Z PROVE FALSE
    OBVIOUS
  <2> DEFINE S == X \cap Z
  <2>2. ASSUME NEW m \in S PROVE l.prev[m] \in S
    <3>1. r.prev[m] = l.prev[m]
      BY <1>1, <1>4, <1>6, <2>1
    <3>2. QED
      BY <1>3, <1>6, <3>1
  <2>3. a \in S /\ S \subseteq Node
    BY <1>3, <1>6
  <2> HIDE DEF S
  <2>4. X \subseteq S
    BY <2>2, <2>3, CycleWithin
  <2>5. QED
    BY <1>4, <2>1, <2>4 DEF S
<1>10. IsFiniteSet(Z)
  BY <1>6, NodeAssumption, FS_Subset
<1> HIDE DEF Y, Z
<1>11. Cardinality(Y) # Cardinality(Z)
  BY <1>7, <1>8, <1>9, <1>10, FS_Subset
<1>12. QED
  BY <1>11 DEF CountsAgree, CountCycle, Y, Z, r

(* Whatever Merge makes of two smart pointers to the same object, what its   *)
(* assertion lets through is cycles.                                        *)
LEMMA MergeKeeps ==
  ASSUME NEW l, NEW M \in SUBSET Node, Mutual(l, M), NEW a \in M, NEW b \in M,
         CountsAgree(MergeLinks(l, a, b), a), NEW v, Alike(l, M, v), v[a] = v[b]
  PROVE  Mutual(MergeLinks(l, a, b), M) /\ Alike(MergeLinks(l, a, b), M, v)
<1>1. CASE a = b \/ b \in Cycle(l.prev, a)
  BY <1>1 DEF MergeLinks
<1>2. CASE ~(a = b \/ b \in Cycle(l.prev, a))
  <2>1. MergeLinks(l, a, b) = Splice(l, a, b)
    BY <1>2 DEF MergeLinks
  <2>2. CASE IsAlone(l, b)
    <3>1. Splice(l, a, b) = [prev |-> [l.prev EXCEPT ![b] = l.prev[a], ![a] = b],
                             next |-> [l.next EXCEPT ![b] = a, ![l.prev[a]] = b]]
      BY <2>2 DEF Splice
    <3>2. QED
      BY <1>2, <2>1, <2>2, <3>1, MergeAloneKeeps
  <2>3. CASE ~IsAlone(l, b) /\ IsAlone(l, a)
    <3>1. Splice(l, a, b) = [prev |-> [l.prev EXCEPT ![a] = l.prev[b], ![b] = a],
                             next |-> [l.next EXCEPT ![a] = b, ![l.prev[b]] = a]]
      BY <2>3 DEF Splice
    <3>2. QED
      BY <1>2, <2>1, <2>3, <3>1, MergeAloneKeeps
  <2>4. CASE ~IsAlone(l, b) /\ ~IsAlone(l, a)
    <3>1. Splice(l, a, b) = Crossed(l, a, b)
      BY <2>4 DEF Splice, Crossed
    <3>2. l.next[a] = l.prev[a]
      BY <1>2, <2>1, <2>4, <3>1, MergeAssertionFinds
    <3>3. QED
      BY <1>2, <2>1, <2>4, <3>1, <3>2, MergePairKeeps
  <2>5. QED
    BY <2>2, <2>3, <2>4
<1>3. QED
  BY <1>1, <1>2

-----------------------------------------------------------------------------
(* Rings: the cycles of smart pointers *)

Ring(l, n) == Cycle(l.next, n)

\* A ring is a set of pointers there are, closed under both links.
LEMMA RingClosed ==
  ASSUME NEW l, NEW M \in SUBSET Node, Mutual(l, M), NEW n \in M
  PROVE  /\ n \in Ring(l, n)
         /\ Ring(l, n) \subseteq M
         /\ \A m \in Ring(l, n) : l.next[m] \in Ring(l, n) /\ l.prev[m] \in Ring(l, n)
BY MutualTurns, CycleClosed DEF Ring

(* A ring is the least set around its node that the links do not leave. *)
LEMMA RingWithin ==
  ASSUME NEW l, NEW S \in SUBSET Node, NEW n \in S, \A m \in S : l.next[m] \in S
  PROVE  Ring(l, n) \subseteq S
BY CycleWithin DEF Ring

(* Every node of a ring has the same ring. *)
LEMMA RingSame ==
  ASSUME NEW l, NEW M \in SUBSET Node, Mutual(l, M), NEW n \in M, NEW m \in Ring(l, n)
  PROVE  Ring(l, m) = Ring(l, n)
<1>1. /\ n \in Ring(l, n) /\ Ring(l, n) \subseteq M
      /\ \A k \in Ring(l, n) : l.next[k] \in Ring(l, n) /\ l.prev[k] \in Ring(l, n)
  BY RingClosed
<1>2. m \in M
  BY <1>1
<1>3. /\ m \in Ring(l, m)
      /\ \A k \in Ring(l, m) : l.next[k] \in Ring(l, m) /\ l.prev[k] \in Ring(l, m)
  BY <1>2, RingClosed
<1>4. Ring(l, m) \subseteq Ring(l, n)
  BY <1>1, RingWithin
<1>5. n \in Ring(l, m)
  <2> DEFINE S == Ring(l, n) \ Ring(l, m)
  <2>1. SUFFICES ASSUME n \notin Ring(l, m) PROVE FALSE
    OBVIOUS
  <2>2. n \in S /\ S \in SUBSET Node
    BY <1>1, <2>1
  <2>3. ASSUME NEW k \in S PROVE l.next[k] \in S
    <3>1. k \in M /\ l.prev[l.next[k]] = k
      BY <1>1 DEF Mutual
    <3>2. QED
      BY <1>1, <1>3, <3>1
  <2> HIDE DEF S
  <2>4. Ring(l, n) \subseteq S
    BY <2>2, <2>3, RingWithin
  <2>5. QED
    BY <1>3, <2>4 DEF S
<1>6. Ring(l, m) \in SUBSET Node
  BY <1>1, <1>4
<1>7. Ring(l, n) \subseteq Ring(l, m)
  BY <1>3, <1>5, <1>6, RingWithin
<1>8. QED
  BY <1>4, <1>7

(* The walk along prev meets the same nodes as that along next. *)
LEMMA RingBothWays ==
  ASSUME NEW l, NEW M \in SUBSET Node, Mutual(l, M), NEW n \in M
  PROVE  Cycle(l.prev, n) = Ring(l, n)
<1>1. /\ n \in Ring(l, n) /\ Ring(l, n) \in SUBSET Node
      /\ \A k \in Ring(l, n) : l.prev[k] \in Ring(l, n)
  BY RingClosed
<1>2. Cycle(l.prev, n) \subseteq Ring(l, n)
  BY <1>1, CycleWithin
<1>3. Turns(l.prev, l.next, M)
  BY MutualTurns
<1>4. /\ n \in Cycle(l.prev, n) /\ Cycle(l.prev, n) \in SUBSET Node
      /\ \A k \in Cycle(l.prev, n) : l.next[k] \in Cycle(l.prev, n)
  BY <1>3, CycleClosed
<1>5. Ring(l, n) \subseteq Cycle(l.prev, n)
  BY <1>4, RingWithin
<1>6. QED
  BY <1>2, <1>5

(* A ring of whose links none has changed. *)
LEMMA RingUnchanged ==
  ASSUME NEW l, NEW M \in SUBSET Node, Mutual(l, M), NEW m \in M,
         NEW r, NEW L \in SUBSET Node, Mutual(r, L), m \in L,
         \A k \in Ring(l, m) : r.next[k] = l.next[k]
  PROVE  Ring(r, m) = Ring(l, m)
<1>1. /\ m \in Ring(l, m) /\ Ring(l, m) \in SUBSET Node
      /\ \A k \in Ring(l, m) : l.next[k] \in Ring(l, m)
  BY RingClosed
<1>2. Ring(r, m) \subseteq Ring(l, m)
  BY <1>1, RingWithin
<1>3. /\ m \in Ring(r, m) /\ Ring(r, m) \in SUBSET Node
      /\ \A k \in Ring(r, m) : r.next[k] \in Ring(r, m)
  BY RingClosed
<1>4. Ring(l, m) \subseteq Ring(r, m)
  BY <1>2, <1>3, RingWithin
<1>5. QED
  BY <1>2, <1>4

(* RefLinkedBase(): a ring of one. *)
LEMMA RingAlone ==
  ASSUME NEW l, NEW M \in SUBSET Node, Mutual(l, M), NEW n \in Node \ M,
         Mutual(LinkAlone(l, n), M \cup {n})
  PROVE  /\ Ring(LinkAlone(l, n), n) = {n}
         /\ \A m \in M : Ring(LinkAlone(l, n), m) = Ring(l, m)
<1> DEFINE r == LinkAlone(l, n)
<1>1. \A k \in Node : r.next[k] = IF k = n THEN n ELSE l.next[k]
  BY DEF LinkAlone, Mutual, Links
<1>2. Mutual(r, M \cup {n}) /\ M \cup {n} \in SUBSET Node
  OBVIOUS
<1> HIDE DEF r
<1>3. Ring(r, n) = {n}
  <2>1. n \in Ring(r, n)
    BY <1>2, RingClosed
  <2> DEFINE S == {n}
  <2>2. S \in SUBSET Node /\ n \in S /\ \A k \in S : r.next[k] \in S
    BY <1>1
  <2> HIDE DEF S
  <2>3. Ring(r, n) \subseteq S
    BY <2>2, RingWithin
  <2>4. QED
    BY <2>1, <2>3 DEF S
<1>4. ASSUME NEW m \in M PROVE Ring(r, m) = Ring(l, m)
  <2>1. Ring(l, m) \subseteq M
    BY RingClosed
  <2>2. \A k \in Ring(l, m) : r.next[k] = l.next[k]
    BY <1>1, <2>1
  <2>3. m \in M \cup {n}
    OBVIOUS
  <2>4. QED
    BY <1>2, <2>2, <2>3, RingUnchanged
<1>5. QED
  BY <1>3, <1>4 DEF r

(* RefLinkedBase(rhs): n joins the ring of q. *)
LEMMA RingAfter ==
  ASSUME NEW l, NEW M \in SUBSET Node, Mutual(l, M), NEW n \in Node \ M, NEW q \in M,
         Mutual(LinkAfter(l, n, q), M \cup {n})
  PROVE  /\ Ring(LinkAfter(l, n, q), n) = Ring(l, q) \cup {n}
         /\ \A m \in M : Ring(LinkAfter(l, n, q), m) =
                           IF q \in Ring(l, m) THEN Ring(l, m) \cup {n} ELSE Ring(l, m)
<1> DEFINE r == LinkAfter(l, n, q)
           L == M \cup {n}
<1>1. \A k \in Node : r.next[k] = IF k = q THEN n ELSE IF k = n THEN l.next[q] ELSE l.next[k]
  BY DEF LinkAfter, Mutual, Links
<1>2. Mutual(r, L) /\ L \in SUBSET Node /\ n \in L /\ M \subseteq L /\ q # n
  OBVIOUS
<1>3. ASSUME NEW m \in M, q \notin Ring(l, m) PROVE Ring(r, m) = Ring(l, m)
  <2>1. Ring(l, m) \subseteq M
    BY RingClosed
  <2>2. \A k \in Ring(l, m) : r.next[k] = l.next[k]
    <3> HIDE DEF r
    <3> QED
      BY <1>1, <1>3, <2>1
  <2> HIDE DEF r, L
  <2>3. QED
    BY <1>2, <2>2, RingUnchanged
<1> HIDE DEF r, L
<1>4. ASSUME NEW m \in M, q \in Ring(l, m) PROVE Ring(r, m) = Ring(l, m) \cup {n}
  <2>1. /\ m \in Ring(l, m) /\ Ring(l, m) \subseteq M
        /\ \A k \in Ring(l, m) : l.next[k] \in Ring(l, m)
    BY RingClosed
  <2>2. /\ m \in Ring(r, m) /\ Ring(r, m) \subseteq L
        /\ \A k \in Ring(r, m) : r.next[k] \in Ring(r, m)
    BY <1>2, RingClosed
  <2> DEFINE S == Ring(l, m) \cup {n}
             T == Ring(r, m) \ {n}
  <2>3. S \in SUBSET Node /\ m \in S /\ \A k \in S : r.next[k] \in S
    BY <1>1, <1>4, <2>1
  <2>4. Ring(r, m) \subseteq S
    <3> HIDE DEF S
    <3> QED
      BY <2>3, RingWithin
  <2>5. T \in SUBSET Node /\ m \in T
    BY <1>2, <2>2
  <2>6. ASSUME NEW k \in T PROVE l.next[k] \in T
    <3>1. k \in M /\ l.next[k] \in M /\ l.next[k] # n
      BY <2>2, <2>6 DEF L, Mutual
    <3>2. CASE k # q
      BY <1>1, <2>2, <3>1, <3>2
    <3>3. CASE k = q
      <4>1. n \in Ring(r, m)
        BY <1>1, <2>2, <2>6, <3>3
      <4>2. l.next[q] \in Ring(r, m)
        BY <1>1, <1>2, <2>2, <4>1
      <4> QED
        BY <3>1, <3>3, <4>2
    <3> QED
      BY <3>2, <3>3
  <2>7. Ring(l, m) \subseteq T
    <3> HIDE DEF T
    <3> QED
      BY <2>5, <2>6, RingWithin
  <2>8. n \in Ring(r, m)
    BY <1>1, <1>4, <2>2, <2>7
  <2>9. QED
    BY <2>4, <2>7, <2>8
<1>5. Ring(r, n) = Ring(l, q) \cup {n}
  <2>1. q \in Ring(l, q)
    BY RingClosed
  <2>2. Ring(r, q) = Ring(l, q) \cup {n}
    BY <1>4, <2>1
  <2>3. n \in Ring(r, q) /\ q \in L
    BY <1>2, <2>2
  <2>4. QED
    BY <1>2, <2>2, <2>3, RingSame
<1>6. QED
  BY <1>3, <1>4, <1>5 DEF r

\* RefLinkedBase(rhs), as it is for any pointer that was there before.
LEMMA RingJoined ==
  ASSUME NEW l, NEW M \in SUBSET Node, Mutual(l, M), NEW n \in Node \ M, NEW q \in M,
         Mutual(LinkAfter(l, n, q), M \cup {n}), NEW m \in M
  PROVE  Ring(LinkAfter(l, n, q), m) =
           IF q \in Ring(l, m) THEN Ring(l, m) \cup {n} ELSE Ring(l, m)
BY RingAfter

(* RefLinkedBase::Release: n leaves its ring. *)
LEMMA RingUnlink ==
  ASSUME NEW l, NEW M \in SUBSET Node, Mutual(l, M), NEW n \in M,
         Mutual(Unlink(l, n), M \ {n})
  PROVE  \A m \in M \ {n} : Ring(Unlink(l, n), m) = Ring(l, m) \ {n}
<1> DEFINE r == Unlink(l, n)
           L == M \ {n}
           p == l.prev[n]
<1>1. /\ p \in M /\ l.next[n] \in M /\ l.next[p] = n /\ l.prev[l.next[n]] = n
      /\ l.prev \in [Node -> Node \cup {NoNode}] /\ l.next \in [Node -> Node \cup {NoNode}]
  BY DEF Mutual, Links
<1>2. \A k \in Node \ {n} : r.next[k] = IF k = p THEN l.next[n] ELSE l.next[k]
  <2>1. CASE IsAlone(l, n)
    BY <1>1, <2>1 DEF Unlink, IsAlone
  <2>2. CASE ~IsAlone(l, n)
    BY <1>1, <2>2 DEF Unlink, IsAlone
  <2> QED
    BY <2>1, <2>2
<1>3. Mutual(r, L) /\ L \in SUBSET Node
  OBVIOUS
<1> HIDE DEF r, p
<1>4. ASSUME NEW m \in L PROVE Ring(r, m) = Ring(l, m) \ {n}
  <2>1. /\ m \in Ring(l, m) /\ Ring(l, m) \subseteq M
        /\ \A k \in Ring(l, m) : l.next[k] \in Ring(l, m)
    BY RingClosed
  <2>2. /\ m \in Ring(r, m) /\ Ring(r, m) \subseteq L
        /\ \A k \in Ring(r, m) : r.next[k] \in Ring(r, m)
    BY <1>3, RingClosed
  <2> DEFINE S == Ring(l, m) \ {n}
             T == IF p \in Ring(r, m) THEN Ring(r, m) \cup {n} ELSE Ring(r, m)
  <2>3. S \in SUBSET Node /\ m \in S
    BY <2>1
  <2>4. ASSUME NEW k \in S PROVE r.next[k] \in S
    <3>1. k \in M /\ k # n /\ l.prev[l.next[k]] = k
      BY <2>1 DEF Mutual
    <3>2. CASE k = p
      BY <1>1, <1>2, <2>1, <3>1, <3>2
    <3>3. CASE k # p
      BY <1>1, <1>2, <2>1, <3>1, <3>3 DEF p
    <3> QED
      BY <3>2, <3>3
  <2>5. Ring(r, m) \subseteq S
    <3> HIDE DEF S
    <3> QED
      BY <2>3, <2>4, RingWithin
  <2>6. T \in SUBSET Node /\ m \in T
    BY <2>2
  <2>7. ASSUME NEW k \in T PROVE l.next[k] \in T
    <3>1. CASE k = n
      <4>1. p \in Ring(r, m) /\ p # n
        BY <2>2, <2>7, <3>1
      <4> QED
        BY <1>1, <1>2, <2>2, <3>1, <4>1
    <3>2. CASE k # n /\ k = p
      BY <1>1, <2>7, <3>2
    <3>3. CASE k # n /\ k # p
      <4>1. k \in Ring(r, m) /\ k \in Node
        BY <2>2, <2>7, <3>3
      <4> QED
        BY <1>2, <2>2, <3>3, <4>1
    <3> QED
      BY <3>1, <3>2, <3>3
  <2>8. Ring(l, m) \subseteq T
    <3> HIDE DEF T
    <3> QED
      BY <2>6, <2>7, RingWithin
  <2>9. QED
    BY <2>5, <2>8
<1>5. QED
  BY <1>4 DEF r

(* RefLinkedBase::Swap: the rings with two places exchanged. *)
LEMMA RingExchanged ==
  ASSUME NEW l, NEW r, NEW M \in SUBSET Node, Mutual(l, M), Mutual(r, M),
         NEW a \in M, NEW b \in M, Exchanged(l, r, M, a, b)
  PROVE  \A m \in M : Ring(r, Other(a, b, m)) = {Other(a, b, k) : k \in Ring(l, m)}
<1> DEFINE O(n) == Other(a, b, n)
<1>1. \A n \in M : O(O(n)) = n /\ O(n) \in M
  BY OtherTwice
<1>2. \A m \in M : r.next[m] = O(l.next[O(m)])
  BY DEF Exchanged
<1>3. \A m \in M : l.next[m] \in M
  BY DEF Mutual
<1> SUFFICES ASSUME NEW m \in M PROVE Ring(r, O(m)) = {O(k) : k \in Ring(l, m)}
  OBVIOUS
<1> HIDE DEF O
<1>4. /\ m \in Ring(l, m) /\ Ring(l, m) \subseteq M
      /\ \A k \in Ring(l, m) : l.next[k] \in Ring(l, m)
  BY RingClosed
<1>5. /\ O(m) \in Ring(r, O(m)) /\ Ring(r, O(m)) \subseteq M
      /\ \A k \in Ring(r, O(m)) : r.next[k] \in Ring(r, O(m))
  BY <1>1, RingClosed
<1> DEFINE S == {O(k) : k \in Ring(l, m)}
           T == {k \in M : O(k) \in Ring(r, O(m))}
<1>6. S \in SUBSET Node /\ O(m) \in S
  BY <1>1, <1>4
<1>7. ASSUME NEW k \in S PROVE r.next[k] \in S
  <2>1. PICK j \in Ring(l, m) : k = O(j)
    OBVIOUS
  <2>2. j \in M /\ k \in M /\ O(k) = j
    BY <1>1, <1>4, <2>1
  <2>3. r.next[k] = O(l.next[j])
    BY <1>2, <2>2
  <2> QED
    BY <1>4, <2>3
<1>8. Ring(r, O(m)) \subseteq S
  <2> HIDE DEF S
  <2> QED
    BY <1>6, <1>7, RingWithin
<1>9. T \in SUBSET Node /\ m \in T
  BY <1>5
<1>10. ASSUME NEW k \in T PROVE l.next[k] \in T
  <2>1. r.next[O(k)] = O(l.next[k])
    BY <1>1, <1>2
  <2>2. O(l.next[k]) \in Ring(r, O(m))
    BY <1>5, <2>1
  <2> QED
    BY <1>3, <2>2
<1>11. Ring(l, m) \subseteq T
  <2> HIDE DEF T
  <2> QED
    BY <1>9, <1>10, RingWithin
<1>12. S \subseteq Ring(r, O(m))
  BY <1>11
<1> QED
  BY <1>8, <1>12
-----------------------------------------------------------------------------
(* Merged links, and a place taken over *)

(* A smart pointer is alone just when its ring has no other.               *)
LEMMA RingOfOne ==
  ASSUME NEW l, NEW M \in SUBSET Node, Mutual(l, M), NEW n \in M
  PROVE  IsAlone(l, n) <=> Ring(l, n) = {n}
<1>1. n \in Ring(l, n) /\ l.next[n] \in Ring(l, n)
  BY RingClosed
<1>2. ASSUME IsAlone(l, n) PROVE Ring(l, n) = {n}
  <2> DEFINE S == {n}
  <2>1. S \in SUBSET Node /\ n \in S /\ \A k \in S : l.next[k] \in S
    BY <1>2 DEF IsAlone
  <2> HIDE DEF S
  <2>2. Ring(l, n) \subseteq S
    BY <2>1, RingWithin
  <2> QED
    BY <1>1, <2>2 DEF S
<1> QED
  BY <1>1, <1>2 DEF IsAlone

\* r joins the ring of x to the ring of y, where it leaves x for what came after y.
Joined(l, r, M, x, y) ==
  /\ r.next[x] = l.next[y]
  /\ r.next[y] = l.next[x]
  /\ \A m \in M \ {x, y} : r.next[m] = l.next[m]

(* From anywhere in the ring of x the joined ring comes by x.              *)
LEMMA JoinedMeets ==
  ASSUME NEW l, NEW r, NEW M \in SUBSET Node, Mutual(l, M), Mutual(r, M),
         NEW x \in M, NEW y \in M, y \notin Ring(l, x), Joined(l, r, M, x, y),
         NEW m \in M, m \in Ring(l, x)
  PROVE  x \in Ring(r, m)
<1> DEFINE A == Ring(l, x)
           Z == Ring(r, m)
           S == A \cap Z
<1>1. x \in A /\ A \subseteq M /\ \A k \in A : l.next[k] \in A
  BY RingClosed
<1>2. m \in Z /\ Z \subseteq M /\ \A k \in Z : r.next[k] \in Z
  BY RingClosed
<1>3. Ring(l, m) = A
  BY RingSame
<1> HIDE DEF A, Z
<1> SUFFICES ASSUME x \notin Z PROVE FALSE
  BY DEF Z
<1>4. y \notin A /\ m \in A
  BY DEF A
<1>5. S \in SUBSET Node /\ m \in S
  BY <1>1, <1>2, <1>4
<1>6. \A k \in S : l.next[k] \in S
  BY <1>1, <1>2, <1>4 DEF Joined
<1>7. Ring(l, m) \subseteq S
  <2> HIDE DEF S
  <2> QED
    BY <1>5, <1>6, RingWithin
<1> QED
  BY <1>1, <1>3, <1>7

(* ... so it is the two rings, and the others are as they were.            *)
LEMMA RingJoins ==
  ASSUME NEW l, NEW r, NEW M \in SUBSET Node, Mutual(l, M), Mutual(r, M),
         NEW x \in M, NEW y \in M, y \notin Ring(l, x), Joined(l, r, M, x, y)
  PROVE  \A m \in M : Ring(r, m) =
           IF m \in Ring(l, x) \cup Ring(l, y) THEN Ring(l, x) \cup Ring(l, y) ELSE Ring(l, m)
<1> DEFINE A == Ring(l, x)
           B == Ring(l, y)
<1>1. x \in A /\ A \subseteq M /\ \A k \in A : l.next[k] \in A
  BY RingClosed
<1>2. y \in B /\ B \subseteq M /\ \A k \in B : l.next[k] \in B
  BY RingClosed
<1>3. x \notin B
  <2> SUFFICES ASSUME x \in B PROVE FALSE
    OBVIOUS
  <2>1. Ring(l, x) = Ring(l, y)
    BY RingSame
  <2> QED
    BY <1>2, <2>1
<1>4. Joined(l, r, M, y, x)
  BY DEF Joined
<1>5. ASSUME NEW m \in A \cup B PROVE Ring(r, m) = A \cup B
  <2> DEFINE Z == Ring(r, m)
             S == A \cup B
  <2>1. m \in M /\ S \in SUBSET Node /\ \A k \in S : r.next[k] \in S
    BY <1>1, <1>2 DEF Joined
  <2>2. Z \subseteq S
    <3>1. m \in S
      OBVIOUS
    <3> HIDE DEF S
    <3> QED
      BY <2>1, <3>1, RingWithin
  <2>3. m \in Z /\ Z \subseteq M /\ \A k \in Z : r.next[k] \in Z /\ r.prev[k] \in Z
    BY <2>1, RingClosed
  <2>4. x \in Z /\ y \in Z
    <3>1. CASE m \in A
      <4>1. x \in Z
        BY <1>1, <3>1, JoinedMeets
      <4>2. r.next[x] \in Z /\ r.next[x] \in B /\ r.next[x] \in M
        BY <1>2, <2>3, <4>1 DEF Joined
      <4>3. y \in Ring(r, r.next[x])
        BY <1>3, <1>4, <4>2, JoinedMeets
      <4>4. Ring(r, r.next[x]) = Z
        BY <2>1, <4>2, RingSame
      <4> QED
        BY <4>1, <4>3, <4>4
    <3>2. CASE m \in B
      <4>1. y \in Z
        BY <1>2, <1>3, <1>4, <3>2, JoinedMeets
      <4>2. r.next[y] \in Z /\ r.next[y] \in A /\ r.next[y] \in M
        BY <1>1, <2>3, <4>1 DEF Joined
      <4>3. x \in Ring(r, r.next[y])
        BY <4>2, JoinedMeets
      <4>4. Ring(r, r.next[y]) = Z
        BY <2>1, <4>2, RingSame
      <4> QED
        BY <4>1, <4>3, <4>4
    <3> QED
      BY <3>1, <3>2
  <2>5. Z \in SUBSET Node /\ \A k \in Z : l.next[k] \in Z
    <3> HIDE DEF Z
    <3> QED
      BY <2>3, <2>4 DEF Joined
  <2>6. A \subseteq Z /\ B \subseteq Z
    <3> HIDE DEF Z
    <3> QED
      BY <2>4, <2>5, RingWithin
  <2> QED
    BY <2>2, <2>6
<1>6. ASSUME NEW m \in M, m \notin A \cup B PROVE Ring(r, m) = Ring(l, m)
  <2>1. Ring(l, m) \subseteq M
    BY RingClosed
  <2>2. x \notin Ring(l, m) /\ y \notin Ring(l, m)
    <3>1. ASSUME x \in Ring(l, m) PROVE FALSE
      <4>1. Ring(l, x) = Ring(l, m) /\ m \in Ring(l, m)
        BY <3>1, RingSame, RingClosed
      <4> QED
        BY <1>6, <4>1
    <3>2. ASSUME y \in Ring(l, m) PROVE FALSE
      <4>1. Ring(l, y) = Ring(l, m) /\ m \in Ring(l, m)
        BY <3>2, RingSame, RingClosed
      <4> QED
        BY <1>6, <4>1
    <3> QED
      BY <3>1, <3>2
  <2>3. \A k \in Ring(l, m) : r.next[k] = l.next[k]
    BY <2>1, <2>2 DEF Joined
  <2> QED
    BY <2>3, RingUnchanged
<1> QED
  BY <1>5, <1>6

(* RefLinkedBase::Merge: what its assertion lets through is one ring. *)
LEMMA RingMerged ==
  ASSUME NEW l, NEW M \in SUBSET Node, Mutual(l, M), NEW a \in M, NEW b \in M,
         CountsAgree(MergeLinks(l, a, b), a), Mutual(MergeLinks(l, a, b), M)
  PROVE  \A m \in M : Ring(MergeLinks(l, a, b), m) =
           IF m \in Ring(l, a) \cup Ring(l, b) THEN Ring(l, a) \cup Ring(l, b) ELSE Ring(l, m)
<1> DEFINE r == MergeLinks(l, a, b)
<1>0. a \in Ring(l, a) /\ b \in Ring(l, b) /\ Cycle(l.prev, a) = Ring(l, a)
  BY RingClosed, RingBothWays
<1>1. CASE a = b \/ b \in Cycle(l.prev, a)
  <2>1. r = l
    BY <1>1 DEF MergeLinks
  <2>2. Ring(l, b) = Ring(l, a)
    BY <1>0, <1>1, RingSame
  <2>3. \A m \in M : m \in Ring(l, a) => Ring(l, m) = Ring(l, a)
    BY RingSame
  <2> QED
    BY <2>1, <2>2, <2>3
<1>2. CASE ~(a = b \/ b \in Cycle(l.prev, a))
  <2>1. r = Splice(l, a, b)
    BY <1>2 DEF MergeLinks
  <2>2. /\ l.prev[a] \in M /\ l.next[l.prev[a]] = a
        /\ l.prev[b] \in M /\ l.next[l.prev[b]] = b
        /\ l.next \in [Node -> Node \cup {NoNode}]
    BY DEF Mutual, Links
  <2>3. PICK x \in Ring(l, a), y \in Ring(l, b) : Joined(l, r, M, x, y)
    <3>1. l.prev[a] \in Ring(l, a) /\ l.prev[b] \in Ring(l, b)
      BY RingClosed
    <3>2. l.prev[a] # b /\ l.prev[b] # a
      BY <1>0, <1>2, <2>2, <3>1, RingSame
    <3>3. CASE IsAlone(l, b)
      <4>1. r.next = [l.next EXCEPT ![b] = a, ![l.prev[a]] = b]
        BY <2>1, <3>3 DEF Splice
      <4>2. Joined(l, r, M, l.prev[a], b)
        BY <2>2, <3>2, <3>3, <4>1 DEF Joined, IsAlone
      <4> QED
        BY <1>0, <3>1, <4>2
    <3>4. CASE ~IsAlone(l, b) /\ IsAlone(l, a)
      <4>1. r.next = [l.next EXCEPT ![a] = b, ![l.prev[b]] = a]
        BY <2>1, <3>4 DEF Splice
      <4>2. Joined(l, r, M, a, l.prev[b])
        BY <2>2, <3>2, <3>4, <4>1 DEF Joined, IsAlone
      <4> QED
        BY <1>0, <3>1, <4>2
    <3>5. CASE ~IsAlone(l, b) /\ ~IsAlone(l, a)
      <4>1. r = Crossed(l, a, b)
        BY <2>1, <3>5 DEF Splice, Crossed
      <4>2. l.next[a] = l.prev[a]
        BY <1>2, <3>5, <4>1, MergeAssertionFinds
      <4>3. r.next = [l.next EXCEPT ![l.prev[b]] = l.prev[a], ![a] = b]
        BY <4>1 DEF Crossed
      <4>4. Joined(l, r, M, a, l.prev[b])
        BY <2>2, <3>2, <4>2, <4>3 DEF Joined
      <4> QED
        BY <1>0, <3>1, <4>4
    <3> QED
      BY <3>3, <3>4, <3>5
  <2>4. Ring(l, x) = Ring(l, a) /\ Ring(l, y) = Ring(l, b) /\ x \in M /\ y \in M
    BY <2>3, RingSame, RingClosed
  <2>5. y \notin Ring(l, x)
    <3> SUFFICES ASSUME y \in Ring(l, x) PROVE FALSE
      OBVIOUS
    <3>1. Ring(l, y) = Ring(l, a)
      BY <2>4, RingSame
    <3> QED
      BY <1>0, <1>2, <2>4, <3>1
  <2> HIDE DEF r
  <2>6. Mutual(r, M)
    BY DEF r
  <2>7. \A m \in M : Ring(r, m) =
           IF m \in Ring(l, x) \cup Ring(l, y) THEN Ring(l, x) \cup Ring(l, y) ELSE Ring(l, m)
    BY <2>3, <2>4, <2>5, <2>6, RingJoins
  <2> QED
    BY <2>4, <2>7 DEF r
<1> QED
  BY <1>1, <1>2

(* A new pointer t swaps with n, which is then alone; t leaves with n's place. *)
LEMMA RingReplaced ==
  ASSUME NEW l, NEW M \in SUBSET Node, Mutual(l, M), NEW t \in Node \ M, NEW n \in M,
         NEW s, s = SwapLinks(LinkAlone(l, t), t, n), Mutual(Unlink(s, t), M)
  PROVE  /\ IsAlone(s, t) <=> Ring(l, n) = {n}
         /\ Ring(Unlink(s, t), n) = {n}
         /\ \A m \in M \ {n} : Ring(Unlink(s, t), m) = Ring(l, m) \ {n}
<1> DEFINE a == LinkAlone(l, t)
           L == M \cup {t}
           v == [k \in Node |-> NoNode]
           O(k) == Other(t, n, k)
<1>1. L \in SUBSET Node /\ L \ {t} = M /\ t \in L /\ n \in L /\ t # n
  OBVIOUS
<1>2. /\ \A k \in Node : v[k] = NoNode
      /\ Alike(l, M, v)
  BY DEF Alike, Mutual
<1> HIDE DEF v
<1>3. Mutual(a, L) /\ Alike(a, L, v)
  BY <1>2, AloneKeeps
<1>4. Ring(a, t) = {t} /\ \A m \in M : Ring(a, m) = Ring(l, m)
  BY <1>3, RingAlone
<1>5. s = SwapLinks(a, t, n)
  OBVIOUS
<1> HIDE DEF a, L
<1>6. Exchanged(a, s, L, t, n)
  BY <1>1, <1>3, <1>5, SwapExchanges
<1>7. Mutual(s, L)
  <2>1. \A k \in L : v[k] = v[Other(t, n, k)]
    BY <1>1, <1>2 DEF Other
  <2> QED
    BY <1>1, <1>3, <1>6, <2>1, ExchangedKeeps
<1>8. \A m \in L : Ring(s, O(m)) = {O(k) : k \in Ring(a, m)}
  BY <1>1, <1>3, <1>6, <1>7, RingExchanged
<1>9. \A m \in M : m \in Ring(l, m) /\ Ring(l, m) \subseteq M
  BY RingClosed
<1>10. /\ Ring(s, n) = {n}
       /\ Ring(s, t) = {O(k) : k \in Ring(l, n)}
       /\ \A m \in M \ {n} : Ring(s, m) = {O(k) : k \in Ring(l, m)}
  <2>1. O(t) = n /\ O(n) = t /\ \A m \in M \ {n} : O(m) = m
    BY <1>1 DEF Other
  <2>2. {O(k) : k \in {t}} = {n}
    BY <2>1
  <2> HIDE DEF O
  <2> QED
    BY <1>1, <1>4, <1>8, <2>1, <2>2
<1>11. \A m \in M : Ring(Unlink(s, t), m) = Ring(s, m) \ {t}
  <2>1. Mutual(Unlink(s, t), L \ {t})
    BY <1>1
  <2> QED
    BY <1>1, <1>7, <2>1, RingUnlink
<1>12. IsAlone(s, t) <=> Ring(s, t) = {t}
  BY <1>1, <1>7, RingOfOne
<1>13. {O(k) : k \in Ring(l, n)} = {t} <=> Ring(l, n) = {n}
  <2>1. ASSUME {O(k) : k \in Ring(l, n)} = {t}, NEW k \in Ring(l, n) PROVE k = n
    <3>1. O(k) = t
      BY <2>1
    <3> QED
      BY <1>9, <3>1 DEF Other
  <2>2. O(n) = t
    BY <1>1 DEF Other
  <2> QED
    BY <1>9, <2>1, <2>2
<1>14. ASSUME NEW m \in M \ {n} PROVE {O(k) : k \in Ring(l, m)} \ {t} = Ring(l, m) \ {n}
  BY <1>1, <1>9 DEF Other
<1> QED
  BY <1>1, <1>10, <1>11, <1>12, <1>13, <1>14

-----------------------------------------------------------------------------
(* Classes of smart pointers: rings, and groups that share a count *)

\* The class of each smart pointer of M is the one it is in.
Classes(f, M) == \A n \in M : n \in f[n] /\ f[n] \subseteq M /\ \A m \in f[n] : f[m] = f[n]

\* The classes there are, ...
Parts(f, M) == {f[m] : m \in M}

\* ... what is left of them without n, ...
PartsWithout(F, n) == {c \ {n} : c \in F} \ {{}}

\* ... what they are when n joins the class c, ...
PartsGrown(F, c, n) == (F \ {c}) \cup {c \cup {n}}

\* ... when n joins the class of q, ...
PartsJoined(F, n, q) == {IF q \in c THEN c \cup {n} ELSE c : c \in F}

\* ... and when a and b are exchanged.
PartsExchanged(F, a, b) == {{Other(a, b, k) : k \in c} : c \in F}

\* g is f with n in a class of its own.
FoundsClass(f, g, M, n) == g[n] = {n} /\ \A m \in M : g[m] = f[m]

(* A new one founds a class. *)
LEMMA ClassFounded ==
  ASSUME NEW f, NEW g, NEW M, NEW n, n \notin M, FoundsClass(f, g, M, n)
  PROVE  Parts(g, M \cup {n}) = Parts(f, M) \cup {{n}}
<1> USE DEF FoundsClass
<1>1. ASSUME NEW m \in M \cup {n} PROVE g[m] \in {f[k] : k \in M} \cup {{n}}
  <2>1. CASE m \in M
    <3>1. g[m] = f[m]
      BY <2>1
    <3> QED
      BY <2>1, <3>1
  <2>2. CASE m = n
    BY <2>2
  <2> QED
    BY <2>1, <2>2
<1>2. ASSUME NEW m \in M PROVE f[m] \in {g[k] : k \in M \cup {n}}
  <2>1. g[m] = f[m]
    OBVIOUS
  <2> QED
    BY <2>1
<1>3. {n} \in {g[m] : m \in M \cup {n}}
  OBVIOUS
<1> QED
  BY <1>1, <1>2, <1>3 DEF Parts

\* g is f with n in the class of q, ...
JoinsClass(f, g, M, n, q) ==
  /\ g[n] = f[q] \cup {n}
  /\ \A m \in M : g[m] = IF q \in f[m] THEN f[m] \cup {n} ELSE f[m]

\* ... and with the classes of a and b made one.
UnitesClasses(f, g, M, a, b) ==
  \A m \in M : g[m] = IF m \in f[a] \cup f[b] THEN f[a] \cup f[b] ELSE f[m]

(* A new one joins the class of q: that class is replaced by a larger one. *)
LEMMA ClassJoined ==
  ASSUME NEW f, NEW g, NEW M, Classes(f, M), NEW n, n \notin M, NEW q \in M,
         JoinsClass(f, g, M, n, q)
  PROVE  /\ Parts(g, M \cup {n}) = PartsGrown(Parts(f, M), f[q], n)
         /\ Parts(g, M \cup {n}) = PartsJoined(Parts(f, M), n, q)
<1> DEFINE In(c) == IF q \in c THEN c \cup {n} ELSE c
           F == {f[m] : m \in M}
           G == {g[m] : m \in M \cup {n}}
<1>1. \A m \in M : q \in f[m] <=> f[m] = f[q]
  BY DEF Classes
<1>2. \A m \in M : g[m] = In(f[m])
  BY DEF JoinsClass
<1>3. g[n] = In(f[q]) /\ In(f[q]) = f[q] \cup {n}
  BY <1>1 DEF JoinsClass
<1>4. G = {In(c) : c \in F}
  <2> HIDE DEF In
  <2>1. ASSUME NEW m \in M \cup {n} PROVE g[m] \in {In(c) : c \in F}
    <3>1. CASE m \in M
      <4>1. f[m] \in F /\ g[m] = In(f[m])
        BY <1>2, <3>1
      <4> QED
        BY <4>1
    <3>2. CASE m = n
      <4>1. f[q] \in F
        OBVIOUS
      <4> QED
        BY <1>3, <3>2, <4>1
    <3> QED
      BY <3>1, <3>2
  <2>2. ASSUME NEW m \in M PROVE In(f[m]) \in G
    BY <1>2
  <2> QED
    BY <2>1, <2>2
<1>5. {In(c) : c \in F} = (F \ {f[q]}) \cup {f[q] \cup {n}}
  <2>1. \A c \in F : In(c) = IF c = f[q] THEN f[q] \cup {n} ELSE c
    BY <1>1, <1>3
  <2>2. f[q] \in F
    OBVIOUS
  <2> HIDE DEF In, F
  <2> QED
    BY <2>1, <2>2
<1> QED
  BY <1>4, <1>5 DEF Parts, PartsGrown, PartsJoined

(* n leaves its class. *)
LEMMA ClassLeft ==
  ASSUME NEW f, NEW g, NEW M, Classes(f, M), NEW n \in M,
         \A m \in M \ {n} : g[m] = f[m] \ {n}
  PROVE  Parts(g, M \ {n}) = PartsWithout(Parts(f, M), n)
<1> DEFINE F == {f[m] : m \in M}
           G == {g[m] : m \in M \ {n}}
<1>1. ASSUME NEW m \in M \ {n} PROVE g[m] # {} /\ \E c \in F : g[m] = c \ {n}
  <2>1. g[m] = f[m] \ {n} /\ m \in f[m] /\ f[m] \in F
    BY DEF Classes
  <2> QED
    BY <2>1
<1>2. ASSUME NEW c \in F, c \ {n} # {} PROVE c \ {n} \in G
  <2>1. PICK k \in M : c = f[k]
    OBVIOUS
  <2>2. PICK m \in f[k] : m # n
    BY <1>2, <2>1
  <2>3. m \in M \ {n} /\ f[m] = f[k]
    BY <2>2 DEF Classes
  <2>4. g[m] = c \ {n}
    BY <2>1, <2>3
  <2> QED
    BY <2>3, <2>4
<1>3. \A d \in G : d # {} /\ \E c \in F : d = c \ {n}
  BY <1>1
<1> HIDE DEF F, G
<1>4. G = {c \ {n} : c \in F} \ {{}}
  BY <1>2, <1>3
<1> QED
  BY <1>4 DEF F, G, Parts, PartsWithout

(* a and b exchange their classes. *)
LEMMA ClassExchanged ==
  ASSUME NEW f, NEW g, NEW M, NEW a \in M, NEW b \in M,
         \A m \in M : g[Other(a, b, m)] = {Other(a, b, k) : k \in f[m]}
  PROVE  Parts(g, M) = PartsExchanged(Parts(f, M), a, b)
<1> DEFINE O(k) == Other(a, b, k)
           Image(c) == {O(k) : k \in c}
           F == {f[m] : m \in M}
<1>1. \A m \in M : O(m) \in M /\ O(O(m)) = m
  BY OtherTwice
<1>2. \A m \in M : g[O(m)] = Image(f[m])
  OBVIOUS
<1> HIDE DEF O, Image
<1>3. ASSUME NEW m \in M PROVE g[m] \in {Image(c) : c \in F}
  <2>1. g[m] = Image(f[O(m)]) /\ f[O(m)] \in F
    BY <1>1, <1>2
  <2> QED
    BY <2>1
<1>4. ASSUME NEW m \in M PROVE Image(f[m]) \in {g[k] : k \in M}
  <2>1. g[O(m)] = Image(f[m]) /\ O(m) \in M
    BY <1>1, <1>2
  <2> QED
    BY <2>1
<1>5. {g[m] : m \in M} = {Image(c) : c \in F}
  BY <1>3, <1>4
<1> QED
  BY <1>5 DEF Image, O, Parts, PartsExchanged

(* The classes of a and b become one. *)
LEMMA ClassUnited ==
  ASSUME NEW f, NEW g, NEW M, Classes(f, M), NEW a \in M, NEW b \in M,
         UnitesClasses(f, g, M, a, b)
  PROVE  Parts(g, M) = (Parts(f, M) \ {f[a], f[b]}) \cup {f[a] \cup f[b]}
<1>1. \A m \in M : m \in f[m] /\ (m \in f[a] => f[m] = f[a]) /\ (m \in f[b] => f[m] = f[b])
  BY DEF Classes
<1>2. a \in f[a]
  BY <1>1
<1> DEFINE U == f[a] \cup f[b]
           F == {f[m] : m \in M}
<1>3. \A m \in M : IF m \in U THEN g[m] = U ELSE g[m] = f[m]
  BY DEF UnitesClasses
<1>4. a \in U /\ \A m \in M : m \in U <=> f[m] \in {f[a], f[b]}
  BY <1>1, <1>2
<1> HIDE DEF U
<1>5. ASSUME NEW m \in M PROVE g[m] \in (F \ {f[a], f[b]}) \cup {U}
  BY <1>3, <1>4
<1>6. ASSUME NEW c \in (F \ {f[a], f[b]}) \cup {U} PROVE c \in {g[m] : m \in M}
  <2>1. CASE c = U
    BY <1>3, <1>4, <2>1
  <2>2. CASE c # U
    <3>1. PICK m \in M : c = f[m] /\ m \notin U
      BY <1>4, <2>2
    <3> QED
      BY <1>3, <3>1
  <2> QED
    BY <2>1, <2>2
<1>7. {g[m] : m \in M} = (F \ {f[a], f[b]}) \cup {U}
  BY <1>5, <1>6
<1> QED
  BY <1>7 DEF U, Parts
-----------------------------------------------------------------------------
(* Classes that are left, and entered *)

\* What is left of the classes F when n leaves its class c and the others of it stay
\* together, or part.
LeftTogether(F, c, n) == ((F \ {c}) \cup {c \ {n}}) \ {{}}

LeftParted(F, c, n) == (F \ {c}) \cup {{m} : m \in c \ {n}}

\* g is f without n, with the others of its class together, ...
LeavesClass(f, g, M, n) == \A m \in M \ {n} : g[m] = f[m] \ {n}

\* ... or each by itself.
PartsClass(f, g, M, n) == \A m \in M \ {n} : g[m] = IF m \in f[n] THEN {m} ELSE f[m]

\* One leaves its class and the rest of the class stays together.
LEMMA ClassTogether ==
  ASSUME NEW f, NEW g, NEW M, Classes(f, M), NEW n \in M, LeavesClass(f, g, M, n)
  PROVE  /\ Classes(g, M \ {n})
         /\ Parts(g, M \ {n}) = LeftTogether(Parts(f, M), f[n], n)
<1>1. Parts(g, M \ {n}) = PartsWithout(Parts(f, M), n)
  BY ClassLeft DEF LeavesClass
<1>2. \A m \in M : n \in f[m] <=> f[m] = f[n]
  BY DEF Classes
<1> DEFINE F == Parts(f, M)
<1>3. f[n] \in F /\ \A c \in F : c \ {n} = IF c = f[n] THEN f[n] \ {n} ELSE c
  <2>1. ASSUME NEW c \in F, c # f[n] PROVE c \ {n} = c
    <3>1. PICK m \in M : c = f[m]
      BY DEF Parts
    <3> QED
      BY <1>2, <2>1, <3>1
  <2> QED
    BY <2>1 DEF Parts
<1>4. Classes(g, M \ {n})
  <2>1. SUFFICES ASSUME NEW m \in M \ {n}
                 PROVE  m \in g[m] /\ g[m] \subseteq M \ {n} /\ \A k \in g[m] : g[k] = g[m]
    BY DEF Classes
  <2>2. m \in f[m] /\ f[m] \subseteq M /\ \A k \in f[m] : f[k] = f[m]
    BY DEF Classes
  <2>3. g[m] = f[m] \ {n} /\ \A k \in M \ {n} : g[k] = f[k] \ {n}
    BY DEF LeavesClass
  <2> QED
    BY <2>2, <2>3
<1> HIDE DEF F
<1>5. {c \ {n} : c \in F} = (F \ {f[n]}) \cup {f[n] \ {n}}
  <2> DEFINE x == f[n]
             y == f[n] \ {n}
  <2>1. x \in F /\ \A c \in F : c \ {n} = IF c = x THEN y ELSE c
    BY <1>3
  <2> HIDE DEF x, y
  <2>2. ASSUME NEW c \in F PROVE c \ {n} \in (F \ {x}) \cup {y}
    BY <2>1
  <2>3. ASSUME NEW e \in (F \ {x}) \cup {y} PROVE \E c \in F : e = c \ {n}
    BY <2>1
  <2> DEFINE S == (F \ {x}) \cup {y}
  <2> HIDE DEF S
  <2>4. {c \ {n} : c \in F} = S
    <3>1. \A c \in F : c \ {n} \in S
      BY <2>2 DEF S
    <3>2. \A e \in S : \E c \in F : e = c \ {n}
      BY <2>3 DEF S
    <3> QED
      BY <3>1, <3>2
  <2> QED
    BY <2>4 DEF x, y, S
<1> QED
  BY <1>1, <1>4, <1>5 DEF PartsWithout, LeftTogether, F

\* One leaves its class and the rest of the class falls apart.
LEMMA ClassParted ==
  ASSUME NEW f, NEW g, NEW M, Classes(f, M), NEW n \in M, PartsClass(f, g, M, n)
  PROVE  /\ Classes(g, M \ {n})
         /\ Parts(g, M \ {n}) = LeftParted(Parts(f, M), f[n], n)
<1>1. \A m \in M : /\ m \in f[m] /\ f[m] \subseteq M /\ (m \in f[n] <=> f[m] = f[n])
                   /\ \A k \in f[m] : f[k] = f[m]
  BY DEF Classes
<1>2. \A m \in M \ {n} : g[m] = IF m \in f[n] THEN {m} ELSE f[m]
  BY DEF PartsClass
<1>3. Classes(g, M \ {n})
  <2>1. SUFFICES ASSUME NEW m \in M \ {n}
                 PROVE  m \in g[m] /\ g[m] \subseteq M \ {n} /\ \A k \in g[m] : g[k] = g[m]
    BY DEF Classes
  <2>2. CASE m \in f[n]
    BY <1>2, <2>2
  <2>3. CASE m \notin f[n]
    <3>1. g[m] = f[m] /\ \A k \in f[m] : k \in M \ {n} /\ f[k] = f[m] /\ k \notin f[n]
      BY <1>1, <1>2, <2>3
    <3> QED
      BY <1>1, <1>2, <3>1
  <2> QED
    BY <2>2, <2>3
<1>4. ASSUME NEW m \in M \ {n} PROVE g[m] \in LeftParted(Parts(f, M), f[n], n)
  <2>1. CASE m \in f[n]
    BY <1>2, <2>1 DEF LeftParted
  <2>2. CASE m \notin f[n]
    <3>1. g[m] = f[m] /\ f[m] # f[n]
      BY <1>1, <1>2, <2>2
    <3> QED
      BY <3>1 DEF LeftParted, Parts
  <2> QED
    BY <2>1, <2>2
<1>5. ASSUME NEW c \in LeftParted(Parts(f, M), f[n], n) PROVE c \in Parts(g, M \ {n})
  <2>1. CASE c \in Parts(f, M) \ {f[n]}
    <3>1. PICK m \in M : c = f[m]
      BY <2>1 DEF Parts
    <3>2. m \in M \ {n} /\ g[m] = c
      BY <1>1, <1>2, <2>1, <3>1
    <3> QED
      BY <3>2 DEF Parts
  <2>2. CASE c \in {{m} : m \in f[n] \ {n}}
    <3>1. PICK m \in f[n] \ {n} : c = {m}
      BY <2>2
    <3>2. m \in M \ {n} /\ g[m] = c
      BY <1>1, <1>2, <3>1
    <3> QED
      BY <3>2 DEF Parts
  <2> QED
    BY <2>1, <2>2 DEF LeftParted
<1>6. Parts(g, M \ {n}) = LeftParted(Parts(f, M), f[n], n)
  <2>1. \A c \in Parts(g, M \ {n}) : c \in LeftParted(Parts(f, M), f[n], n)
    BY <1>4 DEF Parts
  <2> QED
    BY <1>5, <2>1
<1> QED
  BY <1>3, <1>6

\* w is f with t in the place of n, and n in the class c, which is empty or one of the others.
TakesPlace(f, w, M, t, n, c) ==
  /\ w[t] = (f[n] \ {n}) \cup {t}
  /\ w[n] = c \cup {n}
  /\ \A m \in M \ {n} : w[m] = IF m \in c THEN c \cup {n}
                               ELSE IF m \in f[n] THEN (f[n] \ {n}) \cup {t} ELSE f[m]

\* g is h with n, in the class c.
Enters(h, g, M, n, c) ==
  /\ g[n] = c \cup {n}
  /\ \A m \in M \ {n} : g[m] = IF m \in c THEN c \cup {n} ELSE h[m]

(* When t goes, with n's old place, it is as if n had left and entered the class c. *)
LEMMA PlaceLeft ==
  ASSUME NEW f, NEW M, Classes(f, M), NEW n \in M, NEW t, t \notin M,
         NEW c, c \subseteq M, c \cap f[n] = {}, NEW w, TakesPlace(f, w, M, t, n, c), NEW g
  PROVE  /\ LeavesClass(w, g, M \cup {t}, t) =>
              \E h : LeavesClass(f, h, M, n) /\ Enters(h, g, M, n, c)
         /\ PartsClass(w, g, M \cup {t}, t) =>
              \E h : PartsClass(f, h, M, n) /\ Enters(h, g, M, n, c)
<1>1. n \in f[n] /\ \A m \in M : f[m] \subseteq M /\ (n \in f[m] <=> m \in f[n])
                               /\ (m \in f[n] => f[m] = f[n])
  BY DEF Classes
<1>2. /\ w[t] = (f[n] \ {n}) \cup {t}
      /\ w[n] = c \cup {n}
      /\ \A m \in M \ {n} : w[m] = IF m \in c THEN c \cup {n}
                               ELSE IF m \in f[n] THEN (f[n] \ {n}) \cup {t} ELSE f[m]
  BY DEF TakesPlace
<1>3. ASSUME LeavesClass(w, g, M \cup {t}, t)
      PROVE  \E h : LeavesClass(f, h, M, n) /\ Enters(h, g, M, n, c)
  <2> DEFINE h == [m \in M \ {n} |-> f[m] \ {n}]
  <2>1. LeavesClass(f, h, M, n)
    BY DEF LeavesClass
  <2>2. \A m \in M : g[m] = w[m] \ {t}
    BY <1>3 DEF LeavesClass
  <2>3. g[n] = c \cup {n}
    BY <1>2, <2>2
  <2>4. ASSUME NEW m \in M \ {n} PROVE g[m] = IF m \in c THEN c \cup {n} ELSE h[m]
    <3>1. CASE m \in c
      BY <1>2, <2>2, <3>1
    <3>2. CASE m \in f[n]
      <4>1. m \notin c /\ h[m] = f[n] \ {n} /\ t \notin f[n]
        BY <1>1, <3>2
      <4> QED
        BY <1>2, <2>2, <3>2, <4>1
    <3>3. CASE m \notin c /\ m \notin f[n]
      <4>1. h[m] = f[m] /\ t \notin f[m] /\ w[m] = f[m]
        BY <1>1, <1>2, <3>3
      <4> QED
        BY <2>2, <3>3, <4>1
    <3> QED
      BY <3>1, <3>2, <3>3
  <2> HIDE DEF h
  <2> QED
    BY <2>1, <2>3, <2>4 DEF Enters
<1>4. ASSUME PartsClass(w, g, M \cup {t}, t)
      PROVE  \E h : PartsClass(f, h, M, n) /\ Enters(h, g, M, n, c)
  <2> DEFINE h == [m \in M \ {n} |-> IF m \in f[n] THEN {m} ELSE f[m]]
  <2>1. PartsClass(f, h, M, n)
    BY DEF PartsClass
  <2>2. \A m \in M : g[m] = IF m \in w[t] THEN {m} ELSE w[m]
    BY <1>4 DEF PartsClass
  <2>3. \A m \in M \ {n} : m \in w[t] <=> m \in f[n]
    BY <1>2
  <2>4. g[n] = c \cup {n}
    BY <1>2, <2>2
  <2>5. ASSUME NEW m \in M \ {n} PROVE g[m] = IF m \in c THEN c \cup {n} ELSE h[m]
    <3>1. CASE m \in f[n]
      <4>1. m \notin c /\ h[m] = {m}
        BY <3>1
      <4> QED
        BY <2>2, <2>3, <3>1, <4>1
    <3>2. CASE m \notin f[n]
      <4>1. h[m] = f[m] /\ g[m] = w[m]
        BY <2>2, <2>3, <3>2
      <4> QED
        BY <1>2, <3>2, <4>1
    <3> QED
      BY <3>1, <3>2
  <2> HIDE DEF h
  <2> QED
    BY <2>1, <2>4, <2>5 DEF Enters
<1> QED
  BY <1>3, <1>4

\* One that left founds a class, or joins that of q.
LEMMA ClassEntered ==
  ASSUME NEW h, NEW g, NEW M, NEW n \in M, Classes(h, M \ {n}), NEW c, Enters(h, g, M, n, c)
  PROVE  /\ c = {} => Parts(g, M) = Parts(h, M \ {n}) \cup {{n}}
         /\ \A q \in M \ {n} : c = h[q] => Parts(g, M) = PartsJoined(Parts(h, M \ {n}), n, q)
<1> DEFINE P == M \ {n}
<1>1. P \cup {n} = M /\ n \notin P
  OBVIOUS
<1>2. g[n] = c \cup {n} /\ \A m \in P : g[m] = IF m \in c THEN c \cup {n} ELSE h[m]
  BY DEF Enters
<1>3. Classes(h, P)
  OBVIOUS
<1> HIDE DEF P
<1>4. ASSUME c = {} PROVE Parts(g, P \cup {n}) = Parts(h, P) \cup {{n}}
  <2>1. g[n] = {n}
    BY <1>2, <1>4
  <2>2. \A m \in P : g[m] = h[m]
    BY <1>2, <1>4
  <2>3. n \notin P
    BY <1>1
  <2>4. FoundsClass(h, g, P, n)
    BY <2>1, <2>2 DEF FoundsClass
  <2> QED
    BY <2>3, <2>4, ClassFounded
<1>5. ASSUME NEW q \in P, c = h[q] PROVE Parts(g, P \cup {n}) = PartsJoined(Parts(h, P), n, q)
  <2>1. \A m \in P : m \in h[m] /\ (m \in h[q] <=> q \in h[m]) /\ (q \in h[m] => h[m] = h[q])
    <3>1. \A k \in P : k \in h[k] /\ \A m \in h[k] : h[m] = h[k]
      BY <1>3 DEF Classes
    <3> QED
      BY <3>1
  <2>2. JoinsClass(h, g, P, n, q)
    BY <1>2, <1>5, <2>1 DEF JoinsClass
  <2> QED
    BY <1>1, <1>3, <2>2, ClassJoined
<1> QED
  BY <1>1, <1>4, <1>5 DEF P

\* The places of S, with a and b exchanged.
Places(a, b, S) == {Other(a, b, k) : k \in S}

\* w is c with a and b exchanged.
SwapsClass(c, w, M, a, b) == \A m \in M : w[Other(a, b, m)] = Places(a, b, c[m])

\* Which of the two is named first makes no difference.
LEMMA SwapsEitherWay ==
  ASSUME NEW c, NEW w, NEW M, NEW a, NEW b
  PROVE  SwapsClass(c, w, M, a, b) <=> SwapsClass(c, w, M, b, a)
<1>1. \A k : Other(a, b, k) = Other(b, a, k)
  BY DEF Other
<1> QED
  BY <1>1 DEF SwapsClass, Places

\* A class in which one that is new takes the place of a member.
LEMMA PlaceOf ==
  ASSUME NEW S, NEW t, t \notin S, NEW n
  PROVE  /\ n \in S => Places(t, n, S) = (S \ {n}) \cup {t}
         /\ n \notin S => Places(t, n, S) = S
         /\ n \notin S => Places(t, n, S \cup {t}) = S \cup {n}
<1>1. \A k \in S : Other(t, n, k) = IF k = n THEN t ELSE k
  BY DEF Other
<1>2. Other(t, n, t) = n
  BY DEF Other
<1>3. ASSUME n \in S PROVE Places(t, n, S) = (S \ {n}) \cup {t}
  BY <1>1, <1>3 DEF Places
<1>4. ASSUME n \notin S PROVE Places(t, n, S) = S
  BY <1>1, <1>4 DEF Places
<1>5. ASSUME n \notin S PROVE Places(t, n, S \cup {t}) = S \cup {n}
  BY <1>1, <1>2, <1>5 DEF Places
<1> QED
  BY <1>3, <1>4, <1>5

\* The new t joins q, and swaps with n.
LEMMA JoinedPlace ==
  ASSUME NEW f, NEW M, Classes(f, M), NEW n \in M, NEW t, t \notin M, NEW q \in M, q \notin f[n],
         NEW c, JoinsClass(f, c, M, t, q), NEW w, SwapsClass(c, w, M \cup {t}, t, n)
  PROVE  TakesPlace(f, w, M, t, n, f[q])
<1> DEFINE O(k) == Other(t, n, k)
<1>1. O(t) = n /\ O(n) = t /\ \A m \in M \ {n} : O(m) = m
  BY DEF Other
<1>2. \A m \in M \cup {t} : w[O(m)] = Places(t, n, c[m])
  BY DEF SwapsClass
<1>3. \A m \in M : /\ t \notin f[m]
                   /\ n \in f[m] <=> m \in f[n]
                   /\ q \in f[m] <=> m \in f[q]
                   /\ m \in f[n] => f[m] = f[n]
                   /\ m \in f[q] => f[m] = f[q]
                   /\ m \in f[n] => m \notin f[q]
                   /\ m \in f[m]
  <2>1. \A k \in M : k \in f[k] /\ f[k] \subseteq M /\ \A m \in f[k] : f[m] = f[k]
    BY DEF Classes
  <2> QED
    BY <2>1
<1>4. c[t] = f[q] \cup {t} /\ \A m \in M : c[m] = IF q \in f[m] THEN f[m] \cup {t} ELSE f[m]
  BY DEF JoinsClass
<1>5. \A m \in M : /\ m \in f[n] => Places(t, n, f[m]) = (f[n] \ {n}) \cup {t}
                   /\ m \notin f[n] => /\ Places(t, n, f[m]) = f[m]
                                      /\ Places(t, n, f[m] \cup {t}) = f[m] \cup {n}
  <2> SUFFICES ASSUME NEW m \in M
               PROVE  /\ m \in f[n] => Places(t, n, f[m]) = (f[n] \ {n}) \cup {t}
                      /\ m \notin f[n] => /\ Places(t, n, f[m]) = f[m]
                                         /\ Places(t, n, f[m] \cup {t}) = f[m] \cup {n}
    OBVIOUS
  <2>1. t \notin f[m] /\ (n \in f[m] <=> m \in f[n]) /\ (m \in f[n] => f[m] = f[n])
    BY <1>3
  <2> QED
    BY <2>1, PlaceOf
<1> HIDE DEF O
<1>6. w[t] = (f[n] \ {n}) \cup {t}
  <2>1. w[t] = Places(t, n, c[n]) /\ c[n] = f[n] /\ n \in f[n]
    BY <1>1, <1>2, <1>3, <1>4
  <2> QED
    BY <1>5, <2>1
<1>7. w[n] = f[q] \cup {n}
  <2>1. w[n] = Places(t, n, c[t]) /\ c[t] = f[q] \cup {t}
    BY <1>1, <1>2, <1>4
  <2>2. q \notin f[n]
    OBVIOUS
  <2> QED
    BY <1>5, <2>1, <2>2
<1>8. ASSUME NEW m \in M \ {n}
      PROVE  w[m] = IF m \in f[q] THEN f[q] \cup {n}
                    ELSE IF m \in f[n] THEN (f[n] \ {n}) \cup {t} ELSE f[m]
  <2>1. w[m] = Places(t, n, c[m])
    BY <1>1, <1>2
  <2>2. CASE m \in f[q]
    <3>1. c[m] = f[q] \cup {t} /\ m \notin f[n] /\ f[m] = f[q]
      BY <1>3, <1>4, <2>2
    <3> QED
      BY <1>5, <2>1, <2>2, <3>1
  <2>3. CASE m \notin f[q]
    <3>1. c[m] = f[m]
      BY <1>3, <1>4, <2>3
    <3> QED
      BY <1>5, <2>1, <2>3, <3>1
  <2> QED
    BY <2>2, <2>3
<1> QED
  BY <1>6, <1>7, <1>8 DEF TakesPlace

\* The new t founds a class, and swaps with n.
LEMMA FoundedPlace ==
  ASSUME NEW f, NEW M, Classes(f, M), NEW n \in M, NEW t, t \notin M,
         NEW c, FoundsClass(f, c, M, t), NEW w, SwapsClass(c, w, M \cup {t}, t, n)
  PROVE  TakesPlace(f, w, M, t, n, {})
<1> DEFINE O(k) == Other(t, n, k)
<1>1. O(t) = n /\ O(n) = t /\ \A m \in M \ {n} : O(m) = m
  BY DEF Other
<1>2. \A m \in M \cup {t} : w[O(m)] = Places(t, n, c[m])
  BY DEF SwapsClass
<1>3. \A m \in M : t \notin f[m] /\ (n \in f[m] <=> m \in f[n]) /\ (m \in f[n] => f[m] = f[n])
  <2>1. \A k \in M : k \in f[k] /\ f[k] \subseteq M /\ \A m \in f[k] : f[m] = f[k]
    BY DEF Classes
  <2> QED
    BY <2>1
<1>4. c[t] = {t} /\ \A m \in M : c[m] = f[m]
  BY DEF FoundsClass
<1>5. Places(t, n, {t}) = {n}
  BY <1>1 DEF Places
<1>6. \A m \in M : /\ m \in f[n] => Places(t, n, f[m]) = (f[n] \ {n}) \cup {t}
                   /\ m \notin f[n] => Places(t, n, f[m]) = f[m]
  <2> SUFFICES ASSUME NEW m \in M
               PROVE  /\ m \in f[n] => Places(t, n, f[m]) = (f[n] \ {n}) \cup {t}
                      /\ m \notin f[n] => Places(t, n, f[m]) = f[m]
    OBVIOUS
  <2>1. t \notin f[m] /\ (n \in f[m] <=> m \in f[n]) /\ (m \in f[n] => f[m] = f[n])
    BY <1>3
  <2> DEFINE S == f[m]
  <2>2. t \notin S
    BY <2>1
  <2> HIDE DEF S
  <2>3. /\ n \in S => Places(t, n, S) = (S \ {n}) \cup {t}
        /\ n \notin S => Places(t, n, S) = S
    BY <2>2, PlaceOf
  <2> QED
    BY <2>1, <2>3 DEF S
<1> HIDE DEF O
<1>7. n \in f[n]
  BY DEF Classes
<1>8. w[t] = (f[n] \ {n}) \cup {t} /\ w[n] = {n}
  <2>1. w[t] = Places(t, n, f[n])
    BY <1>1, <1>2, <1>4
  <2>2. w[n] = Places(t, n, {t})
    BY <1>1, <1>2, <1>4
  <2> QED
    BY <1>5, <1>6, <1>7, <2>1, <2>2
<1>9. \A m \in M \ {n} : w[m] = IF m \in f[n] THEN (f[n] \ {n}) \cup {t} ELSE f[m]
  BY <1>1, <1>2, <1>4, <1>6
<1> QED
  BY <1>8, <1>9 DEF TakesPlace
=============================================================================
