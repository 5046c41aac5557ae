-------------------------- MODULE CountedPtrProofs --------------------------
(***************************************************************************)
(* Shared counts are exact and objects live as long as they are owned, for *)
(* any number of smart pointers, objects and cells and every interleaving  *)
(* of the threads that use them.                                           *)
(***************************************************************************)
EXTENDS CountedPtr, FiniteSetTheorems, TLAPS

-----------------------------------------------------------------------------
(* The inductive invariant *)

\* Every cell in use has a smart pointer, unless its construction threw.
CellsUsed ==
  /\ \A n \in Node : HasCell(n) => cell[n] \in cells \ leaked
  /\ \A c \in cells \ leaked : \E n \in Node : HasCell(n) /\ cell[n] = c

\* Sharers(c), of given stages and cells.
SharersOf(st, ce, c) == {n \in Node : st[n] \in {"owner", "leaving"} /\ ce[n] = c}

CountsAgree ==
  \A n \in Node : HasCell(n) => count[cell[n]] = Cardinality(SharersOf(stage, cell, cell[n]))

\* To share a count is to lead to the same object; nobody shares with the last.
Grouped ==
  /\ \A n, m \in Node : HasCell(n) /\ HasCell(m) /\ cell[n] = cell[m] => pointee[n] = pointee[m]
  /\ \A n, m \in Node :
       n # m /\ pointee[n] = pointee[m] /\ pointee[n] # NoObject
         => HasCell(n) /\ HasCell(m) /\ cell[n] = cell[m]
  /\ \A n, m \in Node : n # m /\ stage[n] = "last" /\ HasCell(m) => cell[m] # cell[n]
  /\ \A n \in Node : ~Made(n) => pointee[n] = NoObject

Accounted ==
  /\ \A n \in Node : pointee[n] # NoObject => pointee[n] \in exists \ held
  /\ \A o \in exists \ held : \E n \in Node : pointee[n] = o

IInv == TypeOK /\ CellsUsed /\ CountsAgree /\ Grouped /\ Accounted

-----------------------------------------------------------------------------
(* Counting *)

LEMMA SharersFinite == \A st, ce, c : IsFiniteSet(SharersOf(st, ce, c))
  BY PlacesAssumption, FS_Subset DEF SharersOf

(* Counts agree after a step if each is right or is as it was. *)
LEMMA CountsKept ==
  ASSUME IInv,
         \A k \in Node : HasCell(k)' =>
           \/ count'[cell'[k]] = Cardinality(SharersOf(stage', cell', cell'[k]))
           \/ /\ \E j \in Node : HasCell(j) /\ cell[j] = cell'[k]
              /\ SharersOf(stage', cell', cell'[k]) = SharersOf(stage, cell, cell'[k])
              /\ count'[cell'[k]] = count[cell'[k]]
  PROVE  CountsAgree'
<1> SUFFICES ASSUME NEW k \in Node, HasCell(k)'
             PROVE  count'[cell'[k]] = Cardinality(SharersOf(stage', cell', cell'[k]))
  BY DEF CountsAgree
<1>1. ASSUME NEW j \in Node, HasCell(j), cell[j] = cell'[k]
      PROVE  count[cell'[k]] = Cardinality(SharersOf(stage, cell, cell'[k]))
  BY <1>1 DEF IInv, CountsAgree
<1>2. QED
  BY <1>1

(* One that shares a count is counted. *)
LEMMA CountPositive ==
  ASSUME IInv, NEW n \in Node, Counted(n)
  PROVE  /\ cell[n] \in Cell
         /\ count[cell[n]] \in Nat \ {0}
         /\ count[cell[n]] = 1 => SharersOf(stage, cell, cell[n]) = {n}
<1>1. /\ HasCell(n)
      /\ n \in SharersOf(stage, cell, cell[n])
      /\ count[cell[n]] = Cardinality(SharersOf(stage, cell, cell[n]))
  BY DEF IInv, CountsAgree, HasCell, Counted, SharersOf
<1>2. cell[n] \in Cell
  BY <1>1 DEF IInv, TypeOK, CellsUsed
<1>3. count[cell[n]] \in Nat \ {0}
  BY <1>1, <1>2, SharersFinite, FS_EmptySet DEF IInv, TypeOK
<1>4. ASSUME count[cell[n]] = 1 PROVE SharersOf(stage, cell, cell[n]) = {n}
  <2>1. PICK x : SharersOf(stage, cell, cell[n]) = {x}
    BY <1>1, <1>4, SharersFinite, FS_Singleton
  <2>2. QED
    BY <1>1, <2>1
<1>5. QED
  BY <1>2, <1>3, <1>4

-----------------------------------------------------------------------------
(* One lemma per action *)

LEMMA InitIInv == Init => IInv
<1> SUFFICES ASSUME Init PROVE IInv
  OBVIOUS
<1>1. \A n \in Node : ~HasCell(n) /\ ~Made(n) /\ pointee[n] = NoObject
  BY DEF Init, HasCell, Made
<1>2. TypeOK
  BY DEF Init, TypeOK, Stage
<1>3. CellsUsed /\ CountsAgree
  BY <1>1 DEF CellsUsed, CountsAgree, Init
<1>4. Grouped
  BY <1>1 DEF Grouped, Init
<1>5. Accounted
  BY <1>1 DEF Accounted, Init
<1>6. QED
  BY <1>2, <1>3, <1>4, <1>5 DEF IInv

(* What clients do to objects no smart pointer leads to. *)
LEMMA ClientIInv ==
  ASSUME IInv, NEW o \in Object, NewObject(o) \/ DeleteHeld(o)
  PROVE  IInv'
<1>1. UNCHANGED <<stage, cell, pointee, count, cells, leaked>>
  BY DEF NewObject, DeleteHeld
<1>2. exists' \ held' = exists \ held /\ exists' \in SUBSET Object /\ held' \in SUBSET exists'
  BY DEF NewObject, DeleteHeld, IInv, TypeOK
<1>3. TypeOK'
  BY <1>1, <1>2 DEF IInv, TypeOK
<1>4. CellsUsed' /\ Grouped'
  BY <1>1 DEF IInv, CellsUsed, Grouped, HasCell, Made
<1>5. CountsAgree'
  BY <1>1 DEF IInv, CountsAgree, HasCell, SharersOf, Counted
<1>6. Accounted'
  BY <1>1, <1>2 DEF IInv, Accounted
<1>7. QED
  BY <1>3, <1>4, <1>5, <1>6 DEF IInv

LEMMA ConstructIInv ==
  ASSUME IInv, NEW n \in Node, NEW c \in Cell, NEW o \in Object \cup {NoObject},
         Construct(n, c, o)
  PROVE  IInv'
<1> USE DEF Construct, HasCell, Made, Counted
<1>1. TypeOK'
  BY DEF IInv, TypeOK, Stage, Accepts
<1>2. /\ HasCell(n)' /\ cell'[n] = c /\ pointee'[n] = o /\ stage'[n] = "owner"
      /\ ~HasCell(n) /\ pointee[n] = NoObject
      /\ \A m \in Node \ {n} :
           stage'[m] = stage[m] /\ cell'[m] = cell[m] /\ pointee'[m] = pointee[m]
      /\ \A m \in Node : HasCell(m) => cell[m] \in cells \ leaked /\ cell[m] # c
  BY DEF IInv, TypeOK, Stage, Grouped, CellsUsed
<1>3. CellsUsed'
  <2>1. \A m \in Node : HasCell(m)' => cell'[m] \in cells' \ leaked'
    BY <1>2 DEF IInv, TypeOK, CellsUsed
  <2>2. \A d \in cells' \ leaked' : \E m \in Node : HasCell(m)' /\ cell'[m] = d
    BY <1>2 DEF IInv, CellsUsed
  <2>3. QED
    BY <2>1, <2>2 DEF CellsUsed
<1>4. CountsAgree'
  <2>1. SharersOf(stage', cell', c) = {n}
    BY <1>2 DEF SharersOf
  <2>2. \A d \in cells : SharersOf(stage', cell', d) = SharersOf(stage, cell, d) /\ count'[d] = count[d]
    BY <1>2 DEF SharersOf, IInv, TypeOK
  <2>3. count'[c] = 1
    BY DEF IInv, TypeOK
  <2>4. count'[c] = Cardinality(SharersOf(stage', cell', c))
    BY <2>1, <2>3, FS_Singleton
  <2>5. \A k \in Node : HasCell(k)' =>
          cell'[k] = c \/ (HasCell(k) /\ cell[k] = cell'[k] /\ cell[k] \in cells)
    BY <1>2
  <2>6. QED
    BY <2>2, <2>4, <2>5, CountsKept
<1>5. o \in held \cup {NoObject} /\ exists' = exists /\ held' = held \ {o}
  BY DEF Accepts
<1>6. \A m \in Node : o # NoObject => pointee[m] # o
  BY <1>5 DEF IInv, Accounted
<1>7. Grouped'
  BY <1>2, <1>6 DEF IInv, Grouped
<1>8. Accounted'
  <2>1. \A m \in Node : pointee'[m] # NoObject => pointee'[m] \in exists' \ held'
    BY <1>2, <1>5 DEF IInv, TypeOK, Accounted
  <2>2. \A x \in exists' \ held' : \E m \in Node : pointee'[m] = x
    BY <1>2, <1>5, NullAssumption DEF IInv, TypeOK, Accounted
  <2>3. QED
    BY <2>1, <2>2 DEF Accounted
<1>9. QED
  BY <1>1, <1>3, <1>4, <1>7, <1>8 DEF IInv

LEMMA ConstructThrowsIInv ==
  ASSUME IInv, NEW n \in Node, NEW c \in Cell, ConstructThrows(n, c)
  PROVE  IInv'
<1> USE DEF ConstructThrows, HasCell, Made, Counted
<1>1. TypeOK'
  BY DEF IInv, TypeOK
<1>2. \A m \in Node : HasCell(m) => cell[m] # c
  BY DEF IInv, CellsUsed
<1>3. CellsUsed'
  BY <1>2 DEF IInv, CellsUsed
<1>4. CountsAgree'
  <2>1. \A d : SharersOf(stage', cell', d) = SharersOf(stage, cell, d)
    BY DEF SharersOf
  <2>2. QED
    BY <1>2, <2>1 DEF IInv, CountsAgree, TypeOK, CellsUsed
<1>5. Grouped' /\ Accounted'
  BY DEF IInv, Grouped, Accounted
<1>6. QED
  BY <1>1, <1>3, <1>4, <1>5 DEF IInv

LEMMA ShareIInv ==
  ASSUME IInv, NEW n \in Node, NEW m \in Node, NEW s \in {"owner", "leaving"}, Share(n, m, s)
  PROVE  IInv'
<1> USE DEF Share, HasCell, Made, Counted, Owner
<1> DEFINE c == cell[m]
<1>1. c \in Cell /\ n # m /\ HasCell(m) /\ ~HasCell(n) /\ pointee[n] = NoObject
  BY CountPositive DEF IInv, Grouped
<1>2. TypeOK'
  BY <1>1 DEF IInv, TypeOK, Stage
<1>3. /\ HasCell(n)' /\ cell'[n] = c /\ pointee'[n] = pointee[m] /\ stage'[n] = s
      /\ \A k \in Node \ {n} :
           stage'[k] = stage[k] /\ cell'[k] = cell[k] /\ pointee'[k] = pointee[k]
  BY DEF IInv, TypeOK
<1>4. CellsUsed'
  BY <1>1, <1>3 DEF IInv, CellsUsed
<1>5. CountsAgree'
  <2>1. SharersOf(stage', cell', c) = SharersOf(stage, cell, c) \cup {n} /\ n \notin SharersOf(stage, cell, c)
    BY <1>1, <1>3 DEF SharersOf
  <2>2. \A d \in Cell \ {c} : SharersOf(stage', cell', d) = SharersOf(stage, cell, d) /\ count'[d] = count[d]
    BY <1>3 DEF SharersOf, IInv, TypeOK
  <2>3. count'[c] = count[c] + 1 /\ count[c] = Cardinality(SharersOf(stage, cell, c))
    BY <1>1 DEF IInv, TypeOK, CountsAgree
  <2>4. count'[c] = Cardinality(SharersOf(stage', cell', c))
    BY <2>1, <2>3, SharersFinite, FS_AddElement
  <2>5. \A k \in Node : HasCell(k)' =>
          cell'[k] = c \/ (HasCell(k) /\ cell[k] = cell'[k] /\ cell[k] \in Cell)
    BY <1>3 DEF IInv, TypeOK, CellsUsed
  <2>6. QED
    BY <2>2, <2>4, <2>5, CountsKept
<1>6. Grouped'
  <2>1. stage[m] # "last" /\ pointee[m] = pointee'[n]
    BY <1>3
  <2>2. \A k, j \in Node : HasCell(k)' /\ HasCell(j)' /\ cell'[k] = cell'[j]
                             => pointee'[k] = pointee'[j]
    BY <1>1, <1>3 DEF IInv, Grouped
  <2>3. \A k, j \in Node :
          k # j /\ pointee'[k] = pointee'[j] /\ pointee'[k] # NoObject
            => HasCell(k)' /\ HasCell(j)' /\ cell'[k] = cell'[j]
    BY <1>1, <1>3 DEF IInv, Grouped
  <2>4. \A k, j \in Node : k # j /\ stage'[k] = "last" /\ HasCell(j)' => cell'[j] # cell'[k]
    BY <1>1, <1>3, <2>1 DEF IInv, Grouped
  <2>5. \A k \in Node : ~Made(k)' => pointee'[k] = NoObject
    BY <1>1, <1>3 DEF IInv, Grouped
  <2>6. QED
    BY <2>2, <2>3, <2>4, <2>5 DEF Grouped
<1>7. Accounted'
  <2>1. exists' = exists /\ held' = held
    OBVIOUS
  <2>2. \A k \in Node : pointee'[k] # NoObject => pointee'[k] \in exists \ held
    BY <1>3 DEF IInv, Accounted
  <2>3. ASSUME NEW o \in exists \ held PROVE \E k \in Node : pointee'[k] = o
    <3>1. PICK k \in Node : pointee[k] = o
      BY DEF IInv, Accounted
    <3>2. k # n
      BY <1>1, <3>1, NullAssumption DEF IInv, TypeOK
    <3>3. QED
      BY <1>3, <3>1, <3>2
  <2>4. QED
    BY <2>1, <2>2, <2>3 DEF Accounted
<1>8. QED
  BY <1>2, <1>4, <1>5, <1>6, <1>7 DEF IInv

(* Two owners take each other's place: everything else is renaming. *)
LEMMA SwapIInv ==
  ASSUME IInv, NEW a \in Node, NEW b \in Node, Swap(a, b)
  PROVE  IInv'
<1> DEFINE sw(k) == IF k = a THEN b ELSE IF k = b THEN a ELSE k
<1>1. \A k \in Node :
        /\ sw(k) \in Node /\ sw(sw(k)) = k
        /\ stage'[k] = stage[sw(k)] /\ cell'[k] = cell[sw(k)] /\ pointee'[k] = pointee[sw(k)]
  BY DEF Swap, IInv, TypeOK, Owner
<1>2. \A k, j \in Node : k # j => sw(k) # sw(j)
  OBVIOUS
<1>3. UNCHANGED <<stage, count, cells, leaked, exists, held>> /\ Counted(a) /\ Counted(b)
  BY DEF Swap, Owner, Counted
<1>4. TypeOK'
  BY DEF Swap, IInv, TypeOK
<1>5. CountsAgree'
  <2>1. ASSUME NEW d PROVE Cardinality(SharersOf(stage', cell', d)) = Cardinality(SharersOf(stage, cell, d))
    <3> DEFINE S == SharersOf(stage, cell, d)
               T == SharersOf(stage', cell', d)
    <3>1. IsFiniteSet(S)
      BY SharersFinite
    <3>2. CASE T = S
      BY <3>2
    <3>3. ASSUME NEW x \in S, NEW y, y \notin S, T = (S \ {x}) \cup {y}
          PROVE  Cardinality(T) = Cardinality(S)
      <4>1. IsFiniteSet(S \ {x}) /\ Cardinality(S \ {x}) = Cardinality(S) - 1
        BY <3>1, FS_RemoveElement
      <4>2. Cardinality(T) = Cardinality(S \ {x}) + 1
        BY <3>3, <4>1, FS_AddElement
      <4>3. QED
        BY <3>1, <4>1, <4>2, FS_CardinalityType
    <3>4. \A k \in Node : k \in T <=> sw(k) \in S
      BY <1>1, <1>3 DEF SharersOf
    <3>5. CASE a \in S /\ b \notin S
      <4>1. T = (S \ {a}) \cup {b}
        BY <3>4, <3>5 DEF SharersOf
      <4>2. QED
        BY <3>3, <3>5, <4>1
    <3>6. CASE b \in S /\ a \notin S
      <4>1. T = (S \ {b}) \cup {a}
        BY <3>4, <3>6 DEF SharersOf
      <4>2. QED
        BY <3>3, <3>6, <4>1
    <3>7. CASE a \in S <=> b \in S
      <4>1. T = S
        BY <3>4, <3>7 DEF SharersOf
      <4>2. QED
        BY <3>2, <4>1
    <3>8. QED
      BY <3>5, <3>6, <3>7
  <2>2. ASSUME NEW k \in Node, HasCell(k)'
        PROVE  count'[cell'[k]] = Cardinality(SharersOf(stage', cell', cell'[k]))
    <3>1. HasCell(sw(k)) /\ sw(k) \in Node /\ cell'[k] = cell[sw(k)]
      BY <1>1, <2>2 DEF HasCell
    <3>2. count[cell[sw(k)]] = Cardinality(SharersOf(stage, cell, cell[sw(k)]))
      BY <3>1 DEF IInv, CountsAgree
    <3> HIDE DEF sw
    <3>3. QED
      BY <1>3, <2>1, <3>1, <3>2
  <2>3. QED
    BY <2>2 DEF CountsAgree
<1> HIDE DEF sw
<1>6. CellsUsed'
  <2>1. \A k \in Node : HasCell(k)' => cell'[k] \in cells' \ leaked'
    BY <1>1, <1>3 DEF IInv, CellsUsed, HasCell
  <2>2. \A d \in cells' \ leaked' : \E k \in Node : HasCell(k)' /\ cell'[k] = d
    <3> SUFFICES ASSUME NEW d \in cells \ leaked PROVE \E k \in Node : HasCell(k)' /\ cell'[k] = d
      BY <1>3
    <3>1. PICK j \in Node : HasCell(j) /\ cell[j] = d
      BY DEF IInv, CellsUsed
    <3>2. HasCell(sw(j))' /\ cell'[sw(j)] = d
      BY <1>1, <3>1 DEF HasCell
    <3>3. QED
      BY <1>1, <3>2
  <2>3. QED
    BY <2>1, <2>2 DEF CellsUsed
<1>7. Grouped'
  BY <1>1, <1>2 DEF IInv, Grouped, HasCell, Made
<1>8. Accounted'
  <2>1. \A k \in Node : pointee'[k] # NoObject => pointee'[k] \in exists' \ held'
    BY <1>1, <1>3 DEF IInv, Accounted
  <2>2. \A o \in exists \ held : \E k \in Node : pointee'[k] = o
    BY <1>1 DEF IInv, Accounted
  <2>3. QED
    BY <1>3, <2>1, <2>2 DEF Accounted
<1>9. QED
  BY <1>4, <1>5, <1>6, <1>7, <1>8 DEF IInv

(* The temporary takes n's place and n is alone with its new object. *)
LEMMA ResetIInv ==
  ASSUME IInv, NEW n \in Node, NEW t \in Node, NEW c \in Cell,
         NEW o \in Object \cup {NoObject}, Reset(n, t, c, o)
  PROVE  IInv'
<1> USE DEF HasCell, Made, Counted
<1>1. /\ n # t /\ stage[n] = "owner" /\ stage[t] = "none" /\ pointee[t] = NoObject
      /\ stage'[n] = "owner" /\ cell'[n] = c /\ pointee'[n] = o
      /\ stage'[t] = "leaving" /\ cell'[t] = cell[n] /\ pointee'[t] = pointee[n]
      /\ \A k \in Node \ {n, t} :
           stage'[k] = stage[k] /\ cell'[k] = cell[k] /\ pointee'[k] = pointee[k]
  BY DEF Reset, Owner, IInv, TypeOK, Grouped
<1>2. \A k \in Node : HasCell(k) => cell[k] \in cells \ leaked /\ cell[k] # c
  BY DEF Reset, IInv, CellsUsed
<1>3. o \in held \cup {NoObject} /\ UNCHANGED <<leaked, exists>> /\ held' = held \ {o}
      /\ cells' = cells \cup {c} /\ c \notin cells
  BY DEF Reset, Accepts
<1>4. TypeOK'
  BY <1>1, <1>2 DEF Reset, Accepts, IInv, TypeOK, Stage
<1>5. CellsUsed'
  <2>1. \A k \in Node : HasCell(k)' => cell'[k] \in cells' \ leaked'
    BY <1>1, <1>2, <1>3 DEF IInv, TypeOK
  <2>2. ASSUME NEW d \in cells' \ leaked' PROVE \E k \in Node : HasCell(k)' /\ cell'[k] = d
    <3>1. CASE d = c
      BY <1>1, <3>1
    <3>2. CASE d # c
      <4>1. PICK k \in Node : HasCell(k) /\ cell[k] = d
        BY <1>3, <3>2 DEF IInv, CellsUsed
      <4>2. CASE k = n
        BY <1>1, <4>1, <4>2
      <4>3. CASE k # n
        BY <1>1, <4>1, <4>3
      <4>4. QED
        BY <4>2, <4>3
    <3>3. QED
      BY <3>1, <3>2
  <2>3. QED
    BY <2>1, <2>2 DEF CellsUsed
<1>6. CountsAgree'
  <2> DEFINE S == SharersOf(stage, cell, cell[n])
  <2>1. SharersOf(stage', cell', cell[n]) = (S \ {n}) \cup {t} /\ n \in S /\ t \notin S
    BY <1>1, <1>2 DEF SharersOf
  <2>2. SharersOf(stage', cell', c) = {n}
    BY <1>1, <1>2 DEF SharersOf
  <2>3. \A d \in Cell \ {c, cell[n]} : SharersOf(stage', cell', d) = SharersOf(stage, cell, d)
    BY <1>1 DEF SharersOf
  <2>4. count'[c] = 1 /\ \A d \in Cell \ {c} : count'[d] = count[d]
    BY DEF Reset, IInv, TypeOK
  <2>5. cell[n] \in Cell \ {c} /\ count[cell[n]] = Cardinality(S)
    BY <1>1, <1>2 DEF IInv, TypeOK, CountsAgree
  <2> HIDE DEF S
  <2>6. IsFiniteSet(S)
    BY SharersFinite DEF S
  <2>7. IsFiniteSet(S \ {n}) /\ Cardinality(S \ {n}) = Cardinality(S) - 1
    BY <2>1, <2>6, FS_RemoveElement
  <2>8. Cardinality((S \ {n}) \cup {t}) = Cardinality(S \ {n}) + 1
    BY <2>1, <2>7, FS_AddElement
  <2>9. count'[cell[n]] = Cardinality(SharersOf(stage', cell', cell[n]))
    BY <2>1, <2>4, <2>5, <2>6, <2>7, <2>8, FS_CardinalityType
  <2>10. count'[c] = Cardinality(SharersOf(stage', cell', c))
    BY <2>2, <2>4, FS_Singleton
  <2>11. \A k \in Node : HasCell(k)' =>
           \/ cell'[k] \in {c, cell[n]}
           \/ HasCell(k) /\ cell[k] = cell'[k] /\ cell'[k] \in Cell \ {c, cell[n]}
    BY <1>1, <1>2 DEF IInv, TypeOK
  <2>12. QED
    BY <2>3, <2>4, <2>9, <2>10, <2>11, CountsKept
<1>7. \A k \in Node : o # NoObject => pointee[k] # o
  BY <1>3 DEF IInv, Accounted
<1>8. Grouped'
  <2>1. \A k, j \in Node : HasCell(k)' /\ HasCell(j)' /\ cell'[k] = cell'[j]
                             => pointee'[k] = pointee'[j]
    BY <1>1, <1>2 DEF IInv, Grouped
  <2>2. \A k, j \in Node :
          k # j /\ pointee'[k] = pointee'[j] /\ pointee'[k] # NoObject
            => HasCell(k)' /\ HasCell(j)' /\ cell'[k] = cell'[j]
    BY <1>1, <1>2, <1>7 DEF IInv, Grouped
  <2>3. \A k, j \in Node : k # j /\ stage'[k] = "last" /\ HasCell(j)' => cell'[j] # cell'[k]
    BY <1>1, <1>2 DEF IInv, Grouped
  <2>4. \A k \in Node : ~Made(k)' => pointee'[k] = NoObject
    BY <1>1 DEF IInv, Grouped
  <2>5. QED
    BY <2>1, <2>2, <2>3, <2>4 DEF Grouped
<1>9. Accounted'
  <2>1. \A k \in Node : pointee'[k] # NoObject => pointee'[k] \in exists' \ held'
    BY <1>1, <1>3, <1>7 DEF IInv, TypeOK, Accounted
  <2>2. ASSUME NEW x \in exists' \ held' PROVE \E k \in Node : pointee'[k] = x
    <3>1. CASE x = o
      BY <1>1, <3>1
    <3>2. CASE x # o
      <4>1. PICK k \in Node : pointee[k] = x
        BY <1>3, <3>2 DEF IInv, Accounted
      <4>2. k # t
        BY <1>1, <1>3, <4>1, NullAssumption DEF IInv, TypeOK
      <4>3. CASE k = n
        BY <1>1, <4>1, <4>3
      <4>4. CASE k # n
        BY <1>1, <4>1, <4>2, <4>4
      <4>5. QED
        BY <4>3, <4>4
    <3>3. QED
      BY <3>1, <3>2
  <2>3. QED
    BY <2>1, <2>2 DEF Accounted
<1>10. QED
  BY <1>4, <1>5, <1>6, <1>8, <1>9 DEF IInv

(* An owner of count 1 shares its object with nobody: the client has it. *)
LEMMA ReleaseIInv ==
  ASSUME IInv, NEW n \in Node, Release(n)
  PROVE  IInv'
<1> USE DEF HasCell, Made, Counted
<1>1. /\ stage[n] = "owner" /\ pointee[n] # NoObject /\ pointee'[n] = NoObject
      /\ pointee[n] \in exists \ held /\ held' = held \cup {pointee[n]}
      /\ \A k \in Node \ {n} : pointee'[k] = pointee[k]
      /\ UNCHANGED <<stage, cell, count, cells, leaked, exists>>
  BY DEF Release, Owner, IInv, TypeOK, Accounted
<1>2. \A k \in Node \ {n} : HasCell(k) => cell[k] # cell[n]
  <2> SUFFICES ASSUME NEW k \in Node \ {n}, HasCell(k), cell[k] = cell[n] PROVE FALSE
    OBVIOUS
  <2>1. SharersOf(stage, cell, cell[n]) = {n}
    BY <1>1, CountPositive DEF Release
  <2>2. stage[k] = "last"
    BY <2>1 DEF SharersOf
  <2>3. QED
    BY <1>1, <2>2 DEF IInv, Grouped
<1>3. \A k \in Node \ {n} : pointee[k] # pointee[n]
  BY <1>1, <1>2 DEF IInv, Grouped
<1>4. TypeOK'
  BY <1>1 DEF Release, IInv, TypeOK
<1>5. CellsUsed'
  BY <1>1 DEF IInv, CellsUsed
<1>6. CountsAgree'
  BY <1>1 DEF IInv, CountsAgree
<1>7. Grouped'
  BY <1>1, <1>2 DEF IInv, Grouped
<1>8. Accounted'
  <2>1. \A k \in Node : pointee'[k] # NoObject => pointee'[k] \in exists' \ held'
    BY <1>1, <1>3 DEF IInv, Accounted
  <2>2. \A x \in exists' \ held' : \E k \in Node : pointee'[k] = x
    BY <1>1, <1>3 DEF IInv, Accounted
  <2>3. QED
    BY <2>1, <2>2 DEF Accounted
<1>9. QED
  BY <1>4, <1>5, <1>6, <1>7, <1>8 DEF IInv

(* One of several leaves, and the others keep the object. *)
LEMMA NotLastIInv ==
  ASSUME IInv, NEW n \in Node, Decrement_NotLast(n)
  PROVE  IInv'
<1> USE DEF HasCell, Made, Counted
<1>1. /\ stage[n] \in {"owner", "leaving"}
      /\ stage'[n] = "none" /\ pointee'[n] = NoObject
      /\ \A k \in Node \ {n} :
           stage'[k] = stage[k] /\ cell'[k] = cell[k] /\ pointee'[k] = pointee[k]
      /\ UNCHANGED <<cells, leaked, exists, held>>
  BY DEF Decrement_NotLast, IInv, TypeOK
<1> DEFINE S == SharersOf(stage, cell, cell[n])
<1>2. /\ cell[n] \in Cell /\ count[cell[n]] \in Nat \ {0, 1} /\ IsFiniteSet(S) /\ n \in S
      /\ count[cell[n]] = Cardinality(S)
  <2>1. cell[n] \in Cell /\ count[cell[n]] \in Nat \ {0}
    BY <1>1, CountPositive
  <2>2. count[cell[n]] # 1
    BY DEF Decrement_NotLast
  <2>3. IsFiniteSet(S)
    BY SharersFinite
  <2>4. n \in S
    BY <1>1 DEF SharersOf
  <2>5. count[cell[n]] = Cardinality(S)
    BY <1>1 DEF IInv, CountsAgree
  <2>6. QED
    BY <2>1, <2>2, <2>3, <2>4, <2>5
<1>3. TypeOK'
  <2>1. count' \in [Cell -> Nat]
    BY <1>2 DEF Decrement_NotLast, IInv, TypeOK
  <2>2. QED
    BY <2>1 DEF Decrement_NotLast, IInv, TypeOK, Stage
<1>4. IsFiniteSet(S \ {n}) /\ Cardinality(S \ {n}) = Cardinality(S) - 1
  BY <1>2, FS_RemoveElement
<1>5. PICK m \in S : m # n
  BY <1>2, <1>4, FS_EmptySet
<1>6. m \in Node /\ HasCell(m) /\ cell[m] = cell[n] /\ m # n
  BY <1>5 DEF SharersOf
<1>7. CellsUsed'
  <2>1. \A k \in Node : HasCell(k)' => cell'[k] \in cells' \ leaked'
    BY <1>1 DEF IInv, CellsUsed
  <2>2. ASSUME NEW d \in cells \ leaked PROVE \E k \in Node : HasCell(k)' /\ cell'[k] = d
    <3>1. PICK k \in Node : HasCell(k) /\ cell[k] = d
      BY DEF IInv, CellsUsed
    <3>2. QED
      BY <1>1, <1>6, <3>1
  <2>3. QED
    BY <1>1, <2>1, <2>2 DEF CellsUsed
<1>8. CountsAgree'
  <2>1. SharersOf(stage', cell', cell[n]) = S \ {n}
    BY <1>1 DEF SharersOf
  <2>2. \A d \in Cell \ {cell[n]} :
          SharersOf(stage', cell', d) = SharersOf(stage, cell, d) /\ count'[d] = count[d]
    BY <1>1 DEF SharersOf, Decrement_NotLast, IInv, TypeOK
  <2>3. count'[cell[n]] = count[cell[n]] - 1
    BY <1>2 DEF Decrement_NotLast, IInv, TypeOK
  <2>4. count'[cell[n]] = Cardinality(SharersOf(stage', cell', cell[n]))
    BY <1>2, <1>4, <2>1, <2>3
  <2>5. \A k \in Node : HasCell(k)' => HasCell(k) /\ cell[k] = cell'[k] /\ cell[k] \in Cell
    BY <1>1 DEF IInv, TypeOK, CellsUsed
  <2>6. QED
    BY <2>2, <2>4, <2>5, CountsKept
<1>9. Grouped'
  <2>1. \A k, j \in Node : HasCell(k)' /\ HasCell(j)' /\ cell'[k] = cell'[j]
                             => pointee'[k] = pointee'[j]
    BY <1>1 DEF IInv, Grouped
  <2>2. \A k, j \in Node :
          k # j /\ pointee'[k] = pointee'[j] /\ pointee'[k] # NoObject
            => HasCell(k)' /\ HasCell(j)' /\ cell'[k] = cell'[j]
    BY <1>1 DEF IInv, Grouped
  <2>3. \A k, j \in Node : k # j /\ stage'[k] = "last" /\ HasCell(j)' => cell'[j] # cell'[k]
    BY <1>1 DEF IInv, Grouped
  <2>4. \A k \in Node : ~Made(k)' => pointee'[k] = NoObject
    BY <1>1 DEF IInv, Grouped
  <2>5. QED
    BY <2>1, <2>2, <2>3, <2>4 DEF Grouped
<1>10. Accounted'
  <2>1. \A k \in Node : pointee'[k] # NoObject => pointee'[k] \in exists' \ held'
    BY <1>1 DEF IInv, Accounted
  <2>2. ASSUME NEW x \in exists \ held PROVE \E k \in Node : pointee'[k] = x
    <3>1. PICK k \in Node : pointee[k] = x
      BY DEF IInv, Accounted
    <3>2. pointee[m] = pointee[n]
      BY <1>1, <1>6 DEF IInv, Grouped
    <3>3. QED
      BY <1>1, <1>6, <3>1, <3>2
  <2>3. QED
    BY <1>1, <2>1, <2>2 DEF Accounted
<1>11. QED
  BY <1>3, <1>7, <1>8, <1>9, <1>10 DEF IInv

(* The only one that shares a count is alone from then on. *)
LEMMA LastIInv ==
  ASSUME IInv, NEW n \in Node, Decrement_Last(n)
  PROVE  IInv'
<1> USE DEF HasCell, Made, Counted
<1>1. /\ stage[n] \in {"owner", "leaving"} /\ stage'[n] = "last"
      /\ \A k \in Node \ {n} : stage'[k] = stage[k]
      /\ UNCHANGED <<cell, pointee, cells, leaked, exists, held>>
  BY DEF Decrement_Last, IInv, TypeOK
<1>2. cell[n] \in Cell /\ SharersOf(stage, cell, cell[n]) = {n}
  BY <1>1, CountPositive DEF Decrement_Last
<1>3. \A k \in Node : HasCell(k)' <=> HasCell(k)
  BY <1>1
<1>4. \A k \in Node \ {n} : HasCell(k) => cell[k] # cell[n]
  <2> SUFFICES ASSUME NEW k \in Node \ {n}, HasCell(k), cell[k] = cell[n] PROVE FALSE
    OBVIOUS
  <2>1. stage[k] = "last"
    BY <1>2 DEF SharersOf
  <2>2. QED
    BY <1>1, <2>1 DEF IInv, Grouped
<1>5. TypeOK'
  BY <1>2 DEF Decrement_Last, IInv, TypeOK, Stage
<1>6. CellsUsed'
  BY <1>1, <1>3 DEF IInv, CellsUsed
<1>7. CountsAgree'
  <2>1. SharersOf(stage', cell', cell[n]) = {} /\ count'[cell[n]] = 0
    BY <1>1, <1>2 DEF SharersOf, Decrement_Last, IInv, TypeOK
  <2>2. \A d \in Cell \ {cell[n]} :
          SharersOf(stage', cell', d) = SharersOf(stage, cell, d) /\ count'[d] = count[d]
    BY <1>1 DEF SharersOf, Decrement_Last, IInv, TypeOK
  <2>3. count'[cell[n]] = Cardinality(SharersOf(stage', cell', cell[n]))
    BY <2>1, FS_EmptySet
  <2>4. \A k \in Node : HasCell(k)' => HasCell(k) /\ cell[k] = cell'[k] /\ cell[k] \in Cell
    BY <1>1, <1>3 DEF IInv, TypeOK, CellsUsed
  <2>5. QED
    BY <2>2, <2>3, <2>4, CountsKept
<1>8. Grouped'
  BY <1>1, <1>3, <1>4 DEF IInv, Grouped
<1>9. Accounted'
  BY <1>1 DEF IInv, Accounted
<1>10. QED
  BY <1>5, <1>6, <1>7, <1>8, <1>9 DEF IInv

LEMMA FreeCountIInv ==
  ASSUME IInv, NEW n \in Node, FreeCount(n)
  PROVE  IInv'
<1> USE DEF HasCell, Made, Counted
<1>1. /\ stage[n] = "last" /\ stage'[n] = "bare" /\ cells' = cells \ {cell[n]}
      /\ \A k \in Node \ {n} : stage'[k] = stage[k] /\ cell'[k] = cell[k]
      /\ UNCHANGED <<pointee, count, leaked, exists, held>>
  BY DEF FreeCount, IInv, TypeOK
<1>2. \A k \in Node \ {n} : HasCell(k) => cell[k] # cell[n]
  BY <1>1 DEF IInv, Grouped
<1>3. cell[n] \notin leaked
  BY <1>1 DEF IInv, CellsUsed
<1>4. TypeOK'
  BY <1>3 DEF FreeCount, IInv, TypeOK, Stage
<1>5. CellsUsed'
  BY <1>1, <1>2 DEF IInv, CellsUsed
<1>6. CountsAgree'
  <2>1. \A d : d # cell[n] => SharersOf(stage', cell', d) = SharersOf(stage, cell, d)
    BY <1>1 DEF SharersOf
  <2>2. \A k \in Node : HasCell(k)' => HasCell(k) /\ cell[k] = cell'[k] /\ cell[k] # cell[n]
    BY <1>1, <1>2
  <2>3. QED
    BY <1>1, <2>1, <2>2, CountsKept
<1>7. Grouped'
  BY <1>1, <1>2 DEF IInv, Grouped
<1>8. Accounted'
  BY <1>1 DEF IInv, Accounted
<1>9. QED
  BY <1>4, <1>5, <1>6, <1>7, <1>8 DEF IInv

LEMMA DeleteObjectIInv ==
  ASSUME IInv, NEW n \in Node, DeleteObject(n)
  PROVE  IInv'
<1> USE DEF HasCell, Made, Counted
<1>1. /\ stage[n] = "bare" /\ stage'[n] = "none"
      /\ pointee'[n] = NoObject /\ exists' = exists \ {pointee[n]}
      /\ \A k \in Node \ {n} : stage'[k] = stage[k] /\ pointee'[k] = pointee[k]
      /\ UNCHANGED <<cell, count, cells, leaked, held>>
  BY DEF DeleteObject, IInv, TypeOK
<1>2. \A k \in Node \ {n} : pointee[k] = pointee[n] => pointee[n] = NoObject
  BY <1>1 DEF IInv, Grouped
<1>3. pointee[n] \notin held
  BY NullAssumption DEF IInv, TypeOK, Accounted
<1>4. TypeOK'
  BY <1>1, <1>3 DEF DeleteObject, IInv, TypeOK, Stage
<1>5. CellsUsed'
  BY <1>1 DEF IInv, CellsUsed
<1>6. CountsAgree'
  <2>1. \A d : SharersOf(stage', cell', d) = SharersOf(stage, cell, d)
    BY <1>1 DEF SharersOf
  <2>2. QED
    BY <1>1, <2>1, CountsKept
<1>7. Grouped'
  BY <1>1 DEF IInv, Grouped
<1>8. Accounted'
  BY <1>1, <1>2, <1>3 DEF IInv, Accounted
<1>9. QED
  BY <1>4, <1>5, <1>6, <1>7, <1>8 DEF IInv

-----------------------------------------------------------------------------
(* The theorems *)

LEMMA NextIInv ==
  ASSUME IInv, [Next]_vars
  PROVE  IInv'
<1>1. ASSUME NEW o \in Object, NewObject(o) \/ DeleteHeld(o) PROVE IInv'
  BY <1>1, ClientIInv
<1>2. ASSUME NEW n \in Node, NEW c \in Cell, ConstructThrows(n, c) PROVE IInv'
  BY <1>2, ConstructThrowsIInv
<1>3. ASSUME NEW n \in Node, NEW c \in Cell, NEW o \in Object \cup {NoObject}, Construct(n, c, o)
      PROVE  IInv'
  BY <1>3, ConstructIInv
<1>4. ASSUME NEW n \in Node, NEW t \in Node, NEW c \in Cell, NEW o \in Object \cup {NoObject},
             Reset(n, t, c, o)
      PROVE  IInv'
  BY <1>4, ResetIInv
<1>5. ASSUME NEW n \in Node, NEW m \in Node, Copy(n, m) PROVE IInv'
  BY <1>5, ShareIInv DEF Copy
<1>6. ASSUME NEW n \in Node, NEW m \in Node, Swap(n, m) PROVE IInv'
  BY <1>6, SwapIInv
<1>7. ASSUME NEW n \in Node, NEW m \in Node, NEW t \in Node, MoveAssign(n, m, t) PROVE IInv'
  BY <1>7, ShareIInv DEF MoveAssign
<1>8. ASSUME NEW n \in Node, Release(n) PROVE IInv'
  BY <1>8, ReleaseIInv
<1>9. ASSUME NEW n \in Node, Decrement(n) PROVE IInv'
  BY <1>9, NotLastIInv, LastIInv DEF Decrement
<1>10. ASSUME NEW n \in Node, FreeCount(n) PROVE IInv'
  BY <1>10, FreeCountIInv
<1>11. ASSUME NEW n \in Node, DeleteObject(n) PROVE IInv'
  BY <1>11, DeleteObjectIInv
<1>12. CASE UNCHANGED vars
  <2>1. UNCHANGED <<stage, cell, pointee, count, cells, leaked, exists, held>>
    BY <1>12 DEF vars
  <2>2. TypeOK' /\ CellsUsed' /\ Grouped' /\ Accounted'
    BY <2>1 DEF IInv, TypeOK, CellsUsed, Grouped, Accounted, HasCell, Made
  <2>3. CountsAgree'
    BY <2>1 DEF IInv, CountsAgree, HasCell
  <2>4. QED
    BY <2>2, <2>3 DEF IInv
<1>13. QED
  BY <1>1, <1>2, <1>3, <1>4, <1>5, <1>6, <1>7, <1>8, <1>9, <1>10, <1>11, <1>12 DEF Next

(* The inductive invariant holds in every behaviour of the smart pointers, *)
(* fair or not.                                                            *)
THEOREM CountedInvariance == Spec => []IInv
<1>1. IInv /\ [Next]_vars => IInv'
  BY NextIInv
<1>2. QED
  BY InitIInv, <1>1, PTL DEF Spec

(* Every state of the smart pointers has its type: no count is below zero. *)
THEOREM CountedTypeCorrect == Spec => []TypeOK
<1>1. IInv => TypeOK
  BY DEF IInv
<1>2. QED
  BY CountedInvariance, <1>1, PTL

(* *pCount_ is the number of smart pointers that share it, in every        *)
(* interleaving of RefCountedAtomic's increments and decrements, and the   *)
(* counts in memory are those and the ones that throwing constructions     *)
(* lost.                                                                   *)
THEOREM CountsAreExact == Spec => []CountExact
<1>1. IInv => CountExact
  <2> SUFFICES ASSUME IInv PROVE CountExact
    OBVIOUS
  <2>1. cells = leaked \cup {cell[n] : n \in {m \in Node : HasCell(m)}}
    BY DEF IInv, TypeOK, CellsUsed
  <2>2. \A c : Sharers(c) = SharersOf(stage, cell, c)
    BY DEF Sharers, SharersOf, Counted
  <2>3. QED
    BY <2>1, <2>2 DEF CountExact, IInv, CellsUsed, CountsAgree
<1>2. QED
  BY CountedInvariance, <1>1, PTL

(* An object lives exactly as long as something leads to it, and only the  *)
(* last owner's destructor deletes it.                                     *)
THEOREM ObjectsLiveAsOwned == Spec => []ExistsIffOwned
<1>1. IInv => ExistsIffOwned
  <2> SUFFICES ASSUME IInv PROVE ExistsIffOwned
    OBVIOUS
  <2>1. exists \ held = {pointee[n] : n \in Node} \ {NoObject}
    BY NullAssumption DEF IInv, TypeOK, Accounted
  <2>2. \A n \in Node : pointee[n] \notin held
    BY NullAssumption DEF IInv, TypeOK, Accounted
  <2>3. ASSUME NEW n \in Node, NEW m \in Node, n # m, stage[n] \in {"last", "bare"},
               pointee[n] = pointee[m]
        PROVE  pointee[n] = NoObject
    BY <2>3 DEF IInv, Grouped, HasCell
  <2>4. QED
    BY <2>1, <2>2, <2>3 DEF ExistsIffOwned
<1>2. QED
  BY CountedInvariance, <1>1, PTL
-----------------------------------------------------------------------------
(***************************************************************************)
(* Smart pointers with shared counts implement CoOwners: those that share a *)
(* count are a party.                                                       *)
(***************************************************************************)
-----------------------------------------------------------------------------
(* Parties *)

\* Party(n), of given stages and cells.
PartyAt(st, ce, n) ==
  IF st[n] \in {"owner", "leaving", "last"}
  THEN {m \in Node : st[m] \in {"owner", "leaving", "last"} /\ ce[m] = ce[n]}
  ELSE {n}

PartiesAt(st, ce) == {PartyAt(st, ce, n) : n \in {m \in Node : st[m] # "none"}}

LEMMA PartiesAre == Parties = PartiesAt(stage, cell) /\ Parties' = PartiesAt(stage', cell')
  BY DEF Parties, PartiesAt, Party, PartyAt, HasCell, Made

LEMMA PartyIs == \A n : Party(n) = PartyAt(stage, cell, n)
  BY DEF Party, PartyAt, HasCell

(* A smart pointer is in its own party, and in no other. *)
LEMMA OnePartyEach ==
  ASSUME NEW n \in Node, Made(n)
  PROVE  /\ n \in Party(n)
         /\ Party(n) \in Parties
         /\ \A p \in Parties : n \in p => p = Party(n)
  BY DEF Party, Parties, Made, HasCell

LEMMA MembersAreMade == Abstract!Member = {n \in Node : Made(n)}
<1>1. \A n \in Node : Made(n) => n \in Abstract!Member
  BY OnePartyEach DEF Abstract!Member
<1>2. \A n \in Abstract!Member : n \in Node /\ Made(n)
  BY DEF Abstract!Member, Parties, Party, Made, HasCell
<1>3. QED
  BY <1>1, <1>2

LEMMA PartyOfIs ==
  ASSUME NEW n \in Node, Made(n)
  PROVE  Abstract!PartyOf(n) = Party(n)
  BY OnePartyEach DEF Abstract!PartyOf

(* The last of its object is a party of one. *)
LEMMA AloneAtTheEnd ==
  ASSUME IInv, NEW n \in Node,
         stage[n] \in {"last", "bare"} \/ (Counted(n) /\ count[cell[n]] = 1)
  PROVE  Party(n) = {n}
<1>1. CASE stage[n] = "bare"
  BY <1>1 DEF Party, HasCell
<1>2. CASE stage[n] = "last"
  BY <1>2 DEF Party, HasCell, IInv, Grouped
<1>3. CASE Counted(n) /\ count[cell[n]] = 1
  <2>1. SharersOf(stage, cell, cell[n]) = {n} /\ HasCell(n)
    BY <1>3, CountPositive DEF HasCell, Counted
  <2>2. \A m \in Node : HasCell(m) /\ cell[m] = cell[n] /\ m # n => stage[m] = "last"
    BY <2>1 DEF SharersOf, HasCell
  <2>3. \A m \in Node : HasCell(m) /\ cell[m] = cell[n] => m = n
    BY <2>1, <2>2 DEF IInv, Grouped
  <2>4. QED
    BY <2>1, <2>3 DEF Party
<1>4. QED
  BY <1>1, <1>2, <1>3

-----------------------------------------------------------------------------
(* One lemma per action *)

LEMMA InitRefines == Init => Abstract!Init
  BY DEF Init, Abstract!Init, Parties, Made

LEMMA ClientRefines ==
  ASSUME IInv, NEW o \in Object, NewObject(o) \/ DeleteHeld(o)
  PROVE  Abstract!Make(o) \/ Abstract!Unmake(o)
<1>1. Parties' = Parties
  BY PartiesAre DEF NewObject, DeleteHeld
<1>2. CASE NewObject(o)
  BY <1>1, <1>2 DEF NewObject, Abstract!Make
<1>3. CASE DeleteHeld(o)
  <2>1. \A n \in Abstract!Member : pointee[n] # o
    BY <1>3, MembersAreMade, NullAssumption DEF DeleteHeld, IInv, TypeOK, Accounted
  <2>2. QED
    BY <1>1, <1>3, <2>1 DEF DeleteHeld, Abstract!Unmake, IInv, TypeOK
<1>4. QED
  BY <1>2, <1>3

LEMMA ConstructRefines ==
  ASSUME IInv, NEW n \in Node, NEW c \in Cell, NEW o \in Object \cup {NoObject},
         Construct(n, c, o)
  PROVE  Abstract!Found(n, o) /\ o \in exists \cup {NoObject}
<1>1. /\ ~Made(n) /\ c \notin cells /\ stage'[n] = "owner" /\ cell'[n] = c
      /\ \A m \in Node \ {n} : stage'[m] = stage[m] /\ cell'[m] = cell[m]
  BY DEF Construct, IInv, TypeOK
<1>2. \A m \in Node : HasCell(m) => cell[m] # c
  BY <1>1 DEF IInv, CellsUsed
<1>3. PartyAt(stage', cell', n) = {n}
  BY <1>1, <1>2 DEF PartyAt, HasCell, Made
<1>4. \A m \in Node \ {n} : Made(m) => PartyAt(stage', cell', m) = PartyAt(stage, cell, m)
  BY <1>1, <1>2 DEF PartyAt, HasCell, Made
<1>5. Parties' = Parties \cup {{n}}
  <2>1. PartiesAt(stage', cell') = PartiesAt(stage, cell) \cup {{n}}
    BY <1>1, <1>3, <1>4 DEF PartiesAt, Made
  <2>2. QED
    BY <2>1, PartiesAre
<1>6. n \notin Abstract!Member
  BY <1>1, MembersAreMade
<1>7. QED
  BY <1>5, <1>6 DEF Construct, Accepts, Abstract!Found, IInv, TypeOK

LEMMA ShareRefines ==
  ASSUME IInv, NEW n \in Node, NEW m \in Node, NEW s \in {"owner", "leaving"}, Share(n, m, s)
  PROVE  Abstract!Join(n, m)
<1>1. /\ ~Made(n) /\ stage[m] = "owner" /\ stage'[n] = s /\ cell'[n] = cell[m]
      /\ n # m
      /\ \A k \in Node \ {n} : stage'[k] = stage[k] /\ cell'[k] = cell[k]
  BY DEF Share, Owner, Made, IInv, TypeOK
<1>2. Made(m) /\ HasCell(m) /\ ~HasCell(n)
  BY <1>1 DEF Made, HasCell
<1> DEFINE P == PartyAt(stage, cell, m)
<1>3. \A k \in Node \ {n} : Made(k) => PartyAt(stage', cell', k) =
         IF k \in P THEN P \cup {n} ELSE PartyAt(stage, cell, k)
  BY <1>1, <1>2 DEF PartyAt, HasCell, Made
<1>4. PartyAt(stage', cell', n) = P \cup {n}
  BY <1>1, <1>2 DEF PartyAt, HasCell, Made
<1>5. \A k \in Node : Made(k) => (k \in P <=> PartyAt(stage, cell, k) = P)
  BY <1>2 DEF PartyAt, HasCell, Made
<1> HIDE DEF P
<1>6. PartiesAt(stage', cell') = (PartiesAt(stage, cell) \ {P}) \cup {P \cup {n}}
  <2>1. ASSUME NEW p \in PartiesAt(stage', cell')
        PROVE  p \in (PartiesAt(stage, cell) \ {P}) \cup {P \cup {n}}
    BY <1>1, <1>3, <1>4, <1>5 DEF PartiesAt, Made
  <2>2. ASSUME NEW p \in (PartiesAt(stage, cell) \ {P}) \cup {P \cup {n}}
        PROVE  p \in PartiesAt(stage', cell')
    <3>1. CASE p = P \cup {n}
      BY <1>1, <1>4, <3>1 DEF PartiesAt, Made
    <3>2. CASE p # P \cup {n}
      <4>1. PICK k \in Node : Made(k) /\ p = PartyAt(stage, cell, k)
        BY <2>2, <3>2 DEF PartiesAt, Made
      <4>2. k # n /\ k \notin P
        BY <1>1, <1>5, <2>2, <3>2, <4>1
      <4>3. QED
        BY <1>1, <1>3, <4>1, <4>2 DEF PartiesAt, Made
    <3>3. QED
      BY <3>1, <3>2
  <2>3. QED
    BY <2>1, <2>2
<1>7. Abstract!PartyOf(m) = P
  BY <1>2, PartyOfIs, PartyIs DEF P
<1>8. Parties' = (Parties \ {Abstract!PartyOf(m)}) \cup {Abstract!PartyOf(m) \cup {n}}
  BY <1>6, <1>7, PartiesAre
<1>9. n \notin Abstract!Member /\ m \in Abstract!Member
  BY <1>1, <1>2, MembersAreMade
<1>10. QED
  BY <1>8, <1>9 DEF Share, Abstract!Join

(* Renaming the members of every party by f. *)
LEMMA SwapRefines ==
  ASSUME IInv, NEW a \in Node, NEW b \in Node, Swap(a, b)
  PROVE  Abstract!Exchange(a, b)
<1> DEFINE Other(k) == IF k = a THEN b ELSE IF k = b THEN a ELSE k
<1>1. /\ stage[a] = "owner" /\ stage[b] = "owner" /\ stage' = stage
      /\ \A k \in Node : /\ Other(k) \in Node /\ Other(Other(k)) = k
                         /\ stage'[k] = stage[Other(k)] /\ cell'[k] = cell[Other(k)]
  BY DEF Swap, Owner, IInv, TypeOK
<1>2. \A k \in Node : PartyAt(stage, cell, k) \subseteq Node
  BY DEF PartyAt
<1> HIDE DEF Other
<1>3. \A k \in Node :
        PartyAt(stage', cell', Other(k)) = {Other(x) : x \in PartyAt(stage, cell, k)}
  <2> SUFFICES ASSUME NEW k \in Node
               PROVE  PartyAt(stage', cell', Other(k)) = {Other(x) : x \in PartyAt(stage, cell, k)}
    OBVIOUS
  <2>1. stage'[Other(k)] = stage[k] /\ cell'[Other(k)] = cell[k] /\ Other(k) \in Node
    BY <1>1
  <2>2. CASE stage[k] \in {"owner", "leaving", "last"}
    <3>1. ASSUME NEW y \in PartyAt(stage', cell', Other(k))
          PROVE  \E x \in PartyAt(stage, cell, k) : y = Other(x)
      <4>1. Other(y) \in PartyAt(stage, cell, k) /\ y = Other(Other(y))
        BY <1>1, <2>1, <2>2, <3>1 DEF PartyAt
      <4>2. QED
        BY <4>1
    <3>2. ASSUME NEW x \in PartyAt(stage, cell, k)
          PROVE  Other(x) \in PartyAt(stage', cell', Other(k))
      <4>1. x \in Node /\ stage[x] \in {"owner", "leaving", "last"} /\ cell[x] = cell[k]
        BY <2>2 DEF PartyAt
      <4>2. Other(x) \in Node /\ stage'[Other(x)] = stage[x] /\ cell'[Other(x)] = cell[x]
        BY <1>1, <4>1
      <4>3. QED
        BY <2>1, <2>2, <4>1, <4>2 DEF PartyAt
    <3>3. QED
      BY <3>1, <3>2
  <2>3. CASE stage[k] \notin {"owner", "leaving", "last"}
    BY <2>1, <2>3 DEF PartyAt
  <2>4. QED
    BY <2>2, <2>3
<1>4. PartiesAt(stage', cell') = {{Other(x) : x \in p} : p \in PartiesAt(stage, cell)}
  <2>1. ASSUME NEW q \in PartiesAt(stage', cell')
        PROVE  \E p \in PartiesAt(stage, cell) : q = {Other(x) : x \in p}
    <3>1. PICK j \in Node : stage'[j] # "none" /\ q = PartyAt(stage', cell', j)
      BY DEF PartiesAt
    <3>2. Other(j) \in Node /\ stage[Other(j)] # "none" /\ j = Other(Other(j))
      BY <1>1, <3>1
    <3>3. q = {Other(x) : x \in PartyAt(stage, cell, Other(j))}
      BY <1>3, <3>1, <3>2
    <3>4. PartyAt(stage, cell, Other(j)) \in PartiesAt(stage, cell)
      BY <3>2 DEF PartiesAt
    <3>5. QED
      BY <3>3, <3>4
  <2>2. ASSUME NEW p \in PartiesAt(stage, cell)
        PROVE  {Other(x) : x \in p} \in PartiesAt(stage', cell')
    <3>1. PICK k \in Node : stage[k] # "none" /\ p = PartyAt(stage, cell, k)
      BY DEF PartiesAt
    <3>2. Other(k) \in Node /\ stage'[Other(k)] # "none"
      BY <1>1, <3>1
    <3>3. {Other(x) : x \in p} = PartyAt(stage', cell', Other(k))
      BY <1>3, <3>1
    <3>4. QED
      BY <3>2, <3>3 DEF PartiesAt
  <2>3. QED
    BY <2>1, <2>2
<1>5. Parties' = {{Other(x) : x \in p} : p \in Parties}
  BY <1>4, PartiesAre
<1>6. {a, b} \subseteq Abstract!Member
  BY <1>1, MembersAreMade DEF Made
<1>7. QED
  BY <1>5, <1>6 DEF Swap, Abstract!Exchange, Other

(* The temporary takes n's place in its party. *)
LEMMA ResetRefines ==
  ASSUME IInv, NEW n \in Node, NEW t \in Node, NEW c \in Cell,
         NEW o \in Object \cup {NoObject}, Reset(n, t, c, o)
  PROVE  Abstract!Depute(n, t, o) /\ o \in exists \cup {NoObject}
<1> DEFINE InPlace(k) == IF k = n THEN t ELSE k
<1>1. /\ n # t /\ stage[n] = "owner" /\ stage[t] = "none" /\ c \notin cells
      /\ stage'[n] = "owner" /\ cell'[n] = c /\ stage'[t] = "leaving" /\ cell'[t] = cell[n]
      /\ \A k \in Node \ {n, t} : stage'[k] = stage[k] /\ cell'[k] = cell[k]
  BY DEF Reset, Owner, Made, IInv, TypeOK
<1>2. \A k \in Node : stage[k] \in {"owner", "leaving", "last"} => cell[k] # c
  BY <1>1 DEF IInv, CellsUsed, HasCell
<1>3. PartyAt(stage', cell', n) = {n}
  BY <1>1, <1>2 DEF PartyAt
<1>4. ASSUME NEW k \in Node \ {t}, stage[k] # "none"
      PROVE  PartyAt(stage', cell', InPlace(k)) = {InPlace(x) : x \in PartyAt(stage, cell, k)}
  <2>1. CASE stage[k] \in {"owner", "leaving", "last"}
    <3>1. PartyAt(stage, cell, k) = {x \in Node : stage[x] \in {"owner", "leaving", "last"} /\ cell[x] = cell[k]}
      BY <2>1 DEF PartyAt
    <3>2. /\ stage'[InPlace(k)] \in {"owner", "leaving", "last"}
          /\ cell'[InPlace(k)] = cell[k] /\ cell[k] # c
      BY <1>1, <1>2, <2>1
    <3>3. PartyAt(stage', cell', InPlace(k)) =
            {x \in Node : stage'[x] \in {"owner", "leaving", "last"} /\ cell'[x] = cell[k]}
      BY <3>2 DEF PartyAt
    <3>4. ASSUME NEW y \in PartyAt(stage', cell', InPlace(k))
          PROVE  \E x \in PartyAt(stage, cell, k) : y = InPlace(x)
      <4>1. y \in Node /\ y # n
        BY <1>1, <3>2, <3>3
      <4>2. CASE y = t
        <5>1. n \in PartyAt(stage, cell, k)
          BY <1>1, <3>1, <3>3, <4>2
        <5>2. QED
          BY <4>2, <5>1
      <4>3. CASE y # t
        <5>1. y \in PartyAt(stage, cell, k)
          BY <1>1, <3>1, <3>3, <4>1, <4>3
        <5>2. QED
          BY <4>1, <5>1
      <4>4. QED
        BY <4>2, <4>3
    <3>5. ASSUME NEW x \in PartyAt(stage, cell, k)
          PROVE  InPlace(x) \in PartyAt(stage', cell', InPlace(k))
      BY <1>1, <3>1, <3>3
    <3>6. QED
      BY <3>4, <3>5
  <2>2. CASE stage[k] \notin {"owner", "leaving", "last"}
    BY <1>1, <2>2 DEF PartyAt
  <2>3. QED
    BY <2>1, <2>2
<1>5. PartiesAt(stage', cell') = {{InPlace(x) : x \in p} : p \in PartiesAt(stage, cell)} \cup {{n}}
  <2>1. ASSUME NEW q \in PartiesAt(stage', cell'), q # {n}
        PROVE  \E p \in PartiesAt(stage, cell) : q = {InPlace(x) : x \in p}
    <3>1. PICK j \in Node : stage'[j] # "none" /\ q = PartyAt(stage', cell', j) /\ j # n
      BY <1>3, <2>1 DEF PartiesAt
    <3>2. PICK k \in Node \ {t} : stage[k] # "none" /\ j = InPlace(k)
      <4>1. CASE j = t
        BY <1>1, <4>1
      <4>2. CASE j # t
        BY <1>1, <3>1, <4>2
      <4>3. QED
        BY <4>1, <4>2
    <3>3. q = {InPlace(x) : x \in PartyAt(stage, cell, k)}
      BY <1>4, <3>1, <3>2
    <3>4. PartyAt(stage, cell, k) \in PartiesAt(stage, cell)
      BY <3>2 DEF PartiesAt
    <3>5. QED
      BY <3>3, <3>4
  <2>2. ASSUME NEW p \in PartiesAt(stage, cell)
        PROVE  {InPlace(x) : x \in p} \in PartiesAt(stage', cell')
    <3>1. PICK k \in Node : stage[k] # "none" /\ p = PartyAt(stage, cell, k)
      BY DEF PartiesAt
    <3>2. k # t /\ InPlace(k) \in Node /\ stage'[InPlace(k)] # "none"
      BY <1>1, <3>1
    <3>3. {InPlace(x) : x \in p} = PartyAt(stage', cell', InPlace(k))
      BY <1>4, <3>1, <3>2
    <3> HIDE DEF InPlace
    <3>4. QED
      BY <3>2, <3>3 DEF PartiesAt
  <2>3. {n} \in PartiesAt(stage', cell')
    BY <1>1, <1>3 DEF PartiesAt
  <2> DEFINE Image(p) == {InPlace(x) : x \in p}
  <2>4. /\ \A q \in PartiesAt(stage', cell') : q = {n} \/ \E p \in PartiesAt(stage, cell) : q = Image(p)
        /\ \A p \in PartiesAt(stage, cell) : Image(p) \in PartiesAt(stage', cell')
    BY <2>1, <2>2
  <2> HIDE DEF Image
  <2>5. PartiesAt(stage', cell') = {Image(p) : p \in PartiesAt(stage, cell)} \cup {{n}}
    BY <2>3, <2>4
  <2>6. QED
    BY <2>5 DEF Image
<1>6. Parties' = {{InPlace(x) : x \in p} : p \in Parties} \cup {{n}}
  BY <1>5, PartiesAre
<1>7. n \in Abstract!Member /\ t \notin Abstract!Member
  BY <1>1, MembersAreMade DEF Made
<1>8. pointee' = [pointee EXCEPT ![n] = o, ![t] = pointee[n]] /\ exists' = exists
      /\ o \in exists \cup {NoObject}
  BY DEF Reset, Accepts, IInv, TypeOK
<1>9. Abstract!Depute(n, t, o)
  BY <1>6, <1>7, <1>8, Zenon DEF Abstract!Depute
<1>10. QED
  BY <1>8, <1>9

LEMMA ReleaseRefines ==
  ASSUME IInv, NEW n \in Node, Release(n)
  PROVE  Abstract!GiveUp(n)
<1>1. Counted(n) /\ Made(n) /\ count[cell[n]] = 1
  BY DEF Release, Owner, Counted, Made
<1>2. {n} \in Parties
  <2>1. Party(n) = {n}
    BY <1>1, AloneAtTheEnd
  <2>2. Party(n) \in Parties
    BY <1>1, OnePartyEach
  <2>3. QED
    BY <2>1, <2>2
<1>3. Parties' = Parties
  BY PartiesAre DEF Release
<1>4. QED
  BY <1>2, <1>3 DEF Release, Abstract!GiveUp

(* Without n, every other party is as it was. *)
LEMMA LeavingRefines ==
  ASSUME NEW n \in Node, Made(n), stage'[n] = "none",
         \A k \in Node \ {n} :
           stage'[k] = stage[k] /\ (HasCell(k) => cell'[k] = cell[k])
  PROVE  Parties' = Abstract!Without(n)
<1>1. ASSUME NEW k \in Node \ {n}
      PROVE  PartyAt(stage', cell', k) = PartyAt(stage, cell, k) \ {n}
  BY DEF PartyAt, HasCell
<1>2. \A k \in Node : k \in PartyAt(stage, cell, k)
  BY DEF PartyAt
<1>3. PartiesAt(stage', cell') = {p \ {n} : p \in PartiesAt(stage, cell)} \ {{}}
  <2>1. ASSUME NEW q \in PartiesAt(stage', cell')
        PROVE  q # {} /\ \E p \in PartiesAt(stage, cell) : q = p \ {n}
    <3>1. PICK k \in Node : stage'[k] # "none" /\ q = PartyAt(stage', cell', k)
      BY DEF PartiesAt
    <3>2. k # n /\ stage[k] # "none"
      BY <3>1
    <3>3. q = PartyAt(stage, cell, k) \ {n} /\ k \in q
      BY <1>1, <1>2, <3>1, <3>2
    <3>4. PartyAt(stage, cell, k) \in PartiesAt(stage, cell)
      BY <3>2 DEF PartiesAt
    <3>5. QED
      BY <3>3, <3>4
  <2>2. ASSUME NEW p \in PartiesAt(stage, cell), p \ {n} # {}
        PROVE  p \ {n} \in PartiesAt(stage', cell')
    <3>1. PICK j \in Node : stage[j] # "none" /\ p = PartyAt(stage, cell, j)
      BY DEF PartiesAt
    <3>2. PICK k \in p : k # n
      BY <2>2
    <3>3. k \in Node /\ stage[k] # "none" /\ PartyAt(stage, cell, k) = p
      BY <3>1, <3>2 DEF PartyAt
    <3>4. p \ {n} = PartyAt(stage', cell', k) /\ stage'[k] # "none"
      BY <1>1, <3>2, <3>3
    <3>5. QED
      BY <3>3, <3>4 DEF PartiesAt
  <2>3. QED
    BY <2>1, <2>2
<1>4. QED
  BY <1>3, PartiesAre DEF Abstract!Without

LEMMA NotLastRefines ==
  ASSUME IInv, NEW n \in Node, Decrement_NotLast(n)
  PROVE  Abstract!Leave(n)
<1>1. /\ Counted(n) /\ Made(n) /\ stage'[n] = "none"
      /\ \A k \in Node \ {n} : stage'[k] = stage[k] /\ cell'[k] = cell[k]
  BY DEF Decrement_NotLast, Counted, Made, IInv, TypeOK
<1>2. Parties' = Abstract!Without(n)
  BY <1>1, LeavingRefines
<1>3. Party(n) # {n}
  <2> SUFFICES ASSUME Party(n) = {n} PROVE FALSE
    OBVIOUS
  <2>1. SharersOf(stage, cell, cell[n]) = {n}
    BY <1>1 DEF Party, SharersOf, HasCell, Counted
  <2>2. count[cell[n]] = 1
    BY <1>1, <2>1, FS_Singleton DEF IInv, CountsAgree, HasCell, Counted
  <2>3. QED
    BY <2>2 DEF Decrement_NotLast
<1>4. n \in Abstract!Member /\ Abstract!PartyOf(n) # {n}
  BY <1>1, <1>3, MembersAreMade, PartyOfIs
<1>5. QED
  BY <1>2, <1>4 DEF Decrement_NotLast, Abstract!Leave

(* The object is still there, and so is its only smart pointer. *)
LEMMA LastRefines ==
  ASSUME IInv, NEW n \in Node, Decrement_Last(n)
  PROVE  UNCHANGED <<Parties, pointee, exists>>
<1>1. /\ stage[n] \in {"owner", "leaving"} /\ stage'[n] = "last"
      /\ \A k \in Node \ {n} : stage'[k] = stage[k]
      /\ UNCHANGED <<cell, pointee, exists>>
  BY DEF Decrement_Last, Counted, IInv, TypeOK
<1>2. \A k \in Node : PartyAt(stage', cell', k) = PartyAt(stage, cell, k)
  BY <1>1 DEF PartyAt
<1>3. PartiesAt(stage', cell') = PartiesAt(stage, cell)
  BY <1>1, <1>2 DEF PartiesAt
<1>4. QED
  BY <1>1, <1>3, PartiesAre

LEMMA FreeCountRefines ==
  ASSUME IInv, NEW n \in Node, FreeCount(n)
  PROVE  UNCHANGED <<Parties, pointee, exists>>
<1>1. /\ stage[n] = "last" /\ stage'[n] = "bare"
      /\ \A k \in Node \ {n} : stage'[k] = stage[k] /\ cell'[k] = cell[k]
      /\ UNCHANGED <<pointee, exists>>
  BY DEF FreeCount, IInv, TypeOK
<1>2. PartyAt(stage, cell, n) = {n}
  BY <1>1, AloneAtTheEnd, PartyIs
<1>3. \A k \in Node : PartyAt(stage', cell', k) = PartyAt(stage, cell, k)
  <2>1. PartyAt(stage', cell', n) = {n}
    BY <1>1 DEF PartyAt
  <2>2. \A k \in Node \ {n} : stage[k] \in {"owner", "leaving", "last"} => cell[k] # cell[n]
    BY <1>1 DEF IInv, Grouped, HasCell
  <2>3. \A k \in Node \ {n} : PartyAt(stage', cell', k) = PartyAt(stage, cell, k)
    BY <1>1, <2>2 DEF PartyAt
  <2>4. QED
    BY <1>2, <2>1, <2>3
<1>4. PartiesAt(stage', cell') = PartiesAt(stage, cell)
  BY <1>1, <1>3 DEF PartiesAt
<1>5. QED
  BY <1>1, <1>4, PartiesAre

LEMMA DeleteObjectRefines ==
  ASSUME IInv, NEW n \in Node, DeleteObject(n)
  PROVE  Abstract!Leave(n)
<1>1. /\ stage[n] = "bare" /\ Made(n) /\ stage'[n] = "none"
      /\ \A k \in Node \ {n} : stage'[k] = stage[k] /\ cell'[k] = cell[k]
  BY DEF DeleteObject, Made, IInv, TypeOK
<1>2. Parties' = Abstract!Without(n)
  BY <1>1, LeavingRefines
<1>3. n \in Abstract!Member /\ Abstract!PartyOf(n) = {n}
  BY <1>1, AloneAtTheEnd, MembersAreMade, PartyOfIs
<1>4. QED
  BY <1>2, <1>3 DEF DeleteObject, Abstract!Leave

-----------------------------------------------------------------------------
(* The theorem *)

LEMMA NextRefines ==
  ASSUME IInv, [Next]_vars
  PROVE  [Abstract!Next]_<<Parties, pointee, exists>>
<1> DEFINE Step == [Abstract!Next]_<<Parties, pointee, exists>>
<1>1. ASSUME NEW o \in Object, NewObject(o) \/ DeleteHeld(o) PROVE Step
  BY <1>1, ClientRefines DEF Abstract!Next
<1>2. ASSUME NEW n \in Node, NEW c \in Cell, ConstructThrows(n, c) PROVE Step
  BY <1>2, PartiesAre DEF ConstructThrows
<1>3. ASSUME NEW n \in Node, NEW c \in Cell, NEW o \in Object \cup {NoObject}, Construct(n, c, o)
      PROVE  Step
  BY <1>3, ConstructRefines DEF Abstract!Next
<1>4. ASSUME NEW n \in Node, NEW t \in Node, NEW c \in Cell, NEW o \in Object \cup {NoObject},
             Reset(n, t, c, o)
      PROVE  Step
  BY <1>4, ResetRefines DEF Abstract!Next
<1>5. ASSUME NEW n \in Node, NEW m \in Node, Copy(n, m) PROVE Step
  BY <1>5, ShareRefines DEF Copy, Abstract!Next
<1>6. ASSUME NEW n \in Node, NEW m \in Node, Swap(n, m) PROVE Step
  BY <1>6, SwapRefines DEF Abstract!Next
<1>7. ASSUME NEW n \in Node, NEW m \in Node, NEW t \in Node, MoveAssign(n, m, t) PROVE Step
  BY <1>7, ShareRefines DEF MoveAssign, Abstract!Next
<1>8. ASSUME NEW n \in Node, Release(n) PROVE Step
  BY <1>8, ReleaseRefines DEF Abstract!Next
<1>9. ASSUME NEW n \in Node, Decrement(n) PROVE Step
  <2>1. CASE Decrement_NotLast(n)
    BY <2>1, NotLastRefines DEF Abstract!Next
  <2>2. CASE Decrement_Last(n)
    BY <2>2, LastRefines
  <2>3. QED
    BY <1>9, <2>1, <2>2 DEF Decrement
<1>10. ASSUME NEW n \in Node, FreeCount(n) PROVE Step
  BY <1>10, FreeCountRefines
<1>11. ASSUME NEW n \in Node, DeleteObject(n) PROVE Step
  BY <1>11, DeleteObjectRefines DEF Abstract!Next
<1>12. CASE UNCHANGED vars
  BY <1>12, PartiesAre DEF vars
<1> HIDE DEF Step
<1>13. QED
  BY <1>1, <1>2, <1>3, <1>4, <1>5, <1>6, <1>7, <1>8, <1>9, <1>10, <1>11, <1>12
  DEF Next, Step

(* Whatever threads do with smart pointers that share counts, each step is *)
(* one of shared ownership or none at all: the object goes in the step in  *)
(* which the last of its party leaves.                                     *)
THEOREM CountedImplementsCoOwners == Spec => ImplementsCoOwners
<1>1. Init => Abstract!Init
  BY InitRefines
<1>2. IInv /\ [Next]_vars => [Abstract!Next]_<<Parties, pointee, exists>>
  BY NextRefines
<1>3. QED
  BY CountedInvariance, <1>1, <1>2, PTL DEF Spec, ImplementsCoOwners, Abstract!Spec
=============================================================================
