--------------------------- MODULE LinkedPtrProofs ---------------------------
(***************************************************************************)
(* The links of smart pointers that own the same object are cycles, and    *)
(* objects live as long as they are owned, for any number of smart         *)
(* pointers and objects.                                                   *)
(***************************************************************************)
EXTENDS LinkedPtr, OperatorLemmas

-----------------------------------------------------------------------------
(* The inductive invariant *)

IInv ==
  /\ TypeOK
  /\ Mutual(links, made)
  /\ Alike(links, made, pointee)
  /\ ExistsIffOwned

-----------------------------------------------------------------------------
(* Every action keeps it *)

\* There is no smart pointer at first.
LEMMA InitIInv == Init => IInv
<1> SUFFICES ASSUME Init PROVE IInv
  OBVIOUS
<1>1. /\ links \in Links
      /\ \A n \in Node : links.next[n] = NoNode /\ links.prev[n] = NoNode
  BY DEF Init, Unlinked, Links
<1>2. made = {} /\ exists = {} /\ held = {} /\ aborted = FALSE
      /\ pointee \in [Node -> Object \cup {NoObject}]
  BY DEF Init
<1>3. QED
  BY <1>1, <1>2 DEF IInv, TypeOK, Mutual, Alike, ExistsIffOwned

(* The last owner is alone: a party that is merged has its links to tell.   *)
LEMMA LastIsAlone ==
  ASSUME IInv, NEW n \in made, IsMerged(n), pointee[n] # NoObject
  PROVE  IsAlone(links, n) <=> \A m \in made : pointee[m] = pointee[n] => m = n
<1>1. ASSUME IsAlone(links, n), NEW m \in made, pointee[m] = pointee[n] PROVE m = n
  <2>1. links.next[n] = n /\ n \in Node
    BY <1>1 DEF IsAlone, IInv, TypeOK
  <2> DEFINE S == {n}
  <2>4. n \in S /\ S \in SUBSET Node /\ \A k \in S : links.next[k] \in S
    BY <2>1
  <2> HIDE DEF S
  <2>2. Cycle(links.next, n) \subseteq {n}
    BY <2>4, CycleWithin DEF S
  <2>3. QED
    BY <1>1, <2>2 DEF IsMerged
<1>2. ASSUME \A m \in made : pointee[m] = pointee[n] => m = n PROVE IsAlone(links, n)
  BY <1>2 DEF IInv, Mutual, Alike, IsAlone
<1>3. QED
  BY <1>1, <1>2

\* The constructor from a plain pointer: a cycle of its own.
LEMMA ConstructKeeps ==
  ASSUME IInv, NEW n \in Node, n \notin made, n # Temp, NEW o \in exists \cup {NoObject},
         links' = LinkAlone(links, n), pointee' = [pointee EXCEPT ![n] = o],
         made' = made \cup {n}, exists' = exists, held' = held \ {o}, aborted' = aborted
  PROVE  IInv'
<1>1. /\ pointee \in [Node -> Object \cup {NoObject}] /\ held \subseteq exists
      /\ NoObject \notin exists /\ exists \subseteq Object /\ made \subseteq Node
      /\ exists \ held = {pointee[m] : m \in made} \ {NoObject}
      /\ \A m \in made : pointee[m] \notin held
  BY ObjectAssumption DEF IInv, TypeOK, ExistsIffOwned
<1>2. \A m \in Node : pointee'[m] = IF m = n THEN o ELSE pointee[m]
  BY <1>1
<1>3. Alike(links, made, pointee')
  BY <1>2 DEF IInv, Alike, Mutual
<1>4. Mutual(links', made') /\ Alike(links', made', pointee')
  BY <1>1, <1>3, AloneKeeps DEF IInv
<1>5. TypeOK'
  BY <1>1, <1>4 DEF IInv, TypeOK, Mutual
<1>6. exists' \ held' = {pointee'[m] : m \in made'} \ {NoObject}
  <2>1. {pointee'[m] : m \in made'} = {pointee[m] : m \in made} \cup {o}
    BY <1>1, <1>2
  <2>2. QED
    BY <1>1, <2>1
<1>7. \A m \in made' : pointee'[m] \notin held'
  BY <1>1, <1>2
<1>8. QED
  BY <1>4, <1>5, <1>6, <1>7 DEF IInv, ExistsIffOwned

\* The copy constructor: one more in the cycle.
LEMMA CopyKeeps ==
  ASSUME IInv, NEW n \in Node, NEW m \in Node, Copy(n, m)
  PROVE  IInv'
<1>1. /\ pointee \in [Node -> Object \cup {NoObject}] /\ made \subseteq Node
      /\ n \in Node \ made /\ n # Temp /\ m \in made
      /\ links' = LinkAfter(links, n, m) /\ pointee' = [pointee EXCEPT ![n] = pointee[m]]
      /\ made' = made \cup {n} /\ exists' = exists /\ held' = held /\ aborted' = aborted
  BY DEF Copy, Usable, IInv, TypeOK
<1>2. \A k \in Node : pointee'[k] = IF k = n THEN pointee[m] ELSE pointee[k]
  BY <1>1
<1>3. Alike(links, made, pointee') /\ pointee'[n] = pointee'[m]
  BY <1>1, <1>2 DEF IInv, Alike, Mutual
<1>4. Mutual(links', made') /\ Alike(links', made', pointee')
  BY <1>1, <1>3, AfterKeeps DEF IInv
<1>5. TypeOK'
  BY <1>1, <1>4 DEF IInv, TypeOK, Mutual
<1>6. {pointee'[k] : k \in made'} = {pointee[k] : k \in made}
  BY <1>1, <1>2
<1>7. QED
  BY <1>1, <1>2, <1>4, <1>5, <1>6 DEF IInv, ExistsIffOwned

\* The destructor: the last of a cycle deletes the object.
LEMMA DestroyKeeps ==
  ASSUME IInv, NEW n \in Node, Destroy(n)
  PROVE  IInv'
<1>1. /\ pointee \in [Node -> Object \cup {NoObject}] /\ made \subseteq Node /\ n \in made
      /\ IsMerged(n) /\ held \subseteq exists /\ exists \subseteq Object
      /\ links' = Unlink(links, n) /\ pointee' = [pointee EXCEPT ![n] = NoObject]
      /\ made' = made \ {n}
      /\ exists' = (IF IsAlone(links, n) THEN exists \ {pointee[n]} ELSE exists)
      /\ held' = held /\ aborted' = aborted
      /\ exists \ held = {pointee[m] : m \in made} \ {NoObject}
      /\ \A m \in made : pointee[m] \notin held
  BY DEF Destroy, IInv, TypeOK, ExistsIffOwned
<1>2. \A k \in Node : pointee'[k] = IF k = n THEN NoObject ELSE pointee[k]
  BY <1>1
<1>3. Mutual(links', made') /\ Alike(links', made', pointee)
  BY <1>1, UnlinkKeeps DEF IInv
<1>4. Alike(links', made', pointee')
  BY <1>1, <1>2, <1>3 DEF Alike, Mutual
<1>5. TypeOK'
  BY <1>1, <1>3 DEF IInv, TypeOK, Mutual
<1>6. {pointee'[k] : k \in made'} = {pointee[k] : k \in made \ {n}}
  BY <1>1, <1>2
<1>7. NoObject \notin exists
  BY <1>1, ObjectAssumption
<1>8. exists' \ held' = {pointee'[k] : k \in made'} \ {NoObject}
  <2>1. CASE pointee[n] = NoObject
    BY <1>1, <1>6, <1>7, <2>1
  <2>2. CASE pointee[n] # NoObject
    <3>1. IsAlone(links, n) <=> \A m \in made : pointee[m] = pointee[n] => m = n
      BY <1>1, <2>2, LastIsAlone
    <3>2. QED
      BY <1>1, <1>6, <3>1
  <2>3. QED
    BY <2>1, <2>2
<1>9. \A k \in made' : pointee'[k] \notin held'
  BY <1>1, <1>2
<1>10. QED
  BY <1>3, <1>4, <1>5, <1>8, <1>9 DEF IInv, ExistsIffOwned

\* Swap exchanges two places and what they lead to.
LEMMA SwapKeeps ==
  ASSUME IInv, NEW a \in Node, NEW b \in Node, Swap(a, b)
  PROVE  IInv'
<1>1. /\ pointee \in [Node -> Object \cup {NoObject}] /\ made \subseteq Node
      /\ a \in made /\ b \in made
      /\ links' = SwapLinks(links, a, b) /\ pointee' = Exchange(pointee, a, b)
      /\ made' = made /\ exists' = exists /\ held' = held /\ aborted' = aborted
  BY DEF Swap, IInv, TypeOK
<1>2. \A k \in Node : pointee'[k] = pointee[Other(a, b, k)]
  BY <1>1 DEF Exchange, Other
<1>3. Exchanged(links, links', made, a, b)
  BY <1>1, SwapExchanges DEF IInv
<1>4. Mutual(links', made') /\ Alike(links', made', pointee')
  BY <1>1, <1>2, <1>3, ExchangedKeeps DEF IInv
<1>5. TypeOK'
  BY <1>1, <1>4 DEF IInv, TypeOK, Mutual, Exchange
<1>6. {pointee'[k] : k \in made'} = {pointee[k] : k \in made}
  <2>1. \A k \in made : Other(a, b, k) \in made /\ Other(a, b, Other(a, b, k)) = k
    BY <1>1, OtherTwice
  <2>2. \A k \in made : pointee'[Other(a, b, k)] = pointee[k]
    BY <1>1, <1>2, <2>1
  <2>3. QED
    BY <1>1, <1>2, <2>1, <2>2
<1>7. \A k \in made : Other(a, b, k) \in made
  BY <1>1, OtherTwice
<1>8. QED
  BY <1>1, <1>2, <1>4, <1>5, <1>6, <1>7 DEF IInv, ExistsIffOwned

\* Reset: a temporary with the new object, swapped and destroyed.
LEMMA ResetKeeps ==
  ASSUME IInv, NEW n \in Node, NEW o \in Object \cup {NoObject}, Reset(n, o)
  PROVE  IInv'
<1> DEFINE l1 == LinkAlone(links, Temp)
           swapped == SwapLinks(l1, Temp, n)
           M == made \cup {Temp}
           v == [pointee EXCEPT ![Temp] = o]
           w == [m \in Node |-> v[Other(Temp, n, m)]]
<1>1. /\ pointee \in [Node -> Object \cup {NoObject}] /\ made \subseteq Node \ {Temp}
      /\ n \in made /\ n # Temp /\ Temp \in Node
      /\ IsMerged(n) /\ held \subseteq exists /\ exists \subseteq Object
      /\ o \in held \cup {NoObject} /\ NoObject \notin exists
      /\ links' = Unlink(swapped, Temp) /\ pointee' = [pointee EXCEPT ![n] = o]
      /\ made' = made
      /\ exists' = (IF IsAlone(swapped, Temp) THEN exists \ {pointee[n]} ELSE exists)
      /\ held' = held \ {o} /\ aborted' = aborted
      /\ exists \ held = {pointee[m] : m \in made} \ {NoObject}
      /\ \A m \in made : pointee[m] \notin held
  BY ObjectAssumption DEF Reset, IInv, TypeOK, ExistsIffOwned
<1>2. \A k \in Node : /\ v[k] = IF k = Temp THEN o ELSE pointee[k]
                      /\ pointee'[k] = IF k = n THEN o ELSE pointee[k]
                      /\ w[k] = v[Other(Temp, n, k)]
  BY <1>1
<1> HIDE DEF v, w, l1, swapped
<1>3. Mutual(links, made) /\ Alike(links, made, v)
  BY <1>1, <1>2 DEF IInv, Alike, Mutual
<1>4. /\ Mutual(l1, M) /\ Alike(l1, M, v)
      /\ l1.next[n] = links.next[n]
  <2>1. Temp \in Node \ made /\ made \in SUBSET Node
    BY <1>1
  <2>2. /\ Mutual(LinkAlone(links, Temp), made \cup {Temp})
        /\ Alike(LinkAlone(links, Temp), made \cup {Temp}, v)
        /\ \A m \in made : LinkAlone(links, Temp).next[m] = links.next[m]
    BY <1>3, <2>1, AloneKeeps
  <2> QED
    BY <1>1, <2>2 DEF l1
<1>5. Exchanged(l1, swapped, M, Temp, n)
  BY <1>1, <1>4, SwapExchanges DEF swapped
<1>6. Mutual(swapped, M) /\ Alike(swapped, M, w)
  <2>1. M \in SUBSET Node /\ Temp \in M /\ n \in M /\ \A m \in M : w[m] = v[Other(Temp, n, m)]
    BY <1>1, <1>2
  <2> HIDE DEF M
  <2>2. QED
    BY <1>4, <1>5, <2>1, ExchangedKeeps
<1>7. Mutual(links', made') /\ Alike(links', made', w)
  <2>1. M \in SUBSET Node /\ Temp \in M /\ M \ {Temp} = made'
    BY <1>1
  <2> HIDE DEF M
  <2>2. Mutual(Unlink(swapped, Temp), M \ {Temp}) /\ Alike(Unlink(swapped, Temp), M \ {Temp}, w)
    BY <1>6, <2>1, UnlinkKeeps
  <2>3. links' = Unlink(swapped, Temp)
    BY <1>1
  <2>4. QED
    BY <2>1, <2>2, <2>3
<1>8. \A m \in made : w[m] = pointee'[m]
  BY <1>1, <1>2 DEF Other
<1>9. Alike(links', made', pointee')
  BY <1>1, <1>7, <1>8 DEF Alike, Mutual
<1>10. IsAlone(swapped, Temp) <=> IsAlone(links, n)
  <2>1. swapped.next[Temp] = Other(Temp, n, links.next[n])
    BY <1>4, <1>5 DEF Exchanged, Other
  <2>2. links.next[n] # Temp
    BY <1>1, <1>3 DEF Mutual
  <2>3. QED
    BY <2>1, <2>2 DEF IsAlone, Other
<1>11. {pointee'[m] : m \in made} = {pointee[m] : m \in made \ {n}} \cup {o}
  BY <1>1, <1>2
<1>12. exists' \ held' = {pointee'[m] : m \in made'} \ {NoObject}
  <2>1. CASE pointee[n] = NoObject
    BY <1>1, <1>11, <2>1
  <2>2. CASE pointee[n] # NoObject
    <3>1. IsAlone(links, n) <=> \A m \in made : pointee[m] = pointee[n] => m = n
      BY <1>1, <2>2, LastIsAlone
    <3>2. exists' = IF IsAlone(links, n) THEN exists \ {pointee[n]} ELSE exists
      BY <1>1, <1>10
    <3>3. QED
      BY <1>1, <1>11, <3>1, <3>2
  <2>3. QED
    BY <2>1, <2>2
<1>13. \A m \in made' : pointee'[m] \notin held'
  BY <1>1, <1>2
<1>14. TypeOK'
  BY <1>1, <1>7 DEF IInv, TypeOK, Mutual
<1>15. QED
  BY <1>7, <1>9, <1>12, <1>13, <1>14 DEF IInv, ExistsIffOwned

\* Move assignment: a temporary made from the right-hand side comes and goes.
LEMMA MoveAssignKeeps ==
  ASSUME IInv, NEW a \in Node, NEW b \in Node, MoveAssign(a, b)
  PROVE  IInv'
<1> DEFINE l1 == LinkAfter(links, Temp, b)
           M == made \cup {Temp}
           v == [pointee EXCEPT ![Temp] = pointee[b]]
<1>1. /\ pointee \in [Node -> Object \cup {NoObject}] /\ made \subseteq Node \ {Temp}
      /\ b \in made /\ Temp \in Node /\ links' = Unlink(l1, Temp)
      /\ UNCHANGED <<pointee, made, exists, held, aborted>>
  BY ObjectAssumption DEF MoveAssign, IInv, TypeOK
<1>2. \A k \in Node : v[k] = IF k = Temp THEN pointee[b] ELSE pointee[k]
  BY <1>1
<1> HIDE DEF v, l1
<1>3. Mutual(links, made) /\ Alike(links, made, v) /\ v[Temp] = v[b]
  BY <1>1, <1>2 DEF IInv, Alike, Mutual
<1>4. Mutual(l1, M) /\ Alike(l1, M, v)
  BY <1>1, <1>3, AfterKeeps DEF l1
<1>5. Mutual(links', made') /\ Alike(links', made', v)
  <2>1. M \in SUBSET Node /\ Temp \in M /\ M \ {Temp} = made'
    BY <1>1
  <2> HIDE DEF M
  <2>2. Mutual(Unlink(l1, Temp), M \ {Temp}) /\ Alike(Unlink(l1, Temp), M \ {Temp}, v)
    BY <1>4, <2>1, UnlinkKeeps
  <2>3. links' = Unlink(l1, Temp)
    BY <1>1
  <2>4. QED
    BY <2>1, <2>2, <2>3
<1>6. Alike(links', made', pointee')
  BY <1>1, <1>2, <1>5 DEF Alike, Mutual
<1>7. QED
  BY <1>1, <1>5, <1>6 DEF IInv, TypeOK, ExistsIffOwned, Mutual

\* Merge: either the assertion ends the program or two cycles are one.
LEMMA MergeStepKeeps ==
  ASSUME IInv, NEW a \in Node, NEW b \in Node, Merge(a, b)
  PROVE  IInv'
<1>1. /\ a \in made /\ b \in made /\ pointee[a] = pointee[b] /\ made \subseteq Node
      /\ UNCHANGED <<pointee, made, exists, held>>
      /\ IF CountsAgree(MergeLinks(links, a, b), a)
         THEN links' = MergeLinks(links, a, b) /\ UNCHANGED aborted
         ELSE aborted' = TRUE /\ UNCHANGED links
  BY DEF Merge, IInv, TypeOK
<1>2. Mutual(links', made') /\ Alike(links', made', pointee') /\ aborted' \in BOOLEAN
  <2> DEFINE M == MergeLinks(links, a, b)
  <2>1. Mutual(links, made) /\ Alike(links, made, pointee) /\ aborted \in BOOLEAN
    BY DEF IInv, TypeOK
  <2>2. CASE CountsAgree(M, a)
    <3>1. Mutual(M, made) /\ Alike(M, made, pointee)
      BY <1>1, <2>1, <2>2, MergeKeeps
    <3> HIDE DEF M
    <3>2. links' = M
      BY <1>1, <2>2 DEF M
    <3>3. QED
      BY <1>1, <2>1, <2>2, <3>1, <3>2 DEF M
  <2>3. CASE ~CountsAgree(M, a)
    BY <1>1, <2>1, <2>3
  <2>4. QED
    BY <2>2, <2>3
<1>3. QED
  BY <1>1, <1>2 DEF IInv, TypeOK, ExistsIffOwned, Mutual

\* Release: the only owner gives the object back to the client.
LEMMA ReleaseKeeps ==
  ASSUME IInv, NEW n \in Node, Release(n)
  PROVE  IInv'
<1>1. /\ pointee \in [Node -> Object \cup {NoObject}] /\ made \subseteq Node
      /\ n \in made /\ IsMerged(n) /\ IsAlone(links, n) /\ pointee[n] # NoObject
      /\ pointee' = [pointee EXCEPT ![n] = NoObject] /\ held' = held \cup {pointee[n]}
      /\ UNCHANGED <<links, made, exists, aborted>>
      /\ exists \ held = {pointee[m] : m \in made} \ {NoObject}
      /\ held \subseteq exists
      /\ \A m \in made : pointee[m] \notin held
      /\ exists \subseteq Object
  BY DEF Release, IInv, TypeOK, ExistsIffOwned
<1>2. \A k \in Node : pointee'[k] = IF k = n THEN NoObject ELSE pointee[k]
  BY <1>1
<1>3. \A m \in made : pointee[m] = pointee[n] => m = n
  BY <1>1, LastIsAlone
<1>4. Alike(links, made, pointee')
  <2>1. links.next[n] = n
    BY <1>1 DEF IsAlone
  <2>2. \A m \in made : links.next[m] = n => m = n
    BY <1>1, <2>1 DEF IInv, Mutual
  <2>3. QED
    BY <1>1, <1>2, <2>1, <2>2 DEF IInv, Mutual, Alike
<1>5. pointee[n] \in exists \ held
  BY <1>1
<1>6. {pointee'[m] : m \in made} \ {NoObject}
        = ({pointee[m] : m \in made} \ {NoObject}) \ {pointee[n]}
  <2>1. \A x : x \in {pointee'[m] : m \in made} /\ x # NoObject
                 => x \in {pointee[m] : m \in made} /\ x # pointee[n]
    BY <1>1, <1>2, <1>3
  <2>2. \A x : x \in {pointee[m] : m \in made} /\ x # pointee[n]
                 => x \in {pointee'[m] : m \in made}
    BY <1>1, <1>2
  <2>3. QED
    BY <2>1, <2>2
<1>7. ExistsIffOwned'
  <2>1. exists' \ held' = {pointee'[m] : m \in made'} \ {NoObject}
    BY <1>1, <1>6
  <2>2. \A m \in made' : pointee'[m] \notin held'
    BY <1>1, <1>2, <1>3, ObjectAssumption
  <2>3. QED
    BY <2>1, <2>2 DEF ExistsIffOwned
<1>8. TypeOK'
  BY <1>1, <1>5 DEF IInv, TypeOK
<1>9. QED
  BY <1>1, <1>4, <1>7, <1>8 DEF IInv

\* No step of the program breaks the invariant.
LEMMA NextIInv == IInv /\ [Next]_vars => IInv'
<1> SUFFICES ASSUME IInv, [Next]_vars PROVE IInv'
  OBVIOUS
<1>1. ASSUME NEW o \in Object, NewObject(o) PROVE IInv'
  <2>1. /\ exists' = exists \cup {o} /\ held' = held \cup {o} /\ o \notin exists
        /\ UNCHANGED <<links, pointee, made, aborted>>
    BY <1>1 DEF NewObject
  <2>2. ExistsIffOwned'
    <3>1. exists' \ held' = exists \ held
      BY <2>1 DEF IInv, TypeOK
    <3>2. \A n \in made : pointee[n] # o
      BY <2>1, ObjectAssumption DEF IInv, ExistsIffOwned
    <3>3. QED
      BY <2>1, <3>1, <3>2 DEF IInv, ExistsIffOwned
  <2>3. TypeOK' /\ Mutual(links', made') /\ Alike(links', made', pointee')
    BY <2>1 DEF IInv, TypeOK
  <2>4. QED
    BY <2>2, <2>3 DEF IInv
<1>2. ASSUME NEW n \in Node, NEW o \in Object \cup {NoObject}, Construct(n, o) PROVE IInv'
  BY <1>2, ConstructKeeps DEF Construct, Usable, IInv, TypeOK
<1>3. ASSUME NEW n \in Node, NEW o \in Object \cup {NoObject}, Adopt(n, o) PROVE IInv'
  <2>1. /\ n \notin made /\ n # Temp /\ o \in exists \ held
        /\ links' = LinkAlone(links, n) /\ pointee' = [pointee EXCEPT ![n] = o]
        /\ made' = made \cup {n} /\ exists' = exists /\ held' = held /\ aborted' = aborted
    BY <1>3 DEF Adopt, Usable
  <2>2. held \ {o} = held
    BY <2>1
  <2>3. QED
    BY <2>1, <2>2, ConstructKeeps
<1>4. CASE UNCHANGED vars
  BY <1>4 DEF vars, IInv, TypeOK, ExistsIffOwned, Mutual, Alike
<1>5. QED
  BY <1>1, <1>2, <1>3, <1>4, CopyKeeps, DestroyKeeps, SwapKeeps, ResetKeeps,
     MoveAssignKeeps, MergeStepKeeps, ReleaseKeeps DEF Next

\* Through every construction, destruction, Swap, Reset and Merge the links of
\* smart pointers are cycles whose members own one object each.
THEOREM LinkedInvariance == Spec => []IInv
<1>1. QED
  BY InitIInv, NextIInv, PTL DEF Spec

(* Whatever clients do that keep the rules of such pointers, prev_ and next_ *)
(* are each other's inverse on the smart pointers there are, and the        *)
(* assertion of Merge ends the program before its wrong splice is used.     *)
THEOREM LinksAreCycles == Spec => []LinksInverse
<1>1. IInv => LinksInverse
  BY DEF IInv, LinksInverse, Mutual
<1>2. QED
  BY <1>1, LinkedInvariance, PTL

(* An object lives exactly as long as a smart pointer leads to it or a      *)
(* client holds it, though nothing counts its owners.                       *)
THEOREM LinkedObjectsLiveAsOwned == Spec => []ExistsIffOwned
<1>1. IInv => ExistsIffOwned
  BY DEF IInv
<1>2. QED
  BY <1>1, LinkedInvariance, PTL
-----------------------------------------------------------------------------
(* Implementing CoOwners *)

\* The ring of each smart pointer.
RingOf(l, M) == [n \in M |-> Ring(l, n)]

(* The abstract parties are the rings, ...                                  *)
LEMMA PartiesAre ==
  /\ Parties = Parts(RingOf(links, made), made)
  /\ Parties' = Parts(RingOf(links', made'), made')
  BY DEF Parties, Parts, RingOf, Ring

(* ... which are classes, ...                                               *)
LEMMA RingsAreClasses ==
  ASSUME NEW l, NEW M \in SUBSET Node, Mutual(l, M)
  PROVE  Classes(RingOf(l, M), M)
  BY RingClosed, RingSame DEF Classes, RingOf

(* ... one for each smart pointer there is.                                 *)
LEMMA MembersAre ==
  ASSUME IInv
  PROVE  /\ Abstract!Member = made
         /\ \A n \in made : Abstract!PartyOf(n) = Ring(links, n)
         /\ \A n \in made : Ring(links, n) \in Parties
<1>1. made \in SUBSET Node /\ Mutual(links, made)
  BY DEF IInv, TypeOK
<1>2. Classes(RingOf(links, made), made)
  BY <1>1, RingsAreClasses
<1>3. \A n \in made : /\ n \in Ring(links, n) /\ Ring(links, n) \subseteq made
                      /\ \A m \in Ring(links, n) : Ring(links, m) = Ring(links, n)
  BY <1>2 DEF Classes, RingOf
<1>4. Parties = {Ring(links, n) : n \in made}
  BY DEF Parties, Ring
<1>5. Abstract!Member = made
  BY <1>3, <1>4 DEF Abstract!Member
<1>6. ASSUME NEW n \in made PROVE Abstract!PartyOf(n) = Ring(links, n)
  <2>1. Ring(links, n) \in Parties /\ n \in Ring(links, n)
    BY <1>3, <1>4
  <2>2. \A p \in Parties : n \in p => p = Ring(links, n)
    BY <1>3, <1>4
  <2> QED
    BY <2>1, <2>2 DEF Abstract!PartyOf
<1> QED
  BY <1>4, <1>5, <1>6

-----------------------------------------------------------------------------
(* One lemma per action *)

(* A new smart pointer, by itself, founds a party.                          *)
LEMMA ConstructRefines ==
  ASSUME IInv, NEW n \in Node, n \notin made, links' = LinkAlone(links, n), made' = made \cup {n},
         NEW o, pointee' = [pointee EXCEPT ![n] = o], exists' = exists
  PROVE  Abstract!Found(n, o)
<1>1. made \in SUBSET Node /\ Mutual(links, made) /\ Alike(links, made, pointee)
  BY DEF IInv, TypeOK
<1>2. Mutual(links', made')
  BY <1>1, AloneKeeps
<1>3. Ring(links', n) = {n} /\ \A m \in made : Ring(links', m) = Ring(links, m)
  BY <1>1, <1>2, RingAlone
<1> DEFINE f == RingOf(links, made)
           g == RingOf(links', made')
<1>4. FoundsClass(f, g, made, n)
  BY <1>3 DEF RingOf, FoundsClass
<1> HIDE DEF f, g
<1>5. Parts(g, made') = Parts(f, made) \cup {{n}}
  BY <1>4, ClassFounded
<1>6. Parties' = Parties \cup {{n}}
  BY <1>5, PartiesAre DEF f, g
<1> QED
  BY <1>6, MembersAre DEF Abstract!Found

(* A copy joins its original's party.                                       *)
LEMMA CopyRefines ==
  ASSUME IInv, NEW n \in Node, NEW m \in Node, Copy(n, m)
  PROVE  Abstract!Join(n, m)
<1>1. /\ made \in SUBSET Node /\ Mutual(links, made) /\ Alike(links, made, pointee)
      /\ n \in Node \ made /\ m \in made
      /\ links' = LinkAfter(links, n, m) /\ made' = made \cup {n}
      /\ pointee' = [pointee EXCEPT ![n] = pointee[m]] /\ exists' = exists
  BY DEF IInv, TypeOK, Copy, Usable
<1>2. Mutual(links', made')
  <2>1. IInv'
    BY CopyKeeps
  <2> QED
    BY <2>1 DEF IInv
<1>3. /\ Ring(links', n) = Ring(links, m) \cup {n}
      /\ \A k \in made : Ring(links', k) =
           IF m \in Ring(links, k) THEN Ring(links, k) \cup {n} ELSE Ring(links, k)
  BY <1>1, <1>2, RingAfter
<1> DEFINE f == RingOf(links, made)
           g == RingOf(links', made')
<1>4. f[m] = Ring(links, m) /\ JoinsClass(f, g, made, n, m)
  BY <1>1, <1>3 DEF RingOf, JoinsClass
<1>5. Classes(f, made)
  BY <1>1, RingsAreClasses
<1> HIDE DEF f, g
<1>6. Parts(g, made') = PartsGrown(Parts(f, made), f[m], n)
  <2>1. n \notin made /\ m \in made /\ made' = made \cup {n}
    BY <1>1
  <2> QED
    BY <1>4, <1>5, <2>1, ClassJoined
<1>7. Parties' = (Parties \ {Ring(links, m)}) \cup {Ring(links, m) \cup {n}}
  BY <1>4, <1>6, PartiesAre DEF PartsGrown, f, g
<1> QED
  BY <1>1, <1>7, MembersAre DEF Abstract!Join

(* Only the last of a party deletes the object.                             *)
LEMMA DestroyRefines ==
  ASSUME IInv, NEW n \in Node, Destroy(n)
  PROVE  Abstract!Leave(n)
<1>1. /\ made \in SUBSET Node /\ Mutual(links, made) /\ n \in made
      /\ links' = Unlink(links, n) /\ made' = made \ {n}
      /\ pointee' = [pointee EXCEPT ![n] = NoObject]
      /\ exists' = (IF IsAlone(links, n) THEN exists \ {pointee[n]} ELSE exists)
  BY DEF IInv, TypeOK, Destroy
<1>2. Mutual(links', made')
  <2>1. IInv'
    BY DestroyKeeps
  <2> QED
    BY <2>1 DEF IInv
<1>3. \A m \in made \ {n} : Ring(links', m) = Ring(links, m) \ {n}
  BY <1>1, <1>2, RingUnlink
<1> DEFINE f == RingOf(links, made)
           g == RingOf(links', made')
<1>4. \A m \in made \ {n} : g[m] = f[m] \ {n}
  BY <1>1, <1>3 DEF RingOf
<1>5. Classes(f, made)
  BY <1>1, RingsAreClasses
<1> HIDE DEF f, g
<1>6. Parts(g, made') = PartsWithout(Parts(f, made), n)
  BY <1>1, <1>4, <1>5, ClassLeft
<1>7. Parties' = Abstract!Without(n)
  BY <1>6, PartiesAre DEF PartsWithout, Abstract!Without, f, g
<1>8. n \in Abstract!Member /\ (Abstract!PartyOf(n) = {n} <=> IsAlone(links, n))
  BY <1>1, MembersAre, RingOfOne
<1> QED
  BY <1>1, <1>7, <1>8 DEF Abstract!Leave

(* All of Swap's cases exchange two places.                                 *)
LEMMA SwapRefines ==
  ASSUME IInv, NEW a \in Node, NEW b \in Node, Swap(a, b)
  PROVE  Abstract!Exchange(a, b)
<1>1. /\ made \in SUBSET Node /\ Mutual(links, made) /\ a \in made /\ b \in made
      /\ links' = SwapLinks(links, a, b) /\ made' = made /\ exists' = exists
      /\ pointee' = [pointee EXCEPT ![a] = pointee[b], ![b] = pointee[a]]
  BY DEF IInv, TypeOK, Swap, Exchange
<1>2. Mutual(links', made')
  <2>1. IInv'
    BY SwapKeeps
  <2> QED
    BY <2>1 DEF IInv
<1>3. \A m \in made : Ring(links', Other(a, b, m)) = {Other(a, b, k) : k \in Ring(links, m)}
  BY <1>1, <1>2, SwapExchanges, RingExchanged
<1> DEFINE f == RingOf(links, made)
           g == RingOf(links', made')
<1>4. \A m \in made : g[Other(a, b, m)] = {Other(a, b, k) : k \in f[m]}
  BY <1>1, <1>3, OtherTwice DEF RingOf
<1> HIDE DEF f, g
<1>5. Parts(g, made) = PartsExchanged(Parts(f, made), a, b)
  BY <1>1, <1>4, ClassExchanged
<1>6. Parties' = PartsExchanged(Parties, a, b)
  BY <1>1, <1>5, PartiesAre DEF f, g
<1>7. {a, b} \subseteq Abstract!Member
  BY <1>1, MembersAre
<1> QED
  BY <1>1, <1>6, <1>7 DEF Abstract!Exchange, PartsExchanged, Other

(* A merge whose assertion holds unites two parties.                        *)
LEMMA MergeRefines ==
  ASSUME IInv, NEW a \in Node, NEW b \in Node, Merge(a, b)
  PROVE  Abstract!Unite(a, b) \/ UNCHANGED <<Parties, pointee, exists>>
<1>1. /\ made \in SUBSET Node /\ Mutual(links, made) /\ a \in made /\ b \in made
      /\ made' = made /\ exists' = exists /\ pointee' = pointee
      /\ IF CountsAgree(MergeLinks(links, a, b), a) THEN links' = MergeLinks(links, a, b)
         ELSE links' = links
  BY DEF IInv, TypeOK, Merge
<1>2. CASE ~CountsAgree(MergeLinks(links, a, b), a)
  BY <1>1, <1>2, PartiesAre
<1>3. CASE CountsAgree(MergeLinks(links, a, b), a)
  <2>1. Mutual(links', made')
    <3>1. IInv'
      BY MergeStepKeeps
    <3> QED
      BY <3>1 DEF IInv
  <2>2. \A m \in made : Ring(links', m) =
          IF m \in Ring(links, a) \cup Ring(links, b) THEN Ring(links, a) \cup Ring(links, b)
          ELSE Ring(links, m)
    BY <1>1, <1>3, <2>1, RingMerged
  <2> DEFINE f == RingOf(links, made)
             g == RingOf(links', made')
  <2>3. /\ f[a] = Ring(links, a) /\ f[b] = Ring(links, b)
        /\ UnitesClasses(f, g, made, a, b)
    BY <1>1, <2>2 DEF RingOf, UnitesClasses
  <2>4. Classes(f, made)
    BY <1>1, RingsAreClasses
  <2> HIDE DEF f, g
  <2>5. Parts(g, made) = (Parts(f, made) \ {f[a], f[b]}) \cup {f[a] \cup f[b]}
    BY <1>1, <2>3, <2>4, ClassUnited
  <2>6. Parties' = (Parties \ {Ring(links, a), Ring(links, b)})
                     \cup {Ring(links, a) \cup Ring(links, b)}
    BY <1>1, <2>3, <2>5, PartiesAre DEF f, g
  <2> QED
    BY <1>1, <2>6, MembersAre DEF Abstract!Unite
<1> QED
  BY <1>2, <1>3

(* The temporary joins a ring and leaves it again. *)
LEMMA MoveAssignRefines ==
  ASSUME IInv, NEW a \in Node, NEW b \in Node, MoveAssign(a, b)
  PROVE  UNCHANGED <<Parties, pointee, exists>>
<1> DEFINE l1 == LinkAfter(links, Temp, b)
           M == made \cup {Temp}
<1>1. /\ made \in SUBSET Node /\ Temp \in Node \ made /\ b \in made
      /\ Mutual(links, made) /\ Alike(links, made, pointee)
      /\ links' = Unlink(l1, Temp) /\ made' = made /\ exists' = exists /\ pointee' = pointee
  BY ObjectAssumption DEF IInv, TypeOK, MoveAssign
<1>2. Mutual(l1, M)
  <2> DEFINE v == [k \in Node |-> NoObject]
  <2>1. v[Temp] = v[b] /\ Alike(links, made, v)
    BY <1>1 DEF Alike, Mutual
  <2> HIDE DEF v
  <2> QED
    BY <1>1, <2>1, AfterKeeps
<1>3. Mutual(links', made')
  <2>1. IInv'
    BY MoveAssignKeeps
  <2> QED
    BY <2>1 DEF IInv
<1>4. M \in SUBSET Node /\ M \ {Temp} = made /\ Temp \in M
  BY <1>1
<1>5. ASSUME NEW m \in made PROVE Ring(links', m) = Ring(links, m)
  <2>1. Ring(l1, m) = IF b \in Ring(links, m) THEN Ring(links, m) \cup {Temp} ELSE Ring(links, m)
    BY <1>1, <1>2, RingJoined
  <2>2. Ring(links', m) = Ring(l1, m) \ {Temp}
    <3> HIDE DEF l1, M
    <3>1. Mutual(Unlink(l1, Temp), M \ {Temp}) /\ m \in M \ {Temp}
      BY <1>1, <1>3, <1>4
    <3> QED
      BY <1>1, <1>2, <1>4, <3>1, RingUnlink
  <2>3. Temp \notin Ring(links, m)
    BY <1>1, RingClosed
  <2> QED
    BY <2>1, <2>2, <2>3
<1>6. Parties' = Parties
  BY <1>1, <1>5 DEF Parties, Ring
<1> QED
  BY <1>1, <1>6

(* The temporary takes n's place, and goes with it. *)
LEMMA ResetRefines ==
  ASSUME IInv, NEW n \in Node, NEW o \in Object \cup {NoObject}, Reset(n, o)
  PROVE  Abstract!Replace(n, o) /\ o \in exists \cup {NoObject}
<1> DEFINE swapped == SwapLinks(LinkAlone(links, Temp), Temp, n)
<1>1. /\ made \in SUBSET Node /\ Temp \in Node \ made /\ n \in made
      /\ Mutual(links, made)
      /\ links' = Unlink(swapped, Temp) /\ made' = made
      /\ pointee' = [pointee EXCEPT ![n] = o]
      /\ exists' = (IF IsAlone(swapped, Temp) THEN exists \ {pointee[n]} ELSE exists)
      /\ o \in exists \cup {NoObject}
  BY ObjectAssumption DEF IInv, TypeOK, Reset
<1>2. Mutual(links', made)
  <2>1. IInv'
    BY ResetKeeps
  <2> QED
    BY <1>1, <2>1 DEF IInv
<1>3. /\ IsAlone(swapped, Temp) <=> Ring(links, n) = {n}
      /\ Ring(links', n) = {n}
      /\ \A m \in made \ {n} : Ring(links', m) = Ring(links, m) \ {n}
  <2>1. swapped = SwapLinks(LinkAlone(links, Temp), Temp, n)
    OBVIOUS
  <2> HIDE DEF swapped
  <2>2. Mutual(Unlink(swapped, Temp), made)
    BY <1>1, <1>2
  <2>3. /\ IsAlone(swapped, Temp) <=> Ring(links, n) = {n}
        /\ Ring(Unlink(swapped, Temp), n) = {n}
        /\ \A m \in made \ {n} : Ring(Unlink(swapped, Temp), m) = Ring(links, m) \ {n}
    BY <1>1, <2>1, <2>2, RingReplaced
  <2> QED
    BY <1>1, <2>3
<1> HIDE DEF swapped
<1> DEFINE f == RingOf(links, made)
           g == RingOf(links', made')
           P == made \ {n}
<1>4. g[n] = {n} /\ \A m \in P : g[m] = f[m] \ {n}
  BY <1>1, <1>3 DEF RingOf
<1>5. Classes(f, made)
  BY <1>1, RingsAreClasses
<1> HIDE DEF f, g
<1>6. Parts(g, P) = PartsWithout(Parts(f, made), n)
  BY <1>1, <1>4, <1>5, ClassLeft
<1>7. Parts(g, made) = Parts(g, P) \cup {{n}}
  <2>1. made = P \cup {n} /\ n \notin P
    BY <1>1
  <2> HIDE DEF P
  <2>2. Parts(g, P \cup {n}) = Parts(g, P) \cup {{n}}
    BY <1>4 DEF Parts
  <2> QED
    BY <2>1, <2>2
<1>8. Parties' = Abstract!Without(n) \cup {{n}}
  BY <1>1, <1>6, <1>7, PartiesAre DEF PartsWithout, Abstract!Without, f, g
<1>9. n \in Abstract!Member /\ Abstract!PartyOf(n) = Ring(links, n)
  BY <1>1, MembersAre
<1> QED
  BY <1>1, <1>3, <1>8, <1>9 DEF Abstract!Replace

(* A lone smart pointer gives its object back.                              *)
LEMMA ReleaseRefines ==
  ASSUME IInv, NEW n \in Node, Release(n)
  PROVE  Abstract!GiveUp(n)
<1>1. n \in made /\ made \in SUBSET Node /\ Mutual(links, made) /\ IsAlone(links, n)
  BY DEF Release, IInv, TypeOK
<1>2. {n} \in Parties
  BY <1>1, RingOfOne, MembersAre
<1>3. Parties' = Parties
  BY PartiesAre DEF Release
<1> QED
  BY <1>2, <1>3 DEF Release, Abstract!GiveUp

(* Every step is one of the specification of shared ownership, or none.     *)
LEMMA NextRefines ==
  ASSUME IInv, [Next]_vars
  PROVE  [Abstract!Next]_<<Parties, pointee, exists>>
<1> DEFINE Step == [Abstract!Next]_<<Parties, pointee, exists>>
<1>1. ASSUME NEW o \in Object, NewObject(o) PROVE Step
  <2>1. Abstract!Make(o)
    BY <1>1, PartiesAre DEF NewObject, Abstract!Make
  <2> QED
    BY <2>1 DEF Abstract!Next
<1>2. ASSUME NEW n \in Node, NEW o \in Object \cup {NoObject}, Construct(n, o) PROVE Step
  <2>1. Abstract!Found(n, o) /\ o \in exists \cup {NoObject}
    BY <1>2, ConstructRefines DEF Construct, Usable, IInv, TypeOK
  <2> QED
    BY <2>1 DEF Abstract!Next
<1>3. ASSUME NEW n \in Node, NEW o \in Object \cup {NoObject}, Adopt(n, o) PROVE Step
  <2>1. Abstract!Found(n, o) /\ o \in exists \cup {NoObject}
    BY <1>3, ConstructRefines DEF Adopt, Usable
  <2> QED
    BY <2>1 DEF Abstract!Next
<1>4. ASSUME NEW n \in Node, NEW o \in Object \cup {NoObject}, Reset(n, o) PROVE Step
  BY <1>4, ResetRefines DEF Abstract!Next
<1>5. ASSUME NEW n \in Node, Destroy(n) PROVE Step
  BY <1>5, DestroyRefines DEF Abstract!Next
<1>6. ASSUME NEW n \in Node, Release(n) PROVE Step
  BY <1>6, ReleaseRefines DEF Abstract!Next
<1>7. ASSUME NEW n \in Node, NEW m \in Node, Copy(n, m) PROVE Step
  BY <1>7, CopyRefines DEF Abstract!Next
<1>8. ASSUME NEW n \in Node, NEW m \in Node, Swap(n, m) PROVE Step
  BY <1>8, SwapRefines DEF Abstract!Next
<1>9. ASSUME NEW n \in Node, NEW m \in Node, Merge(n, m) PROVE Step
  BY <1>9, MergeRefines DEF Abstract!Next
<1>10. ASSUME NEW n \in Node, NEW m \in Node, MoveAssign(n, m) PROVE Step
  BY <1>10, MoveAssignRefines
<1>11. CASE UNCHANGED vars
  BY <1>11, PartiesAre DEF vars
<1> HIDE DEF Step
<1> QED
  BY <1>1, <1>2, <1>3, <1>4, <1>5, <1>6, <1>7, <1>8, <1>9, <1>10, <1>11 DEF Next, Step

(* Though nothing counts, what clients see of linked smart pointers is      *)
(* shared ownership: a copy joins its original's party, Swap exchanges two  *)
(* places, Merge unites two parties, and the last of a party takes the      *)
(* object with it.                                                          *)
THEOREM LinkedImplementsCoOwners == Spec => ImplementsCoOwners
<1>1. Init => Abstract!Init
  BY DEF Init, Abstract!Init, Parties
<1>2. IInv /\ [Next]_vars => [Abstract!Next]_<<Parties, pointee, exists>>
  BY NextRefines
<1>3. QED
  BY LinkedInvariance, <1>1, <1>2, PTL DEF Spec, ImplementsCoOwners, Abstract!Spec
=============================================================================
