--------------------------- MODULE StrongPtrProofs ---------------------------
(***************************************************************************)
(* Proofs about StrongPtr.  The functions of each ownership policy meet a  *)
(* contract (Created, Shared, Swapped, Led, Gone), stated with the set M   *)
(* of the pointers that are constructed and their copointers (Mates); the  *)
(* invariant of StrongPtr rests on the contracts alone, so that it holds   *)
(* for either policy.                                                      *)
(***************************************************************************)
EXTENDS StrongPtr, OperatorLemmas

\* The pointers of M that have the record of counts that n has.
Sharers(s, M, n) == {m \in M : s.m_counts[m] = s.m_counts[n]}

\* The pointers that share an object with n, of those in M.
Mates(s, M, n) == IF HasCounts(s) THEN Sharers(s, M, n) ELSE Ring(s.links, n)

\* The records in use are those of the pointers in M, with the right counts.
CountsGood(s, M) ==
  /\ s \in Counts!OwnType
  /\ M \subseteq Node
  /\ s.used = {s.m_counts[n] : n \in M}
  /\ \A n \in M :
       /\ s.info[s.m_counts[n]].strong = Cardinality(Sharers(s, M, n) \cap Strong)
       /\ s.info[s.m_counts[n]].weak = Cardinality(Sharers(s, M, n) \ Strong)

\* The cycles of s are made of the pointers in M.
LinkedGood(s, M) ==
  /\ s \in LinkedType
  /\ M \subseteq Node
  /\ Mutual(s.links, M)
  /\ Alike(s.links, M, s.pointer)
  /\ \A n \in M : s.strong[n] = (n \in Strong)

\* s is a state of a policy in which the pointers in M are constructed.
Good(s, M) == IF HasCounts(s) THEN CountsGood(s, M) ELSE LinkedGood(s, M)

-----------------------------------------------------------------------------
(* What StrongPtr needs of the functions of its policy, from s to r *)

\* n is constructed, alone, and leads to p.
Created(s, r, M, n, p) ==
  /\ Good(r, M \cup {n})
  /\ OP_GetPointer(r, n) = p
  /\ \A m \in M : OP_GetPointer(r, m) = OP_GetPointer(s, m)
  /\ Mates(r, M \cup {n}, n) = {n}
  /\ \A m \in M : Mates(r, M \cup {n}, m) = Mates(s, M, m)

\* n is constructed as a copointer of q.
Shared(s, r, M, n, q) ==
  /\ Good(r, M \cup {n})
  /\ OP_GetPointer(r, n) = OP_GetPointer(s, q)
  /\ \A m \in M : OP_GetPointer(r, m) = OP_GetPointer(s, m)
  /\ Mates(r, M \cup {n}, n) = Mates(s, M, q) \cup {n}
  /\ \A m \in M : Mates(r, M \cup {n}, m) =
       IF q \in Mates(s, M, m) THEN Mates(s, M, m) \cup {n} ELSE Mates(s, M, m)

\* a and b are exchanged.
Swapped(s, r, M, a, b) ==
  /\ Good(r, M)
  /\ \A m \in M : OP_GetPointer(r, Other(a, b, m)) = OP_GetPointer(s, m)
  /\ \A m \in M : Mates(r, M, Other(a, b, m)) = Places(a, b, Mates(s, M, m))

\* n and its copointers lead to p.
Led(s, r, M, n, p) ==
  /\ Good(r, M)
  /\ \A m \in M : Mates(r, M, m) = Mates(s, M, m)
  /\ \A m \in M : OP_GetPointer(r, m) = IF m \in Mates(s, M, n) THEN p ELSE OP_GetPointer(s, m)

\* No copointer of n is strong.
IsLast(s, M, n) == \A m \in Mates(s, M, n) \ {n} : m \notin Strong

\* The copointers of n stay together without it or, if none of them is strong, part.
StayOrPart(s, r, M, n) ==
  \/ \A m \in M \ {n} : Mates(r, M \ {n}, m) = Mates(s, M, m) \ {n}
  \/ /\ IsLast(s, M, n)
     /\ \A m \in Mates(s, M, n) \ {n} : Mates(r, M \ {n}, m) = {m}

\* n is destroyed; if it was the last strong one, its copointers lead to nothing.
Gone(s, r, M, n) ==
  /\ Good(r, M \ {n})
  /\ \A m \in M \ {n} :
       IF IsLast(s, M, n) /\ m \in Mates(s, M, n) THEN OP_GetPointer(r, m) = NoObject
       ELSE /\ OP_GetPointer(r, m) = OP_GetPointer(s, m)
            /\ Mates(r, M \ {n}, m) = Mates(s, M, m) \ {n}
  /\ StayOrPart(s, r, M, n)

\* A state of TwoRefCounts has counts.
LEMMA CountsHasCounts ==
  ASSUME NEW s \in Counts!OwnType
  PROVE  HasCounts(s)
BY DEF Counts!OwnType, HasCounts

\* A state of TwoRefLinks has none.
LEMMA LinkedHasNoCounts ==
  ASSUME NEW s \in LinkedType
  PROVE  ~HasCounts(s)
BY DEF LinkedType, HasCounts

\* Which of the two policies a state is of.
LEMMA WhichPolicy ==
  ASSUME NEW s, NEW M
  PROVE  /\ CountsGood(s, M) => HasCounts(s) /\ Good(s, M)
         /\ LinkedGood(s, M) => ~HasCounts(s) /\ Good(s, M)
<1>1. CountsGood(s, M) => HasCounts(s)
  BY CountsHasCounts DEF CountsGood
<1>2. LinkedGood(s, M) => ~HasCounts(s)
  BY LinkedHasNoCounts DEF LinkedGood
<1> QED
  BY <1>1, <1>2 DEF Good

\* What the functions of the policies do is what StrongPtr calls.
LEMMA CountsMates ==
  ASSUME NEW s, NEW M, CountsGood(s, M)
  PROVE  /\ \A n : Mates(s, M, n) = Sharers(s, M, n)
         /\ \A n : OP_GetPointer(s, n) = Counts!GetPointer(s, n)
BY WhichPolicy DEF Mates, OP_GetPointer

\* Likewise for TwoRefLinks, where the copointers are the ring.
LEMMA LinkedMatesAre ==
  ASSUME NEW s, NEW M, LinkedGood(s, M)
  PROVE  /\ \A n : Mates(s, M, n) = Ring(s.links, n)
         /\ \A n : OP_GetPointer(s, n) = s.pointer[n]
BY WhichPolicy DEF Mates, OP_GetPointer, LinkedGetPointer

-----------------------------------------------------------------------------
(* TwoRefLinks *)

\* The types of the fields of what TwoRefLinks keeps.
LEMMA LinkedFields ==
  ASSUME NEW s \in LinkedType
  PROVE  /\ s.links \in Links
         /\ s.pointer \in [Node -> Object \cup {NoObject}]
         /\ s.strong \in [Node -> BOOLEAN]
BY DEF LinkedType

\* The pointers of a ring lead to one object.
LEMMA LinkedMates ==
  ASSUME NEW s, NEW M, LinkedGood(s, M), NEW n \in M, NEW m \in Ring(s.links, n)
  PROVE  m \in M /\ s.pointer[m] = s.pointer[n]
<1>1. M \in SUBSET Node /\ Mutual(s.links, M) /\ Alike(s.links, M, s.pointer)
  BY DEF LinkedGood
<1> DEFINE S == {k \in M : s.pointer[k] = s.pointer[n]}
<1>2. S \in SUBSET Node /\ n \in S /\ \A k \in S : s.links.next[k] \in S
  BY <1>1 DEF Mutual, Alike
<1>3. Ring(s.links, n) \subseteq S
  <2> HIDE DEF S
  <2> QED
    BY <1>2, RingWithin
<1> QED
  BY <1>3

\* TwoRefLinks(p, strong): a ring of one.
LEMMA LinkedCreateOK ==
  ASSUME NEW s, NEW M, LinkedGood(s, M), NEW n \in Node \ M, NEW p \in Object \cup {NoObject},
         NEW r, r = LinkedCreate(s, n, p, n \in Strong)
  PROVE  Created(s, r, M, n, p)
<1>1. /\ M \in SUBSET Node /\ Mutual(s.links, M) /\ Alike(s.links, M, s.pointer)
      /\ \A m \in M : s.strong[m] = (m \in Strong)
      /\ s.links \in Links
      /\ s.pointer \in [Node -> Object \cup {NoObject}]
      /\ s.strong \in [Node -> BOOLEAN]
  BY LinkedFields DEF LinkedGood
<1>2. /\ r.links = LinkAlone(s.links, n)
      /\ r.pointer = [s.pointer EXCEPT ![n] = p]
      /\ r.strong = [s.strong EXCEPT ![n] = (n \in Strong)]
      /\ r = [links |-> r.links, pointer |-> r.pointer, strong |-> r.strong]
  <2> DEFINE x == LinkAlone(s.links, n)
             y == [s.pointer EXCEPT ![n] = p]
             z == [s.strong EXCEPT ![n] = (n \in Strong)]
  <2>1. r = [links |-> x, pointer |-> y, strong |-> z]
    BY DEF LinkedCreate
  <2> HIDE DEF x, y, z
  <2>2. QED
    BY <2>1 DEF x, y, z
<1>3. /\ \A m \in Node : r.pointer[m] = IF m = n THEN p ELSE s.pointer[m]
      /\ \A m \in Node : r.strong[m] = IF m = n THEN n \in Strong ELSE s.strong[m]
      /\ r.pointer \in [Node -> Object \cup {NoObject}]
      /\ r.strong \in [Node -> BOOLEAN]
  <2>1. /\ \A m \in Node : r.pointer[m] = IF m = n THEN p ELSE s.pointer[m]
        /\ r.pointer \in [Node -> Object \cup {NoObject}]
    BY <1>1, <1>2
  <2> DEFINE strong == n \in Strong
  <2>2. strong \in BOOLEAN /\ r.strong = [s.strong EXCEPT ![n] = strong]
    BY <1>2
  <2> HIDE DEF strong
  <2>3. /\ \A m \in Node : r.strong[m] = IF m = n THEN strong ELSE s.strong[m]
        /\ r.strong \in [Node -> BOOLEAN]
    BY <1>1, <2>2
  <2>4. QED
    BY <2>1, <2>3 DEF strong
<1>4. Alike(s.links, M, r.pointer)
  BY <1>1, <1>3 DEF Alike, Mutual
<1>5. Mutual(r.links, M \cup {n}) /\ Alike(r.links, M \cup {n}, r.pointer)
  <2>1. /\ Mutual(LinkAlone(s.links, n), M \cup {n})
        /\ Alike(LinkAlone(s.links, n), M \cup {n}, r.pointer)
    BY <1>1, <1>4, AloneKeeps
  <2> QED
    BY <1>2, <2>1
<1>6. r \in LinkedType
  <2>1. r.links \in Links
    BY <1>5 DEF Mutual
  <2> QED
    BY <1>2, <1>3, <2>1 DEF LinkedType
<1>7. LinkedGood(r, M \cup {n})
  BY <1>1, <1>3, <1>5, <1>6 DEF LinkedGood
<1>8. Ring(r.links, n) = {n} /\ \A m \in M : Ring(r.links, m) = Ring(s.links, m)
  BY <1>1, <1>2, <1>5, RingAlone
<1>9. /\ Good(r, M \cup {n})
      /\ \A m : Mates(r, M \cup {n}, m) = Ring(r.links, m) /\ OP_GetPointer(r, m) = r.pointer[m]
      /\ \A m : Mates(s, M, m) = Ring(s.links, m) /\ OP_GetPointer(s, m) = s.pointer[m]
  <2>1. LinkedGood(s, M)
    OBVIOUS
  <2>2. Good(r, M \cup {n})
    BY <1>7, WhichPolicy
  <2>3. \A m : Mates(r, M \cup {n}, m) = Ring(r.links, m) /\ OP_GetPointer(r, m) = r.pointer[m]
    BY <1>7, LinkedMatesAre
  <2>4. \A m : Mates(s, M, m) = Ring(s.links, m) /\ OP_GetPointer(s, m) = s.pointer[m]
    BY <2>1, LinkedMatesAre
  <2>5. QED
    BY <2>2, <2>3, <2>4
<1>10. QED
  BY <1>1, <1>3, <1>7, <1>8, <1>9 DEF Created

\* TwoRefLinks(rhs, strong): the new pointer joins the ring of rhs.
LEMMA LinkedShareOK ==
  ASSUME NEW s, NEW M, LinkedGood(s, M), NEW n \in Node \ M, NEW q \in M,
         NEW r, r = LinkedShare(s, n, q, n \in Strong)
  PROVE  Shared(s, r, M, n, q)
<1>1. /\ M \in SUBSET Node /\ Mutual(s.links, M) /\ Alike(s.links, M, s.pointer)
      /\ \A m \in M : s.strong[m] = (m \in Strong)
      /\ s.links \in Links
      /\ s.pointer \in [Node -> Object \cup {NoObject}]
      /\ s.strong \in [Node -> BOOLEAN]
  BY LinkedFields DEF LinkedGood
<1>2. /\ r.links = LinkAfter(s.links, n, q)
      /\ r.pointer = [s.pointer EXCEPT ![n] = s.pointer[q]]
      /\ r.strong = [s.strong EXCEPT ![n] = (n \in Strong)]
      /\ r = [links |-> r.links, pointer |-> r.pointer, strong |-> r.strong]
  <2> DEFINE x == LinkAfter(s.links, n, q)
             y == [s.pointer EXCEPT ![n] = s.pointer[q]]
             z == [s.strong EXCEPT ![n] = (n \in Strong)]
  <2>1. r = [links |-> x, pointer |-> y, strong |-> z]
    BY DEF LinkedShare
  <2> HIDE DEF x, y, z
  <2>2. QED
    BY <2>1 DEF x, y, z
<1>3. /\ \A m \in Node : r.pointer[m] = IF m = n THEN s.pointer[q] ELSE s.pointer[m]
      /\ \A m \in Node : r.strong[m] = IF m = n THEN n \in Strong ELSE s.strong[m]
      /\ r.pointer \in [Node -> Object \cup {NoObject}]
      /\ r.strong \in [Node -> BOOLEAN]
  <2>1. /\ \A m \in Node : r.pointer[m] = IF m = n THEN s.pointer[q] ELSE s.pointer[m]
        /\ r.pointer \in [Node -> Object \cup {NoObject}]
    BY <1>1, <1>2
  <2> DEFINE strong == n \in Strong
  <2>2. strong \in BOOLEAN /\ r.strong = [s.strong EXCEPT ![n] = strong]
    BY <1>2
  <2> HIDE DEF strong
  <2>3. /\ \A m \in Node : r.strong[m] = IF m = n THEN strong ELSE s.strong[m]
        /\ r.strong \in [Node -> BOOLEAN]
    BY <1>1, <2>2
  <2>4. QED
    BY <2>1, <2>3 DEF strong
<1>4. Alike(s.links, M, r.pointer) /\ r.pointer[n] = r.pointer[q]
  BY <1>1, <1>3 DEF Alike, Mutual
<1>5. Mutual(r.links, M \cup {n}) /\ Alike(r.links, M \cup {n}, r.pointer)
  <2>1. /\ Mutual(LinkAfter(s.links, n, q), M \cup {n})
        /\ Alike(LinkAfter(s.links, n, q), M \cup {n}, r.pointer)
    BY <1>1, <1>4, AfterKeeps
  <2> QED
    BY <1>2, <2>1
<1>6. r \in LinkedType
  <2>1. r.links \in Links
    BY <1>5 DEF Mutual
  <2> QED
    BY <1>2, <1>3, <2>1 DEF LinkedType
<1>7. LinkedGood(r, M \cup {n})
  BY <1>1, <1>3, <1>5, <1>6 DEF LinkedGood
<1>8. /\ Ring(r.links, n) = Ring(s.links, q) \cup {n}
      /\ \A m \in M : Ring(r.links, m) = IF q \in Ring(s.links, m)
                                         THEN Ring(s.links, m) \cup {n} ELSE Ring(s.links, m)
  <2> DEFINE l == s.links
  <2>2. Mutual(l, M)
    BY <1>1
  <2>3. r.links = LinkAfter(l, n, q) /\ Mutual(LinkAfter(l, n, q), M \cup {n})
    BY <1>2, <1>5
  <2> HIDE DEF l
  <2>4. Ring(r.links, n) = Ring(l, q) \cup {n}
    BY <1>1, <2>2, <2>3, RingAfter
  <2>5. \A m \in M : Ring(r.links, m) = IF q \in Ring(l, m) THEN Ring(l, m) \cup {n} ELSE Ring(l, m)
    <3> SUFFICES ASSUME NEW m \in M
                 PROVE  Ring(r.links, m) = IF q \in Ring(l, m) THEN Ring(l, m) \cup {n} ELSE Ring(l, m)
      OBVIOUS
    <3>1. Ring(LinkAfter(l, n, q), m) = IF q \in Ring(l, m) THEN Ring(l, m) \cup {n} ELSE Ring(l, m)
      <4>1. M \in SUBSET Node
        BY <1>1
      <4> QED
        BY <2>2, <2>3, <4>1, RingJoined
    <3> QED
      BY <2>3, <3>1
  <2> QED
    BY <2>4, <2>5 DEF l
<1>9. /\ Good(r, M \cup {n})
      /\ \A m : Mates(r, M \cup {n}, m) = Ring(r.links, m) /\ OP_GetPointer(r, m) = r.pointer[m]
      /\ \A m : Mates(s, M, m) = Ring(s.links, m) /\ OP_GetPointer(s, m) = s.pointer[m]
  <2>1. LinkedGood(s, M)
    OBVIOUS
  <2>2. Good(r, M \cup {n})
    BY <1>7, WhichPolicy
  <2>3. \A m : Mates(r, M \cup {n}, m) = Ring(r.links, m) /\ OP_GetPointer(r, m) = r.pointer[m]
    BY <1>7, LinkedMatesAre
  <2>4. \A m : Mates(s, M, m) = Ring(s.links, m) /\ OP_GetPointer(s, m) = s.pointer[m]
    BY <2>1, LinkedMatesAre
  <2>5. QED
    BY <2>2, <2>3, <2>4
<1>10. ASSUME NEW m \in M
       PROVE  Mates(r, M \cup {n}, m) =
                IF q \in Mates(s, M, m) THEN Mates(s, M, m) \cup {n} ELSE Mates(s, M, m)
  BY <1>1, <1>3, <1>7, <1>8, <1>9
<1>11. Mates(r, M \cup {n}, n) = Mates(s, M, q) \cup {n}
  BY <1>1, <1>3, <1>7, <1>8, <1>9
<1>12. /\ OP_GetPointer(r, n) = OP_GetPointer(s, q)
       /\ \A m \in M : OP_GetPointer(r, m) = OP_GetPointer(s, m)
  BY <1>1, <1>3, <1>7, <1>8, <1>9
<1>13. QED
  BY <1>9, <1>10, <1>11, <1>12 DEF Shared

\* What ~StrongPtr makes of the links.
LinkedLeft(s, n) ==
  LET released == LinkedRelease(s, n, n \in Strong) IN
  LinkedForget(IF released.last THEN LinkedZapPointer(released.own, n) ELSE released.own, n)

\* TwoRefLinks::HasStrongPointer looks for a strong pointer in the rest of the ring.
LEMMA LinkedStrongMates ==
  ASSUME NEW s, NEW M, LinkedGood(s, M), NEW n \in M
  PROVE  LinkedHasStrongPointer(s, n) <=> \E m \in Ring(s.links, n) \ {n} : m \in Strong
<1>1. \A m \in M : s.strong[m] = (m \in Strong)
  BY DEF LinkedGood
<1>2. Ring(s.links, n) \subseteq M
  BY RingClosed DEF LinkedGood
<1>3. QED
  BY <1>1, <1>2 DEF LinkedHasStrongPointer, Ring

(* ZapAllNodes, of a node that then is gone: the others of its ring are     *)
(* each alone.                                                              *)
LEMMA RingZapped ==
  ASSUME NEW l, NEW M \in SUBSET Node, Mutual(l, M), NEW n \in M, NEW r \in Links,
         \A m \in Node \ {n} : /\ r.next[m] = IF m \in Ring(l, n) THEN m ELSE l.next[m]
                               /\ r.prev[m] = IF m \in Ring(l, n) THEN m ELSE l.prev[m],
         r.next[n] = NoNode, r.prev[n] = NoNode
  PROVE  /\ Mutual(r, M \ {n})
         /\ \A m \in M \ {n} : Ring(r, m) = IF m \in Ring(l, n) THEN {m} ELSE Ring(l, m) \ {n}
<1> DEFINE L == M \ {n}
<1>1. /\ n \in Ring(l, n) /\ Ring(l, n) \subseteq M
      /\ \A m \in Ring(l, n) : l.next[m] \in Ring(l, n) /\ l.prev[m] \in Ring(l, n)
  BY RingClosed
<1>2. \A m \in M : /\ l.next[m] \in M /\ l.prev[m] \in M
                   /\ l.next[l.prev[m]] = m /\ l.prev[l.next[m]] = m
  BY DEF Mutual
<1>3. \A m \in M \ Ring(l, n) :
        l.next[m] \in M \ Ring(l, n) /\ l.prev[m] \in M \ Ring(l, n)
  BY <1>1, <1>2
<1>4. \A m \in L : r.next[m] \in L /\ r.prev[r.next[m]] = m
  BY <1>1, <1>2, <1>3
<1>5. \A m \in L : r.prev[m] \in L /\ r.next[r.prev[m]] = m
  BY <1>1, <1>2, <1>3
<1>6. \A m \in Node \ L : r.next[m] = NoNode /\ r.prev[m] = NoNode
  <2>1. \A m \in Node \ M : l.next[m] = NoNode /\ l.prev[m] = NoNode
    BY DEF Mutual
  <2> QED
    BY <1>1, <2>1
<1>7. Mutual(r, L)
  BY <1>4, <1>5, <1>6 DEF Mutual
<1>8. L \in SUBSET Node
  OBVIOUS
<1>9. ASSUME NEW m \in L, m \in Ring(l, n) PROVE Ring(r, m) = {m}
  <2>1. m \in Ring(r, m)
    BY <1>7, <1>8, RingClosed
  <2> DEFINE S == {m}
  <2>2. S \in SUBSET Node /\ m \in S /\ \A k \in S : r.next[k] \in S
    BY <1>9
  <2> HIDE DEF S
  <2>3. Ring(r, m) \subseteq S
    BY <2>2, RingWithin
  <2> QED
    BY <2>1, <2>3 DEF S
<1>10. ASSUME NEW m \in L, m \notin Ring(l, n) PROVE Ring(r, m) = Ring(l, m) \ {n}
  <2> DEFINE S == M \ Ring(l, n)
  <2>1. S \in SUBSET Node /\ m \in S /\ \A k \in S : l.next[k] \in S
    BY <1>3, <1>10
  <2>2. Ring(l, m) \subseteq S
    <3> HIDE DEF S
    <3> QED
      BY <2>1, RingWithin
  <2>3. \A k \in Ring(l, m) : r.next[k] = l.next[k]
    BY <1>1, <2>2
  <2>4. Ring(r, m) = Ring(l, m)
    <3> HIDE DEF L, S
    <3>1. m \in M
      BY <1>10 DEF L
    <3> QED
      BY <1>7, <1>8, <2>3, <3>1, RingUnchanged
  <2> QED
    BY <1>1, <2>2, <2>4
<1> QED
  BY <1>7, <1>9, <1>10

(* A walk from a node that is linked to nothing meets no other.             *)
LEMMA WalkNowhere ==
  ASSUME NEW f, NEW n, f[n] = NoNode
  PROVE  Cycle(f, n) \subseteq {n}
<1> DEFINE N == Cardinality(Node)
           w == Walk(f, n)
           D == {k \in 0 .. N : w[k] \in {n, NoNode}}
<1>1. N \in Nat
  BY NodeAssumption, FS_CardinalityType
<1>2. \A k \in 0 .. N : w[k] = StepTo(f, n, w, k)
  <2>1. WalkOf(f, n, w, N)
    BY WalkIs
  <2> HIDE DEF w, N
  <2>2. QED
    BY <1>1, <2>1, WalkStepwise
<1>3. Cycle(f, n) = {w[k] : k \in 0 .. N} \ {NoNode}
  BY DEF Cycle
<1> HIDE DEF w, N
<1>4. 0 \in D
  BY <1>1, <1>2 DEF StepTo
<1>5. ASSUME NEW k \in 0 .. N, k \in D, k < N PROVE k + 1 \in D
  <2>1. k + 1 \in 0 .. N /\ k + 1 # 0 /\ (k + 1) - 1 = k
    BY <1>1, <1>5
  <2>2. w[k + 1] = IF w[k] = NoNode THEN NoNode ELSE f[w[k]]
    BY <1>2, <2>1 DEF StepTo
  <2>3. QED
    BY <1>5, <2>1, <2>2
<1>6. \A k \in 0 .. N : k \in D
  <2> HIDE DEF D
  <2>1. QED
    BY <1>1, <1>4, <1>5, UpTo
<1>7. QED
  BY <1>3, <1>6

(* ~StrongPtr: the pointer leaves its cycle; if it was the last strong one  *)
(* there, the others are taken apart and lead to nothing.                   *)
LEMMA LinkedLeftOK ==
  ASSUME NEW s, NEW M, LinkedGood(s, M), NEW n \in M,
         NEW released, released = LinkedRelease(s, n, n \in Strong),
         NEW r, r = LinkedLeft(s, n)
  PROVE  /\ released.last <=> IsLast(s, M, n)
         /\ released.own.pointer[n] = s.pointer[n]
         /\ Gone(s, r, M, n)
<1> DEFINE left == IF released.last THEN LinkedZapPointer(released.own, n) ELSE released.own
           l == s.links
           last == \A m \in Ring(l, n) \ {n} : m \notin Strong
           L == M \ {n}
<1>1. IsLast(s, M, n) <=> last
  BY LinkedMatesAre DEF IsLast
<1>2. /\ M \in SUBSET Node /\ Mutual(l, M) /\ Alike(l, M, s.pointer)
      /\ \A m \in M : s.strong[m] = (m \in Strong)
      /\ l \in Links
      /\ l.next \in [Node -> Node \cup {NoNode}]
      /\ l.prev \in [Node -> Node \cup {NoNode}]
      /\ s.pointer \in [Node -> Object \cup {NoObject}]
      /\ s.strong \in [Node -> BOOLEAN]
  BY LinkedFields DEF LinkedGood, Links
<1>3. /\ n \in Ring(l, n) /\ Ring(l, n) \subseteq M
      /\ \A m \in Ring(l, n) : l.next[m] \in Ring(l, n)
  BY <1>2, RingClosed
<1>4. l.next[n] \in M /\ l.next[n] # NoNode
  BY <1>2, NodeAssumption DEF Mutual
<1>5. LinkedHasStrongPointer(s, n) <=> ~last
  BY LinkedStrongMates
<1>6. released.last = last
  BY <1>4, <1>5 DEF LinkedRelease
<1>7. r = LinkedForget(left, n)
  BY DEF LinkedLeft
<1>8. released.own = IF IsAlone(l, n) \/ ~last THEN [s EXCEPT !.links = Unlink(l, n)] ELSE s
  BY <1>4, <1>5 DEF LinkedRelease
<1>9. released.own.pointer = s.pointer /\ released.own.strong = s.strong
  <2>1. s = [links |-> s.links, pointer |-> s.pointer, strong |-> s.strong]
    BY DEF LinkedGood, LinkedType
  <2> QED
    BY <1>8, <2>1
<1> HIDE DEF left
<1>10. /\ r.links.next = [left.links.next EXCEPT ![n] = NoNode]
       /\ r.links.prev = [left.links.prev EXCEPT ![n] = NoNode]
       /\ r.links = [prev |-> r.links.prev, next |-> r.links.next]
       /\ r.pointer = [left.pointer EXCEPT ![n] = NoObject]
       /\ r.strong = [left.strong EXCEPT ![n] = FALSE]
       /\ r = [links |-> r.links, pointer |-> r.pointer, strong |-> r.strong]
  BY <1>7 DEF LinkedForget
<1>11. /\ LinkedGood(r, L)
       /\ \A m \in L :
            IF last /\ m \in Ring(l, n) THEN r.pointer[m] = NoObject
            ELSE r.pointer[m] = s.pointer[m] /\ Ring(r.links, m) = Ring(l, m) \ {n}
       /\ \/ \A m \in L : Ring(r.links, m) = Ring(l, m) \ {n}
          \/ last /\ \A m \in Ring(l, n) \ {n} : Ring(r.links, m) = {m}
  <2>1. CASE IsAlone(l, n) \/ ~last
    <3>1. released.own.links = Unlink(l, n)
      <4>1. s = [links |-> s.links, pointer |-> s.pointer, strong |-> s.strong]
        BY DEF LinkedGood, LinkedType
      <4> QED
        BY <1>8, <2>1, <4>1
    <3>2. Mutual(Unlink(l, n), L) /\ Alike(Unlink(l, n), L, s.pointer)
      BY <1>2, UnlinkKeeps
    <3>3. Unlink(l, n).prev[n] = NoNode /\ Unlink(l, n).next[n] = NoNode
      BY <1>2, <3>2 DEF Mutual
    <3>4. left = released.own
      <4>1. CASE ~last
        BY <1>6, <4>1 DEF left
      <4>2. CASE last
        <5>1. Others(released.own, n) = {}
          <6>1. Cycle(Unlink(l, n).prev, n) \subseteq {n}
            BY <3>3, WalkNowhere
          <6> QED
            BY <3>1, <6>1 DEF Others
        <5> QED
          BY <1>6, <4>2, <5>1 DEF left, LinkedZapPointer
      <4> QED
        BY <4>1, <4>2
    <3>5. r.links = Unlink(l, n)
      <4>1. Unlink(l, n) \in Links
        BY <3>2 DEF Mutual
      <4>2. /\ Unlink(l, n).next \in [Node -> Node \cup {NoNode}]
            /\ Unlink(l, n).prev \in [Node -> Node \cup {NoNode}]
            /\ Unlink(l, n) = [prev |-> Unlink(l, n).prev, next |-> Unlink(l, n).next]
        BY <4>1 DEF Links
      <4>3. r.links.next = Unlink(l, n).next /\ r.links.prev = Unlink(l, n).prev
        BY <1>10, <3>1, <3>3, <3>4, <4>2
      <4> QED
        BY <1>10, <4>2, <4>3
    <3>6. \A m \in L : Ring(r.links, m) = Ring(l, m) \ {n}
      BY <1>2, <3>2, <3>5, RingUnlink
    <3>7. last => \A m \in L : m \notin Ring(l, n)
      <4> DEFINE S == {n}
      <4>1. SUFFICES ASSUME last PROVE Ring(l, n) \subseteq S
        OBVIOUS
      <4>2. l.next[n] = n
        BY <2>1, <4>1 DEF IsAlone
      <4>3. S \in SUBSET Node /\ n \in S /\ \A k \in S : l.next[k] \in S
        BY <1>2, <4>2
      <4> HIDE DEF S
      <4> QED
        BY <4>3, RingWithin
    <3>8. /\ \A m \in L : r.pointer[m] = s.pointer[m] /\ r.strong[m] = s.strong[m]
          /\ r.pointer \in [Node -> Object \cup {NoObject}]
          /\ r.strong \in [Node -> BOOLEAN]
      BY <1>2, <1>9, <1>10, <3>4
    <3>9. r \in LinkedType
      <4>1. r.links \in Links
        BY <3>2, <3>5 DEF Mutual
      <4> QED
        BY <1>10, <3>8, <4>1 DEF LinkedType
    <3>10. Alike(r.links, L, r.pointer)
      BY <3>2, <3>5, <3>8 DEF Alike, Mutual
    <3>11. LinkedGood(r, L)
      BY <1>2, <3>2, <3>5, <3>8, <3>9, <3>10 DEF LinkedGood
    <3>12. ASSUME NEW m \in L
           PROVE  IF last /\ m \in Ring(l, n) THEN r.pointer[m] = NoObject
                  ELSE r.pointer[m] = s.pointer[m] /\ Ring(r.links, m) = Ring(l, m) \ {n}
      BY <3>6, <3>7, <3>8
    <3> HIDE DEF last, L
    <3> QED
      BY <3>6, <3>11, <3>12
  <2>2. CASE ~IsAlone(l, n) /\ last
    <3>1. released.own = s
      BY <1>8, <2>2
    <3>2. Others(s, n) = Ring(l, n) \ {n}
      <4>1. Cycle(l.prev, n) = Ring(l, n)
        BY <1>2, RingBothWays
      <4> QED
        BY <4>1 DEF Others
    <3>3. l.next[n] \in Others(s, n)
      BY <1>3, <2>2, <3>2 DEF IsAlone
    <3>4. left = LinkedZapPointer(s, n)
      BY <1>6, <2>2, <3>1 DEF left
    <3> DEFINE zapped == Others(s, n)
    <3>5. left = [s EXCEPT
              !.links = [prev |-> [m \in Node |-> IF m \in zapped THEN m ELSE l.prev[m]],
                         next |-> [m \in Node |-> IF m \in zapped THEN m ELSE l.next[m]]],
              !.pointer = [m \in Node |-> IF m \in zapped \cup {n} THEN NoObject ELSE s.pointer[m]]]
      BY <3>3, <3>4 DEF LinkedZapPointer
    <3>6. /\ left.links.prev = [m \in Node |-> IF m \in zapped THEN m ELSE l.prev[m]]
          /\ left.links.next = [m \in Node |-> IF m \in zapped THEN m ELSE l.next[m]]
          /\ left.pointer = [m \in Node |-> IF m \in zapped \cup {n} THEN NoObject ELSE s.pointer[m]]
          /\ left.strong = s.strong
      <4>1. s = [links |-> s.links, pointer |-> s.pointer, strong |-> s.strong]
        BY DEF LinkedGood, LinkedType
      <4> QED
        BY <3>5, <4>1
    <3>7. /\ \A m \in Node \ {n} : /\ r.links.next[m] = IF m \in Ring(l, n) THEN m ELSE l.next[m]
                                   /\ r.links.prev[m] = IF m \in Ring(l, n) THEN m ELSE l.prev[m]
          /\ r.links.next[n] = NoNode /\ r.links.prev[n] = NoNode
          /\ r.links.next \in [Node -> Node \cup {NoNode}]
          /\ r.links.prev \in [Node -> Node \cup {NoNode}]
      BY <1>2, <1>10, <3>2, <3>6
    <3>8. r.links \in Links
      BY <1>10, <3>7 DEF Links
    <3>9. /\ Mutual(r.links, L)
          /\ \A m \in L : Ring(r.links, m) = IF m \in Ring(l, n) THEN {m} ELSE Ring(l, m) \ {n}
      <4> DEFINE q == r.links
      <4>1. M \in SUBSET Node /\ Mutual(l, M) /\ q \in Links
        BY <1>2, <3>8
      <4>2. \A m \in Node \ {n} : /\ q.next[m] = IF m \in Ring(l, n) THEN m ELSE l.next[m]
                                  /\ q.prev[m] = IF m \in Ring(l, n) THEN m ELSE l.prev[m]
        BY <3>7
      <4>3. q.next[n] = NoNode /\ q.prev[n] = NoNode
        BY <3>7
      <4> HIDE DEF l, q
      <4>4. /\ Mutual(q, M \ {n})
            /\ \A m \in M \ {n} : Ring(q, m) = IF m \in Ring(l, n) THEN {m} ELSE Ring(l, m) \ {n}
        BY <4>1, <4>2, <4>3, RingZapped
      <4> QED
        BY <4>4 DEF q
    <3>10. /\ \A m \in L : /\ r.pointer[m] = IF m \in Ring(l, n) THEN NoObject ELSE s.pointer[m]
                           /\ r.strong[m] = s.strong[m]
           /\ r.pointer \in [Node -> Object \cup {NoObject}]
           /\ r.strong \in [Node -> BOOLEAN]
      BY <1>2, <1>10, <3>2, <3>6
    <3>11. r \in LinkedType
      BY <1>10, <3>8, <3>10 DEF LinkedType
    <3>12. Alike(r.links, L, r.pointer)
      <4> SUFFICES ASSUME NEW m \in L PROVE r.pointer[r.links.next[m]] = r.pointer[m]
        BY DEF Alike
      <4>1. CASE m \in Ring(l, n)
        BY <1>2, <3>7, <4>1
      <4>2. CASE m \notin Ring(l, n)
        <5>1. r.links.next[m] = l.next[m] /\ l.next[m] \in L /\ s.pointer[l.next[m]] = s.pointer[m]
          BY <1>2, <3>7, <3>9, <4>2 DEF Mutual, Alike
        <5>2. l.next[m] \notin Ring(l, n)
          <6>1. l.prev[l.next[m]] = m
            BY <1>2 DEF Mutual
          <6> QED
            BY <1>2, <4>2, <6>1, RingClosed
        <5> QED
          BY <3>10, <4>2, <5>1, <5>2
      <4> QED
        BY <4>1, <4>2
    <3>13. LinkedGood(r, L)
      BY <1>2, <3>9, <3>10, <3>11, <3>12 DEF LinkedGood
    <3>14. \A m \in Ring(l, n) \ {n} : m \in L /\ Ring(r.links, m) = {m}
      BY <1>3, <3>9
    <3> QED
      BY <2>2, <3>9, <3>10, <3>13, <3>14
  <2> QED
    BY <2>1, <2>2
<1>12. Good(r, L)
  BY <1>11, WhichPolicy
<1>13. ASSUME NEW m \in L
       PROVE  IF IsLast(s, M, n) /\ m \in Mates(s, M, n) THEN OP_GetPointer(r, m) = NoObject
              ELSE /\ OP_GetPointer(r, m) = OP_GetPointer(s, m)
                   /\ Mates(r, L, m) = Mates(s, M, m) \ {n}
  <2>1. Mates(r, L, m) = Ring(r.links, m) /\ OP_GetPointer(r, m) = r.pointer[m]
    BY <1>11, LinkedMatesAre
  <2>2. /\ Mates(s, M, m) = Ring(l, m) /\ Mates(s, M, n) = Ring(l, n)
        /\ OP_GetPointer(s, m) = s.pointer[m]
    BY LinkedMatesAre
  <2> HIDE DEF last
  <2> QED
    BY <1>1, <1>11, <2>1, <2>2
<1>14. StayOrPart(s, r, M, n)
  <2>1. \A m : Mates(r, L, m) = Ring(r.links, m)
    BY <1>11, LinkedMatesAre
  <2>2. \A m : Mates(s, M, m) = Ring(l, m)
    BY LinkedMatesAre
  <2>3. CASE \A m \in L : Ring(r.links, m) = Ring(l, m) \ {n}
    BY <2>1, <2>2, <2>3 DEF StayOrPart
  <2>4. CASE last /\ \A m \in Ring(l, n) \ {n} : Ring(r.links, m) = {m}
    <3>1. IsLast(s, M, n)
      BY <1>1, <2>4
    <3> QED
      BY <2>1, <2>2, <2>4, <3>1 DEF StayOrPart
  <2> HIDE DEF last
  <2> QED
    BY <1>11, <2>3, <2>4
<1>15. QED
  BY <1>1, <1>6, <1>9, <1>12, <1>13, <1>14 DEF Gone

(* Swap: each of the two pointers gets the other's place and object.        *)
LEMMA LinkedSwapOK ==
  ASSUME NEW s, NEW M, LinkedGood(s, M), NEW a \in M, NEW b \in M,
         NEW r, r = LinkedSwap(s, a, b)
  PROVE  Swapped(s, r, M, a, b)
<1> DEFINE l == s.links
           O(m) == Other(a, b, m)
<1>1. /\ M \in SUBSET Node /\ Mutual(l, M) /\ Alike(l, M, s.pointer)
      /\ \A m \in M : s.strong[m] = (m \in Strong)
      /\ s.pointer \in [Node -> Object \cup {NoObject}]
      /\ s.strong \in [Node -> BOOLEAN]
  BY LinkedFields DEF LinkedGood
<1>2. /\ r.links = SwapLinks(l, a, b)
      /\ r.pointer = Exchange(s.pointer, a, b)
      /\ r.strong = s.strong
      /\ r = [links |-> r.links, pointer |-> r.pointer, strong |-> r.strong]
  <2>1. s = [links |-> s.links, pointer |-> s.pointer, strong |-> s.strong]
    BY DEF LinkedGood, LinkedType
  <2> DEFINE sl == SwapLinks(l, a, b)
             sp == Exchange(s.pointer, a, b)
  <2>2. r = [s EXCEPT !.links = sl, !.pointer = sp]
    BY DEF LinkedSwap
  <2> HIDE DEF sl, sp
  <2>3. r = [links |-> sl, pointer |-> sp, strong |-> s.strong]
    BY <2>1, <2>2
  <2>4. QED
    BY <2>3 DEF sl, sp
<1>3. /\ \A m \in M : O(O(m)) = m /\ O(m) \in M
      /\ \A m \in Node : r.pointer[m] = s.pointer[O(m)]
      /\ r.pointer \in [Node -> Object \cup {NoObject}]
  BY <1>1, <1>2 DEF Exchange, Other
<1>4. Exchanged(l, r.links, M, a, b)
  <2>1. Exchanged(l, SwapLinks(l, a, b), M, a, b)
    BY <1>1, SwapExchanges
  <2>2. QED
    BY <1>2, <2>1
<1>5. Mutual(r.links, M) /\ Alike(r.links, M, r.pointer)
  <2> DEFINE q == r.links
             v == s.pointer
             w == r.pointer
  <2>1. /\ M \in SUBSET Node /\ Mutual(l, M) /\ Exchanged(l, q, M, a, b) /\ Alike(l, M, v)
        /\ \A m \in M : w[m] = v[Other(a, b, m)]
    BY <1>1, <1>3, <1>4
  <2> HIDE DEF q, v, w, l
  <2>2. Mutual(q, M) /\ Alike(q, M, w)
    BY <2>1, ExchangedKeeps
  <2>3. QED
    BY <2>2 DEF q, w
<1>6. \A m \in M : Ring(r.links, O(m)) = {O(k) : k \in Ring(l, m)}
  <2> DEFINE q == r.links
  <2>1. M \in SUBSET Node /\ Mutual(l, M) /\ Exchanged(l, q, M, a, b) /\ Mutual(q, M)
    BY <1>1, <1>4, <1>5
  <2> HIDE DEF q, l
  <2>2. \A m \in M : Ring(q, Other(a, b, m)) = {Other(a, b, k) : k \in Ring(l, m)}
    BY <2>1, RingExchanged
  <2>3. QED
    BY <2>2 DEF q
<1>7. r \in LinkedType
  <2>1. r.links \in Links
    BY <1>5 DEF Mutual
  <2>2. QED
    BY <1>1, <1>2, <1>3, <2>1 DEF LinkedType
<1>8. LinkedGood(r, M)
  BY <1>1, <1>2, <1>5, <1>7 DEF LinkedGood
<1>9. /\ Good(r, M)
      /\ \A m : Mates(r, M, m) = Ring(r.links, m) /\ OP_GetPointer(r, m) = r.pointer[m]
      /\ \A m : Mates(s, M, m) = Ring(s.links, m) /\ OP_GetPointer(s, m) = s.pointer[m]
  BY <1>1, <1>3, <1>6, <1>8, WhichPolicy, LinkedMatesAre
<1>10. \A m \in M : Mates(r, M, Other(a, b, m)) = Places(a, b, Mates(s, M, m))
  BY <1>6, <1>9 DEF Places
<1>11. \A m \in M : OP_GetPointer(r, Other(a, b, m)) = OP_GetPointer(s, m)
  BY <1>1, <1>3, <1>9
<1>12. QED
  BY <1>9, <1>10, <1>11 DEF Swapped

(* SetPointer: n and its copointers lead to p. *)
LEMMA LinkedSetPointerOK ==
  ASSUME NEW s, NEW M, LinkedGood(s, M), NEW n \in M, NEW p \in Object \cup {NoObject},
         NEW r, r = LinkedSetPointer(s, n, p)
  PROVE  Led(s, r, M, n, p)
<1> DEFINE l == s.links
<1>1. /\ M \in SUBSET Node /\ Mutual(l, M) /\ Alike(l, M, s.pointer)
      /\ \A m \in M : s.strong[m] = (m \in Strong)
      /\ l \in Links
      /\ s.pointer \in [Node -> Object \cup {NoObject}]
      /\ s.strong \in [Node -> BOOLEAN]
      /\ s = [links |-> s.links, pointer |-> s.pointer, strong |-> s.strong]
  BY LinkedFields DEF LinkedGood, LinkedType
<1>2. l.prev[n] # NoNode
  BY <1>1, NodeAssumption DEF Mutual
<1>3. {m \in Node : m = n \/ m \in Others(s, n)} = Ring(l, n)
  <2>1. Cycle(l.prev, n) = Ring(l, n)
    BY <1>1, RingBothWays
  <2>2. n \in Ring(l, n) /\ Ring(l, n) \subseteq M
    BY <1>1, RingClosed
  <2>3. QED
    BY <1>1, <2>1, <2>2 DEF Others
<1>4. /\ r.links = l
      /\ r.strong = s.strong
      /\ r.pointer = [m \in Node |-> IF m = n \/ m \in Others(s, n) THEN p ELSE s.pointer[m]]
      /\ r = [links |-> r.links, pointer |-> r.pointer, strong |-> r.strong]
  BY <1>1, <1>2 DEF LinkedSetPointer
<1>5. /\ \A m \in Node : r.pointer[m] = IF m \in Ring(l, n) THEN p ELSE s.pointer[m]
      /\ r.pointer \in [Node -> Object \cup {NoObject}]
  BY <1>1, <1>3, <1>4
<1>6. \A m \in M : l.next[m] \in Ring(l, n) <=> m \in Ring(l, n)
  <2>1. \A m \in Ring(l, n) : l.next[m] \in Ring(l, n) /\ l.prev[m] \in Ring(l, n)
    BY <1>1, RingClosed
  <2>2. \A m \in M : l.prev[l.next[m]] = m
    BY <1>1 DEF Mutual
  <2>3. QED
    BY <2>1, <2>2
<1>7. Alike(r.links, M, r.pointer)
  <2>1. \A m \in M : l.next[m] \in M /\ s.pointer[l.next[m]] = s.pointer[m]
    BY <1>1 DEF Mutual, Alike
  <2>2. QED
    BY <1>1, <1>4, <1>5, <1>6, <2>1 DEF Alike
<1>8. r \in LinkedType
  BY <1>1, <1>4, <1>5 DEF LinkedType
<1>9. LinkedGood(r, M)
  BY <1>1, <1>4, <1>7, <1>8 DEF LinkedGood
<1>10. /\ Good(r, M)
       /\ \A m : Mates(r, M, m) = Ring(r.links, m) /\ OP_GetPointer(r, m) = r.pointer[m]
       /\ \A m : Mates(s, M, m) = Ring(s.links, m) /\ OP_GetPointer(s, m) = s.pointer[m]
  BY <1>1, <1>4, <1>5, <1>9, WhichPolicy, LinkedMatesAre
<1>11. QED
  BY <1>1, <1>4, <1>5, <1>9, <1>10 DEF Led

-----------------------------------------------------------------------------
(* TwoRefCounts *)

\* What a TwoRefCountInfo holds.
InfoType == [pointer : Object \cup {NoObject}, strong : Nat, weak : Nat]

\* The fields of a state of TwoRefCounts.
LEMMA CountsFields ==
  ASSUME NEW s, NEW M, CountsGood(s, M)
  PROVE  /\ s.m_counts \in [Node -> Info \cup {NoInfo}]
         /\ s.info \in [Info -> InfoType]
         /\ s.used \in SUBSET Info
         /\ M \in SUBSET Node /\ IsFiniteSet(M)
         /\ s = [m_counts |-> s.m_counts, info |-> s.info, used |-> s.used]
         /\ \A n \in M : s.m_counts[n] \in s.used
         /\ \A i \in Info : /\ s.info[i].pointer \in Object \cup {NoObject}
                            /\ s.info[i].strong \in Nat /\ s.info[i].weak \in Nat
<1>1. /\ s.m_counts \in [Node -> Info \cup {NoInfo}]
      /\ s.info \in [Info -> InfoType]
      /\ s.used \in SUBSET Info
      /\ s = [m_counts |-> s.m_counts, info |-> s.info, used |-> s.used]
  BY DEF CountsGood, Counts!OwnType, InfoType
<1>2. M \in SUBSET Node /\ IsFiniteSet(M)
  BY NodeAssumption, FS_Subset DEF CountsGood
<1>3. \A n \in M : s.m_counts[n] \in s.used
  BY DEF CountsGood
<1>4. \A i \in Info : /\ s.info[i].pointer \in Object \cup {NoObject}
                      /\ s.info[i].strong \in Nat /\ s.info[i].weak \in Nat
  BY <1>1 DEF InfoType
<1> QED
  BY <1>1, <1>2, <1>3, <1>4

(* operator new finds a record for a pointer more.                          *)
LEMMA InfoLeft ==
  ASSUME NEW s, NEW M, CountsGood(s, M), Cardinality(M) < Cardinality(Info)
  PROVE  (CHOOSE i \in Info : i \notin s.used) \in Info \ s.used
<1>1. IsFiniteSet(M) /\ s.used \in SUBSET Info
  BY CountsFields
<1>2. s.used = {s.m_counts[n] : n \in M}
  BY DEF CountsGood
<1>3. IsFiniteSet(s.used) /\ Cardinality(s.used) <= Cardinality(M)
  <2> DEFINE f == [n \in M |-> s.m_counts[n]]
  <2>1. f \in Surjection(M, s.used)
    BY <1>2 DEF Surjection
  <2> QED
    BY <1>1, <2>1, FS_Surjection
<1>4. \E i \in Info : i \notin s.used
  <2>1. SUFFICES ASSUME \A i \in Info : i \in s.used PROVE FALSE
    OBVIOUS
  <2>2. s.used = Info
    BY <1>1, <2>1
  <2>3. /\ Cardinality(M) \in Nat /\ Cardinality(Info) \in Nat
    BY <1>1, InfoAssumption, FS_CardinalityType
  <2> QED
    BY <1>3, <2>2, <2>3
<1> QED
  BY <1>4

\* TwoRefCounts(p, strong): a record of its own.
LEMMA CountsCreateOK ==
  ASSUME NEW s, NEW M, CountsGood(s, M), Cardinality(M) < Cardinality(Info),
         NEW n \in Node \ M, NEW p \in Object \cup {NoObject},
         NEW r, r = Counts!Create(s, n, p, n \in Strong)
  PROVE  Created(s, r, M, n, p)
<1> DEFINE i == CHOOSE i \in Info : i \notin s.used
           first == [pointer |-> p, strong |-> IF n \in Strong THEN 1 ELSE 0,
                     weak |-> IF n \in Strong THEN 0 ELSE 1]
           L == M \cup {n}
<1>1. /\ s.m_counts \in [Node -> Info \cup {NoInfo}]
      /\ s.info \in [Info -> InfoType]
      /\ s.used \in SUBSET Info
      /\ M \in SUBSET Node
      /\ \A m \in M : s.m_counts[m] \in s.used
  BY CountsFields
<1>2. i \in Info /\ i \notin s.used
  BY InfoLeft
<1>3. r = [m_counts |-> [s.m_counts EXCEPT ![n] = i],
           info |-> [s.info EXCEPT ![i] = first],
           used |-> s.used \cup {i}]
  BY DEF Counts!Create
<1>4. first \in InfoType
  BY DEF InfoType
<1> HIDE DEF i
<1>5. /\ \A m \in Node : r.m_counts[m] = IF m = n THEN i ELSE s.m_counts[m]
      /\ r.m_counts \in [Node -> Info \cup {NoInfo}]
      /\ \A j \in Info : r.info[j] = IF j = i THEN first ELSE s.info[j]
      /\ r.info \in [Info -> InfoType]
      /\ r.used = s.used \cup {i}
  <2> HIDE DEF first
  <2> QED
    BY <1>1, <1>2, <1>3, <1>4
<1>6. r \in Counts!OwnType
  <2> HIDE DEF first
  <2>1. r = [m_counts |-> r.m_counts, info |-> r.info, used |-> r.used]
    BY <1>3
  <2>2. r.used \in SUBSET Info
    BY <1>1, <1>2, <1>5
  <2> QED
    BY <1>5, <2>1, <2>2 DEF Counts!OwnType, InfoType
<1> HIDE DEF first
<1>7. \A m \in M : r.m_counts[m] = s.m_counts[m] /\ s.m_counts[m] # i /\ s.m_counts[m] \in Info
  BY <1>1, <1>2, <1>5
<1>8. r.m_counts[n] = i
  BY <1>5
<1>9. Sharers(r, L, n) = {n} /\ \A m \in M : Sharers(r, L, m) = Sharers(s, M, m)
  BY <1>7, <1>8 DEF Sharers
<1>10. r.used = {r.m_counts[m] : m \in L}
  <2>1. s.used = {s.m_counts[m] : m \in M}
    BY DEF CountsGood
  <2> QED
    BY <1>5, <1>7, <1>8, <2>1
<1>11. ASSUME NEW m \in L
       PROVE  /\ r.info[r.m_counts[m]].strong = Cardinality(Sharers(r, L, m) \cap Strong)
              /\ r.info[r.m_counts[m]].weak = Cardinality(Sharers(r, L, m) \ Strong)
  <2>1. CASE m = n
    <3>1. r.info[r.m_counts[m]] = first
      BY <1>2, <1>5, <1>8, <2>1
    <3>2. Sharers(r, L, m) = {n}
      BY <1>9, <2>1
    <3>3. Cardinality({n}) = 1 /\ Cardinality({}) = 0
      BY FS_Singleton, FS_EmptySet
    <3>4. CASE n \in Strong
      <4>1. {n} \cap Strong = {n} /\ {n} \ Strong = {}
        BY <3>4
      <4>2. first.strong = 1 /\ first.weak = 0
        BY <3>4 DEF first
      <4> HIDE DEF first
      <4> QED
        BY <3>1, <3>2, <3>3, <4>1, <4>2
    <3>5. CASE n \notin Strong
      <4>1. {n} \cap Strong = {} /\ {n} \ Strong = {n}
        BY <3>5
      <4>2. first.strong = 0 /\ first.weak = 1
        BY <3>5 DEF first
      <4> HIDE DEF first
      <4> QED
        BY <3>1, <3>2, <3>3, <4>1, <4>2
    <3> QED
      BY <3>4, <3>5
  <2>2. CASE m \in M
    <3>1. r.info[r.m_counts[m]] = s.info[s.m_counts[m]]
      BY <1>5, <1>7, <2>2
    <3> QED
      BY <1>9, <2>2, <3>1 DEF CountsGood
  <2> QED
    BY <2>1, <2>2
<1>12. CountsGood(r, L)
  BY <1>1, <1>6, <1>10, <1>11 DEF CountsGood
<1>13. Counts!GetPointer(r, n) = p
  BY <1>2, <1>5, <1>8 DEF Counts!GetPointer, Counts!InfoOf, first
<1>14. \A m \in M : Counts!GetPointer(r, m) = Counts!GetPointer(s, m)
  BY <1>5, <1>7 DEF Counts!GetPointer, Counts!InfoOf
<1>15. /\ Good(r, M \cup {n})
       /\ \A m : Mates(r, M \cup {n}, m) = Sharers(r, M \cup {n}, m) /\ OP_GetPointer(r, m) = Counts!GetPointer(r, m)
       /\ \A m : Mates(s, M, m) = Sharers(s, M, m) /\ OP_GetPointer(s, m) = Counts!GetPointer(s, m)
  BY <1>9, <1>12, <1>13, <1>14, WhichPolicy, CountsMates
<1>16. QED
  BY <1>9, <1>12, <1>13, <1>14, <1>15 DEF Created

(* How many of a set are of one kind, with one more and with one less.      *)
LEMMA OneMore ==
  ASSUME NEW S, IsFiniteSet(S), NEW n, n \notin S
  PROVE  /\ Cardinality(S \cap Strong) \in Nat /\ Cardinality(S \ Strong) \in Nat
         /\ Cardinality((S \cup {n}) \cap Strong) =
              IF n \in Strong THEN Cardinality(S \cap Strong) + 1 ELSE Cardinality(S \cap Strong)
         /\ Cardinality((S \cup {n}) \ Strong) =
              IF n \in Strong THEN Cardinality(S \ Strong) ELSE Cardinality(S \ Strong) + 1
<1>1. IsFiniteSet(S \cap Strong) /\ IsFiniteSet(S \ Strong)
  BY FS_Subset
<1>2. Cardinality(S \cap Strong) \in Nat /\ Cardinality(S \ Strong) \in Nat
  BY <1>1, FS_CardinalityType
<1>3. CASE n \in Strong
  <2>1. (S \cup {n}) \cap Strong = (S \cap Strong) \cup {n} /\ (S \cup {n}) \ Strong = S \ Strong
    BY <1>3
  <2>2. Cardinality((S \cap Strong) \cup {n}) = Cardinality(S \cap Strong) + 1
    BY <1>1, FS_AddElement
  <2> QED
    BY <1>2, <1>3, <2>1, <2>2
<1>4. CASE n \notin Strong
  <2>1. (S \cup {n}) \cap Strong = S \cap Strong /\ (S \cup {n}) \ Strong = (S \ Strong) \cup {n}
    BY <1>4
  <2>2. Cardinality((S \ Strong) \cup {n}) = Cardinality(S \ Strong) + 1
    BY <1>1, FS_AddElement
  <2> QED
    BY <1>2, <1>4, <2>1, <2>2
<1> QED
  BY <1>3, <1>4

\* A pointer less of its kind is one less in the count of its kind.
LEMMA OneLess ==
  ASSUME NEW S, IsFiniteSet(S), NEW n \in S
  PROVE  /\ Cardinality((S \ {n}) \cap Strong) \in Nat /\ Cardinality((S \ {n}) \ Strong) \in Nat
         /\ Cardinality(S \cap Strong) =
              IF n \in Strong THEN Cardinality((S \ {n}) \cap Strong) + 1
              ELSE Cardinality((S \ {n}) \cap Strong)
         /\ Cardinality(S \ Strong) =
              IF n \in Strong THEN Cardinality((S \ {n}) \ Strong)
              ELSE Cardinality((S \ {n}) \ Strong) + 1
<1> DEFINE T == S \ {n}
<1>1. IsFiniteSet(T) /\ n \notin T /\ S = T \cup {n}
  BY FS_Subset
<1> HIDE DEF T
<1>2. /\ Cardinality(T \cap Strong) \in Nat /\ Cardinality(T \ Strong) \in Nat
      /\ Cardinality((T \cup {n}) \cap Strong) =
           IF n \in Strong THEN Cardinality(T \cap Strong) + 1 ELSE Cardinality(T \cap Strong)
      /\ Cardinality((T \cup {n}) \ Strong) =
           IF n \in Strong THEN Cardinality(T \ Strong) ELSE Cardinality(T \ Strong) + 1
  BY <1>1, OneMore
<1> QED
  BY <1>1, <1>2 DEF T

(* Increment and Decrement change one count of one record.                  *)
LEMMA CountedIs ==
  ASSUME NEW s, NEW M, CountsGood(s, M), NEW i \in Info, NEW n, NEW k \in Int,
         n \in Strong => s.info[i].strong + k \in Nat,
         n \notin Strong => s.info[i].weak + k \in Nat
  PROVE  LET r == Counts!Counted(s, i, n \in Strong, k) IN
         /\ r = [m_counts |-> s.m_counts, info |-> r.info, used |-> s.used]
         /\ r.info \in [Info -> InfoType]
         /\ \A j \in Info :
              /\ r.info[j].pointer = s.info[j].pointer
              /\ r.info[j].strong = IF j = i /\ n \in Strong THEN s.info[j].strong + k ELSE s.info[j].strong
              /\ r.info[j].weak = IF j = i /\ n \notin Strong THEN s.info[j].weak + k ELSE s.info[j].weak
<1> DEFINE r == Counts!Counted(s, i, n \in Strong, k)
<1>1. /\ s.info \in [Info -> InfoType]
      /\ s = [m_counts |-> s.m_counts, info |-> s.info, used |-> s.used]
  BY CountsFields
<1>2. CASE n \in Strong
  <2> DEFINE x == [s.info[i] EXCEPT !.strong = @ + k]
             f == [s.info EXCEPT ![i] = x]
  <2>1. r = [s EXCEPT !.info = f]
    BY <1>1, <1>2 DEF Counts!Counted
  <2>2. x \in InfoType /\ x.pointer = s.info[i].pointer /\ x.weak = s.info[i].weak
        /\ x.strong = s.info[i].strong + k
    BY <1>1, <1>2 DEF InfoType
  <2> HIDE DEF x, r
  <2>3. f \in [Info -> InfoType] /\ \A j \in Info : f[j] = IF j = i THEN x ELSE s.info[j]
    BY <1>1, <2>2
  <2> HIDE DEF f
  <2>4. r = [m_counts |-> s.m_counts, info |-> f, used |-> s.used]
    BY <1>1, <2>1
  <2>5. r.info = f /\ r.m_counts = s.m_counts /\ r.used = s.used
    BY <2>4
  <2>6. \A j \in Info :
          /\ f[j].pointer = s.info[j].pointer
          /\ f[j].strong = IF j = i THEN s.info[j].strong + k ELSE s.info[j].strong
          /\ f[j].weak = s.info[j].weak
    BY <2>2, <2>3
  <2> QED
    BY <1>2, <2>3, <2>4, <2>5, <2>6 DEF r
<1>3. CASE n \notin Strong
  <2> DEFINE x == [s.info[i] EXCEPT !.weak = @ + k]
             f == [s.info EXCEPT ![i] = x]
  <2>1. r = [s EXCEPT !.info = f]
    BY <1>1, <1>3 DEF Counts!Counted
  <2>2. x \in InfoType /\ x.pointer = s.info[i].pointer /\ x.strong = s.info[i].strong
        /\ x.weak = s.info[i].weak + k
    BY <1>1, <1>3 DEF InfoType
  <2> HIDE DEF x, r
  <2>3. f \in [Info -> InfoType] /\ \A j \in Info : f[j] = IF j = i THEN x ELSE s.info[j]
    BY <1>1, <2>2
  <2> HIDE DEF f
  <2>4. r = [m_counts |-> s.m_counts, info |-> f, used |-> s.used]
    BY <1>1, <2>1
  <2>5. r.info = f /\ r.m_counts = s.m_counts /\ r.used = s.used
    BY <2>4
  <2>6. \A j \in Info :
          /\ f[j].pointer = s.info[j].pointer
          /\ f[j].strong = s.info[j].strong
          /\ f[j].weak = IF j = i THEN s.info[j].weak + k ELSE s.info[j].weak
    BY <2>2, <2>3
  <2> QED
    BY <1>3, <2>3, <2>4, <2>5, <2>6 DEF r
<1> QED
  BY <1>2, <1>3

\* TwoRefCounts(rhs, strong): the record of rhs counts one more.
LEMMA CountsShareOK ==
  ASSUME NEW s, NEW M, CountsGood(s, M), NEW n \in Node \ M, NEW q \in M,
         NEW r, r = Counts!Share(s, n, q, n \in Strong)
  PROVE  Shared(s, r, M, n, q)
<1> DEFINE i == s.m_counts[q]
           c == Counts!Counted(s, i, n \in Strong, 1)
           L == M \cup {n}
<1>1. /\ s.m_counts \in [Node -> Info \cup {NoInfo}]
      /\ s.info \in [Info -> InfoType]
      /\ s.used \in SUBSET Info
      /\ M \in SUBSET Node /\ IsFiniteSet(M)
      /\ \A m \in M : s.m_counts[m] \in s.used
      /\ \A j \in Info : s.info[j].strong \in Nat /\ s.info[j].weak \in Nat
  BY CountsFields
<1>2. i \in Info /\ i \in s.used
  BY <1>1
<1>3. /\ c = [m_counts |-> s.m_counts, info |-> c.info, used |-> s.used]
      /\ c.info \in [Info -> InfoType]
      /\ \A j \in Info :
           /\ c.info[j].pointer = s.info[j].pointer
           /\ c.info[j].strong = IF j = i /\ n \in Strong THEN s.info[j].strong + 1 ELSE s.info[j].strong
           /\ c.info[j].weak = IF j = i /\ n \notin Strong THEN s.info[j].weak + 1 ELSE s.info[j].weak
  <2>1. /\ i \in Info /\ 1 \in Int
        /\ s.info[i].strong + 1 \in Nat /\ s.info[i].weak + 1 \in Nat
    BY <1>1, <1>2
  <2> HIDE DEF i
  <2> QED
    BY <2>1, CountedIs
<1> HIDE DEF c
<1>4. r = [c EXCEPT !.m_counts = [s.m_counts EXCEPT ![n] = i]]
  <2>1. c.m_counts = s.m_counts
    BY <1>3
  <2> QED
    BY <2>1 DEF Counts!Share, c
<1> HIDE DEF i
<1>5. /\ r = [m_counts |-> r.m_counts, info |-> r.info, used |-> r.used]
      /\ r.m_counts = [s.m_counts EXCEPT ![n] = i]
      /\ r.info = c.info /\ r.used = s.used
  BY <1>3, <1>4
<1>6. /\ \A m \in Node : r.m_counts[m] = IF m = n THEN i ELSE s.m_counts[m]
      /\ r.m_counts \in [Node -> Info \cup {NoInfo}]
  BY <1>1, <1>2, <1>5
<1>7. r \in Counts!OwnType
  BY <1>1, <1>3, <1>5, <1>6 DEF Counts!OwnType, InfoType
<1>8. /\ r.m_counts[n] = i
      /\ \A m \in M : r.m_counts[m] = s.m_counts[m] /\ s.m_counts[m] \in Info
  BY <1>1, <1>6
<1>9. /\ Sharers(r, L, n) = Sharers(s, M, q) \cup {n}
      /\ \A m \in M : s.m_counts[m] = i => Sharers(r, L, m) = Sharers(s, M, m) \cup {n}
      /\ \A m \in M : s.m_counts[m] # i => Sharers(r, L, m) = Sharers(s, M, m)
      /\ \A m \in M : s.m_counts[m] = i => Sharers(s, M, m) = Sharers(s, M, q)
      /\ \A m \in M : q \in Sharers(s, M, m) <=> s.m_counts[m] = i
  BY <1>8 DEF Sharers, i
<1>10. r.used = {r.m_counts[m] : m \in L}
  <2>1. s.used = {s.m_counts[m] : m \in M}
    BY DEF CountsGood
  <2>2. i \in {s.m_counts[m] : m \in M}
    BY DEF i
  <2> QED
    BY <1>5, <1>8, <2>1, <2>2
<1>11. /\ r.info[i].strong = Cardinality((Sharers(s, M, q) \cup {n}) \cap Strong)
       /\ r.info[i].weak = Cardinality((Sharers(s, M, q) \cup {n}) \ Strong)
  <2> DEFINE S == Sharers(s, M, q)
  <2>1. IsFiniteSet(S) /\ n \notin S
    BY <1>1, FS_Subset DEF Sharers
  <2>2. s.info[i].strong = Cardinality(S \cap Strong) /\ s.info[i].weak = Cardinality(S \ Strong)
    BY DEF CountsGood, i
  <2> HIDE DEF S
  <2>3. /\ Cardinality((S \cup {n}) \cap Strong) =
             IF n \in Strong THEN Cardinality(S \cap Strong) + 1 ELSE Cardinality(S \cap Strong)
        /\ Cardinality((S \cup {n}) \ Strong) =
             IF n \in Strong THEN Cardinality(S \ Strong) ELSE Cardinality(S \ Strong) + 1
    BY <2>1, OneMore
  <2>4. Cardinality((S \cup {n}) \cap Strong) = r.info[i].strong
    BY <1>2, <1>3, <1>5, <2>2, <2>3 DEF i
  <2>5. Cardinality((S \cup {n}) \ Strong) = r.info[i].weak
    BY <1>2, <1>3, <1>5, <2>2, <2>3 DEF i
  <2> QED
    BY <2>4, <2>5 DEF S
<1>12. ASSUME NEW m \in L
       PROVE  /\ r.info[r.m_counts[m]].strong = Cardinality(Sharers(r, L, m) \cap Strong)
              /\ r.info[r.m_counts[m]].weak = Cardinality(Sharers(r, L, m) \ Strong)
  <2>1. CASE m = n
    BY <1>8, <1>9, <1>11, <2>1
  <2>2. CASE m \in M /\ s.m_counts[m] = i
    BY <1>8, <1>9, <1>11, <2>2
  <2>3. CASE m \in M /\ s.m_counts[m] # i
    <3>1. /\ r.info[r.m_counts[m]].strong = s.info[s.m_counts[m]].strong
          /\ r.info[r.m_counts[m]].weak = s.info[s.m_counts[m]].weak
      BY <1>3, <1>5, <1>8, <2>3
    <3> QED
      BY <1>9, <2>3, <3>1 DEF CountsGood
  <2> QED
    BY <2>1, <2>2, <2>3
<1>13. CountsGood(r, L)
  BY <1>1, <1>7, <1>10, <1>12 DEF CountsGood
<1>14. \A j \in Info : r.info[j].pointer = s.info[j].pointer
  BY <1>3, <1>5
<1>15. Counts!GetPointer(r, n) = Counts!GetPointer(s, q)
  BY <1>2, <1>8, <1>14 DEF Counts!GetPointer, Counts!InfoOf, i
<1>16. \A m \in M : Counts!GetPointer(r, m) = Counts!GetPointer(s, m)
  BY <1>8, <1>14 DEF Counts!GetPointer, Counts!InfoOf
<1>17. Good(r, L)
  BY <1>13, WhichPolicy
<1>18. /\ \A m : Mates(r, L, m) = Sharers(r, L, m)
       /\ \A m : OP_GetPointer(r, m) = Counts!GetPointer(r, m)
  BY <1>13, CountsMates
<1>19. /\ \A m : Mates(s, M, m) = Sharers(s, M, m)
       /\ \A m : OP_GetPointer(s, m) = Counts!GetPointer(s, m)
  BY CountsMates
<1>20. ASSUME NEW m \in M
       PROVE  Mates(r, L, m) =
                IF q \in Mates(s, M, m) THEN Mates(s, M, m) \cup {n} ELSE Mates(s, M, m)
  <2>1. q \in Mates(s, M, m) <=> s.m_counts[m] = i
    BY <1>9, <1>19
  <2>2. CASE s.m_counts[m] = i
    BY <1>9, <1>18, <1>19, <2>1, <2>2
  <2>3. CASE s.m_counts[m] # i
    BY <1>9, <1>18, <1>19, <2>1, <2>3
  <2> QED
    BY <2>2, <2>3
<1>21. Mates(r, L, n) = Mates(s, M, q) \cup {n}
  BY <1>9, <1>18, <1>19
<1>22. /\ OP_GetPointer(r, n) = OP_GetPointer(s, q)
       /\ \A m \in M : OP_GetPointer(r, m) = OP_GetPointer(s, m)
  BY <1>15, <1>16, <1>18, <1>19
<1>23. QED
  BY <1>17, <1>20, <1>21, <1>22 DEF Shared, L

\* What ~StrongPtr makes of the records.
CountsLeft(s, n) ==
  LET released == Counts!Release(s, n, n \in Strong) IN
  Counts!Forget(IF released.last THEN Counts!ZapPointer(released.own, n) ELSE released.own, n)

(* Decrement leaves the counts of the others that share the record.         *)
LEMMA CountsReleased ==
  ASSUME NEW s, NEW M, CountsGood(s, M), NEW n \in M
  PROVE  LET i == s.m_counts[n]
             c == Counts!Counted(s, i, n \in Strong, -1)
             T == Sharers(s, M, n) \ {n}
         IN
         /\ c = [m_counts |-> s.m_counts, info |-> c.info, used |-> s.used]
         /\ c.info \in [Info -> InfoType]
         /\ \A j \in Info : c.info[j].pointer = s.info[j].pointer
         /\ \A j \in Info \ {i} : c.info[j] = s.info[j]
         /\ c.info[i].strong = Cardinality(T \cap Strong)
         /\ c.info[i].weak = Cardinality(T \ Strong)
         /\ c.info[i].strong > 0 <=> \E m \in T : m \in Strong
         /\ c.info[i].weak > 0 <=> \E m \in T : m \notin Strong
<1> DEFINE i == s.m_counts[n]
           c == Counts!Counted(s, i, n \in Strong, -1)
           S == Sharers(s, M, n)
           T == S \ {n}
<1>1. /\ s.m_counts \in [Node -> Info \cup {NoInfo}]
      /\ s.info \in [Info -> InfoType]
      /\ s.used \in SUBSET Info
      /\ M \in SUBSET Node /\ IsFiniteSet(M)
      /\ \A m \in M : s.m_counts[m] \in s.used
      /\ \A j \in Info : s.info[j].strong \in Nat /\ s.info[j].weak \in Nat
  BY CountsFields
<1>2. i \in Info /\ i \in s.used
  BY <1>1
<1>3. IsFiniteSet(S) /\ n \in S
  BY <1>1, FS_Subset DEF Sharers
<1>4. s.info[i].strong = Cardinality(S \cap Strong) /\ s.info[i].weak = Cardinality(S \ Strong)
  BY DEF CountsGood
<1> HIDE DEF S
<1>5. /\ Cardinality(T \cap Strong) \in Nat /\ Cardinality(T \ Strong) \in Nat
      /\ Cardinality(S \cap Strong) =
           IF n \in Strong THEN Cardinality(T \cap Strong) + 1 ELSE Cardinality(T \cap Strong)
      /\ Cardinality(S \ Strong) =
           IF n \in Strong THEN Cardinality(T \ Strong) ELSE Cardinality(T \ Strong) + 1
  BY <1>3, OneLess
<1>6. /\ Cardinality(T \cap Strong) = 0 <=> T \cap Strong = {}
      /\ Cardinality(T \ Strong) = 0 <=> T \ Strong = {}
  <2>1. IsFiniteSet(T \cap Strong) /\ IsFiniteSet(T \ Strong)
    BY <1>3, FS_Subset
  <2> QED
    BY <2>1, FS_EmptySet
<1> HIDE DEF T
<1>7. /\ i \in Info /\ -1 \in Int
      /\ n \in Strong => s.info[i].strong + (-1) \in Nat
      /\ n \notin Strong => s.info[i].weak + (-1) \in Nat
  BY <1>2, <1>4, <1>5
<1>8. /\ c = [m_counts |-> s.m_counts, info |-> c.info, used |-> s.used]
      /\ c.info \in [Info -> InfoType]
      /\ \A j \in Info :
           /\ c.info[j].pointer = s.info[j].pointer
           /\ c.info[j].strong = IF j = i /\ n \in Strong THEN s.info[j].strong + (-1) ELSE s.info[j].strong
           /\ c.info[j].weak = IF j = i /\ n \notin Strong THEN s.info[j].weak + (-1) ELSE s.info[j].weak
  <2> HIDE DEF i
  <2> QED
    BY <1>7, CountedIs
<1> HIDE DEF c, i
<1>9. c.info[i].strong = Cardinality(T \cap Strong) /\ c.info[i].weak = Cardinality(T \ Strong)
  BY <1>2, <1>4, <1>5, <1>8
<1>10. \A j \in Info \ {i} : c.info[j] = s.info[j]
  <2>1. ASSUME NEW j \in Info \ {i} PROVE c.info[j] = s.info[j]
    <3>1. c.info[j] \in InfoType /\ s.info[j] \in InfoType
      BY <1>1, <1>8
    <3>2. /\ c.info[j].pointer = s.info[j].pointer
          /\ c.info[j].strong = s.info[j].strong /\ c.info[j].weak = s.info[j].weak
      BY <1>8
    <3> QED
      BY <3>1, <3>2 DEF InfoType
  <2> QED
    BY <2>1
<1>11. /\ c.info[i].strong > 0 <=> \E m \in T : m \in Strong
       /\ c.info[i].weak > 0 <=> \E m \in T : m \notin Strong
  BY <1>5, <1>6, <1>9
<1> QED
  BY <1>8, <1>9, <1>10, <1>11 DEF c, i, T, S

(* ~StrongPtr: the pointer leaves its record; if it was the last strong one *)
(* there, the record leads to nothing, and it is freed with the last one.   *)
LEMMA CountsLeftOK ==
  ASSUME NEW s, NEW M, CountsGood(s, M), NEW n \in M,
         NEW released, released = Counts!Release(s, n, n \in Strong),
         NEW r, r = CountsLeft(s, n)
  PROVE  /\ released.last <=> IsLast(s, M, n)
         /\ Counts!GetPointer(released.own, n) = Counts!GetPointer(s, n)
         /\ Gone(s, r, M, n)
<1> DEFINE i == s.m_counts[n]
           c == Counts!Counted(s, i, n \in Strong, -1)
           T == Sharers(s, M, n) \ {n}
           last == \A m \in T : m \notin Strong
           L == M \ {n}
<1>1. IsLast(s, M, n) <=> last
  BY CountsMates DEF IsLast
<1>2. /\ s.m_counts \in [Node -> Info \cup {NoInfo}]
      /\ s.info \in [Info -> InfoType]
      /\ s.used \in SUBSET Info
      /\ M \in SUBSET Node /\ IsFiniteSet(M)
      /\ \A m \in M : s.m_counts[m] \in s.used
  BY CountsFields
<1>3. i \in Info /\ i \in s.used /\ i # NoInfo /\ n \in Node
  BY <1>2, InfoAssumption
<1>4. /\ c = [m_counts |-> s.m_counts, info |-> c.info, used |-> s.used]
      /\ c.info \in [Info -> InfoType]
      /\ \A j \in Info : c.info[j].pointer = s.info[j].pointer
      /\ \A j \in Info \ {i} : c.info[j] = s.info[j]
      /\ c.info[i].strong = Cardinality(T \cap Strong)
      /\ c.info[i].weak = Cardinality(T \ Strong)
      /\ c.info[i].strong > 0 <=> \E m \in T : m \in Strong
      /\ c.info[i].weak > 0 <=> \E m \in T : m \notin Strong
  BY CountsReleased
<1>5. released = [own |-> c, last |-> ~Counts!HasStrongPointer(c, n)]
  BY DEF Counts!Release
<1> HIDE DEF c
<1>6. c.m_counts = s.m_counts /\ c.used = s.used
  BY <1>4
<1>7. Counts!HasStrongPointer(c, n) <=> ~last
  BY <1>4, <1>6 DEF Counts!HasStrongPointer, Counts!InfoOf
<1>8. released.own = c /\ released.last = last
  <2>1. released.own = c /\ released.last = ~Counts!HasStrongPointer(c, n)
    BY <1>5
  <2>2. last \in BOOLEAN /\ Counts!HasStrongPointer(c, n) \in BOOLEAN
    BY DEF Counts!HasStrongPointer
  <2> HIDE DEF last
  <2> QED
    BY <1>7, <2>1, <2>2
<1>9. Counts!GetPointer(c, n) = Counts!GetPointer(s, n)
  BY <1>3, <1>4, <1>6 DEF Counts!GetPointer, Counts!InfoOf
<1> DEFINE left == IF last THEN Counts!ZapPointer(c, n) ELSE c
<1>10. r = Counts!Forget(left, n)
  BY <1>8 DEF CountsLeft
<1> HIDE DEF i, T
\* What each field is.
<1>11. /\ left = [m_counts |-> left.m_counts, info |-> left.info, used |-> left.used]
       /\ left.m_counts \in {s.m_counts, [s.m_counts EXCEPT ![n] = NoInfo]}
       /\ left.info \in [Info -> InfoType]
       /\ \A j \in Info \ {i} : left.info[j] = s.info[j]
       /\ T # {} => /\ left.info[i].strong = c.info[i].strong
                    /\ left.info[i].weak = c.info[i].weak
                    /\ left.info[i].pointer = IF last THEN NoObject ELSE s.info[i].pointer
       /\ left.used = IF T = {} THEN s.used \ {i} ELSE s.used
  <2>1. CASE ~last
    <3>1. left = c /\ T # {}
      BY <2>1
    <3> HIDE DEF left
    <3> QED
      BY <1>3, <1>4, <1>6, <2>1, <3>1
  <2>2. CASE last /\ Counts!HasWeakPointer(c, n)
    <3> DEFINE x == [c.info[i] EXCEPT !.pointer = NoObject]
               f == [c.info EXCEPT ![i] = x]
    <3>1. T # {}
      BY <1>4, <1>6, <2>2 DEF Counts!HasWeakPointer, Counts!InfoOf, i
    <3>2. left = [c EXCEPT !.info = f]
      <4>1. left = Counts!SetPointer(c, n, NoObject)
        BY <2>2 DEF Counts!ZapPointer
      <4> HIDE DEF left
      <4> QED
        BY <1>4, <1>6, <4>1 DEF Counts!SetPointer, i
    <3>3. /\ x \in InfoType /\ x.pointer = NoObject
          /\ x.strong = c.info[i].strong /\ x.weak = c.info[i].weak
      BY <1>3, <1>4 DEF InfoType
    <3> HIDE DEF x, left
    <3>4. f \in [Info -> InfoType] /\ \A j \in Info : f[j] = IF j = i THEN x ELSE c.info[j]
      BY <1>3, <1>4, <3>3
    <3> HIDE DEF f
    <3>5. left = [m_counts |-> s.m_counts, info |-> f, used |-> s.used]
      BY <1>4, <3>2
    <3>6. left.m_counts = s.m_counts /\ left.info = f /\ left.used = s.used
      BY <3>5
    <3>7. \A j \in Info \ {i} : f[j] = s.info[j]
      BY <1>4, <3>4
    <3> QED
      BY <1>3, <2>2, <3>1, <3>3, <3>4, <3>5, <3>6, <3>7
  <2>3. CASE last /\ ~Counts!HasWeakPointer(c, n)
    <3> DEFINE f == [c.info EXCEPT ![i] = Counts!Unused]
               g == [s.m_counts EXCEPT ![n] = NoInfo]
    <3>1. T = {}
      BY <1>4, <1>6, <2>3 DEF Counts!HasWeakPointer, Counts!InfoOf, i
    <3>2. left = [m_counts |-> g, info |-> f, used |-> s.used \ {i}]
      BY <1>6, <2>3 DEF Counts!ZapPointer, i
    <3>3. Counts!Unused \in InfoType
      BY DEF Counts!Unused, InfoType
    <3> HIDE DEF left
    <3>4. f \in [Info -> InfoType] /\ \A j \in Info : j # i => f[j] = c.info[j]
      BY <1>3, <1>4, <3>3
    <3> HIDE DEF f
    <3>5. left.m_counts = g /\ left.info = f /\ left.used = s.used \ {i}
      BY <3>2
    <3>6. \A j \in Info \ {i} : f[j] = s.info[j]
      BY <1>4, <3>4
    <3> QED
      BY <3>1, <3>2, <3>4, <3>5, <3>6
  <2> QED
    BY <2>1, <2>2, <2>3
<1> HIDE DEF left
<1>12. /\ r = [m_counts |-> r.m_counts, info |-> left.info, used |-> left.used]
       /\ r.m_counts = [s.m_counts EXCEPT ![n] = NoInfo]
       /\ r.info = left.info /\ r.used = left.used
  <2>1. r = [left EXCEPT !.m_counts = [left.m_counts EXCEPT ![n] = NoInfo]]
    BY <1>10, <1>11 DEF Counts!Forget
  <2>2. [left.m_counts EXCEPT ![n] = NoInfo] = [s.m_counts EXCEPT ![n] = NoInfo]
    BY <1>2, <1>11
  <2> QED
    BY <1>11, <2>1, <2>2
<1>13. \A m \in L : r.m_counts[m] = s.m_counts[m] /\ s.m_counts[m] \in Info /\ m \in Node
  BY <1>2, <1>12
<1>14. \A m \in L : Sharers(r, L, m) = Sharers(s, M, m) \ {n}
  BY <1>13 DEF Sharers
<1>15. \A m \in L : s.m_counts[m] = i <=> m \in T
  BY DEF i, T, Sharers
<1>16. r \in Counts!OwnType
  <2>1. r.used \in SUBSET Info
    BY <1>2, <1>11, <1>12
  <2>2. r.m_counts \in [Node -> Info \cup {NoInfo}]
    BY <1>2, <1>12
  <2> QED
    BY <1>11, <1>12, <2>1, <2>2 DEF Counts!OwnType, InfoType
<1>17. r.used = {r.m_counts[m] : m \in L}
  <2>1. s.used = {s.m_counts[m] : m \in M}
    BY DEF CountsGood
  <2>2. {r.m_counts[m] : m \in L} = {s.m_counts[m] : m \in L}
    BY <1>13
  <2>3. CASE T = {}
    <3>1. \A m \in L : s.m_counts[m] # i
      BY <1>15, <2>3
    <3>2. {s.m_counts[m] : m \in L} = s.used \ {i}
      BY <2>1, <3>1 DEF i
    <3> QED
      BY <1>11, <1>12, <2>2, <2>3, <3>2
  <2>4. CASE T # {}
    <3>1. PICK t \in T : TRUE
      BY <2>4
    <3>2. t \in L /\ s.m_counts[t] = i
      BY <3>1 DEF T, Sharers, i
    <3>3. {s.m_counts[m] : m \in L} = s.used
      BY <2>1, <3>2 DEF i
    <3> QED
      BY <1>11, <1>12, <2>2, <2>4, <3>3
  <2> QED
    BY <2>3, <2>4
<1>18. ASSUME NEW m \in L
       PROVE  /\ r.info[r.m_counts[m]].strong = Cardinality(Sharers(r, L, m) \cap Strong)
              /\ r.info[r.m_counts[m]].weak = Cardinality(Sharers(r, L, m) \ Strong)
              /\ Counts!GetPointer(r, m) = IF last /\ m \in T THEN NoObject
                                           ELSE Counts!GetPointer(s, m)
  <2>1. CASE m \in T
    <3>1. T # {} /\ r.m_counts[m] = i
      BY <1>13, <1>15, <2>1
    <3>2. Sharers(r, L, m) = T
      <4>1. Sharers(s, M, m) = Sharers(s, M, n)
        BY <1>15, <2>1 DEF Sharers, i
      <4> QED
        BY <1>14, <4>1 DEF T
    <3>3. Counts!GetPointer(s, m) = s.info[i].pointer
      BY <1>15, <2>1 DEF Counts!GetPointer, Counts!InfoOf
    <3>4. Counts!GetPointer(r, m) = r.info[i].pointer
      BY <3>1 DEF Counts!GetPointer, Counts!InfoOf
    <3>5. /\ r.info[i].strong = Cardinality(T \cap Strong)
          /\ r.info[i].weak = Cardinality(T \ Strong)
          /\ r.info[i].pointer = IF last THEN NoObject ELSE s.info[i].pointer
      BY <1>4, <1>11, <1>12, <3>1
    <3> QED
      BY <2>1, <3>1, <3>2, <3>3, <3>4, <3>5
  <2>2. CASE m \notin T
    <3>1. s.m_counts[m] # i /\ r.m_counts[m] = s.m_counts[m] /\ s.m_counts[m] \in Info
      BY <1>13, <1>15, <2>2
    <3>2. r.info[r.m_counts[m]] = s.info[s.m_counts[m]]
      BY <1>11, <1>12, <3>1
    <3>3. Sharers(r, L, m) = Sharers(s, M, m)
      <4>1. n \notin Sharers(s, M, m)
        BY <3>1 DEF Sharers, i
      <4> QED
        BY <1>14, <4>1
    <3>4. /\ s.info[s.m_counts[m]].strong = Cardinality(Sharers(s, M, m) \cap Strong)
          /\ s.info[s.m_counts[m]].weak = Cardinality(Sharers(s, M, m) \ Strong)
      BY DEF CountsGood
    <3>5. Counts!GetPointer(r, m) = Counts!GetPointer(s, m)
      BY <3>2 DEF Counts!GetPointer, Counts!InfoOf
    <3> QED
      BY <2>2, <3>2, <3>3, <3>4, <3>5
  <2> QED
    BY <2>1, <2>2
<1>19. CountsGood(r, L)
  BY <1>2, <1>16, <1>17, <1>18 DEF CountsGood
<1>20. \A m \in L : m \in T <=> m \in Sharers(s, M, n)
  BY DEF T
<1>21. released.last = last /\ Counts!GetPointer(released.own, n) = Counts!GetPointer(s, n)
  BY <1>8, <1>9
<1>22. Good(r, L)
  BY <1>19, WhichPolicy
<1>23. ASSUME NEW m \in L
       PROVE  IF IsLast(s, M, n) /\ m \in Mates(s, M, n) THEN OP_GetPointer(r, m) = NoObject
              ELSE /\ OP_GetPointer(r, m) = OP_GetPointer(s, m)
                   /\ Mates(r, L, m) = Mates(s, M, m) \ {n}
  <2>1. Mates(r, L, m) = Sharers(r, L, m) /\ OP_GetPointer(r, m) = Counts!GetPointer(r, m)
    BY <1>19, CountsMates
  <2>2. /\ Mates(s, M, m) = Sharers(s, M, m) /\ Mates(s, M, n) = Sharers(s, M, n)
        /\ OP_GetPointer(s, m) = Counts!GetPointer(s, m)
    BY CountsMates
  <2> QED
    BY <1>1, <1>14, <1>18, <1>20, <2>1, <2>2
<1>24. StayOrPart(s, r, M, n)
  <2>1. \A m : Mates(r, L, m) = Sharers(r, L, m) /\ Mates(s, M, m) = Sharers(s, M, m)
    BY <1>19, CountsMates
  <2>2. \A m \in L : Sharers(r, L, m) = Sharers(s, M, m) \ {n}
    BY <1>14, <1>18
  <2> QED
    BY <2>1, <2>2 DEF StayOrPart
<1> QED
  BY <1>1, <1>21, <1>22, <1>23, <1>24 DEF Gone

(* How many of a set are of one kind does not change when two of one kind   *)
(* are exchanged.                                                           *)
LEMMA ExchangedCount ==
  ASSUME NEW S, IsFiniteSet(S), NEW a, NEW b, a \in Strong <=> b \in Strong
  PROVE  /\ Cardinality(Places(a, b, S) \cap Strong) = Cardinality(S \cap Strong)
         /\ Cardinality(Places(a, b, S) \ Strong) = Cardinality(S \ Strong)
<1> DEFINE O(k) == Other(a, b, k)
           T == Places(a, b, S)
<1>1. \A k : O(O(k)) = k /\ (O(k) \in Strong <=> k \in Strong)
  BY DEF Other
<1> HIDE DEF O
<1>2. T = {O(k) : k \in S}
  BY DEF O, Places
<1> HIDE DEF T
<1>3. ASSUME NEW U, IsFiniteSet(U), NEW V, V = {O(k) : k \in U}
      PROVE  Cardinality(V) = Cardinality(U)
  <2> DEFINE f == [k \in U |-> O(k)]
  <2>1. f \in Bijection(U, V)
    BY <1>1, <1>3 DEF Bijection, Injection, Surjection, IsInjective
  <2>2. IsFiniteSet(U) /\ ExistsBijection(U, V)
    BY <1>3, <2>1 DEF ExistsBijection
  <2> HIDE DEF f
  <2> QED
    BY <2>2, FS_Bijection
<1>4. T \cap Strong = {O(k) : k \in S \cap Strong}
  BY <1>2, <1>1
<1>5. T \ Strong = {O(k) : k \in S \ Strong}
  BY <1>2, <1>1
<1>6. IsFiniteSet(S \cap Strong) /\ IsFiniteSet(S \ Strong)
  BY FS_Subset
<1>7. Cardinality(T \cap Strong) = Cardinality(S \cap Strong)
  BY <1>3, <1>4, <1>6
<1>8. Cardinality(T \ Strong) = Cardinality(S \ Strong)
  BY <1>3, <1>5, <1>6
<1> QED
  BY <1>7, <1>8 DEF T

\* TwoRefCounts::Swap: the records change hands.
LEMMA CountsSwapOK ==
  ASSUME NEW s, NEW M, CountsGood(s, M), NEW a \in M, NEW b \in M, a \in Strong <=> b \in Strong,
         NEW r, r = Counts!Swap(s, a, b)
  PROVE  Swapped(s, r, M, a, b)
<1> DEFINE O(m) == Other(a, b, m)
<1>1. /\ s.m_counts \in [Node -> Info \cup {NoInfo}]
      /\ s.info \in [Info -> InfoType]
      /\ s.used \in SUBSET Info
      /\ M \in SUBSET Node /\ IsFiniteSet(M)
      /\ s = [m_counts |-> s.m_counts, info |-> s.info, used |-> s.used]
      /\ \A m \in M : s.m_counts[m] \in s.used
  BY CountsFields
<1>2. /\ r = [m_counts |-> r.m_counts, info |-> s.info, used |-> s.used]
      /\ r.m_counts = [s.m_counts EXCEPT ![a] = s.m_counts[b], ![b] = s.m_counts[a]]
      /\ r.info = s.info /\ r.used = s.used
  <2> DEFINE c == s.m_counts
             d == [c EXCEPT ![a] = c[b]]
             e == [d EXCEPT ![b] = c[a]]
  <2>1. r = [[s EXCEPT !.m_counts = d] EXCEPT !.m_counts = e]
    BY <1>1 DEF Counts!Swap
  <2> HIDE DEF d, e
  <2>2. r = [m_counts |-> e, info |-> s.info, used |-> s.used]
    BY <1>1, <2>1
  <2>3. e = [s.m_counts EXCEPT ![a] = s.m_counts[b], ![b] = s.m_counts[a]]
    BY <1>1 DEF d, e
  <2> QED
    BY <2>2, <2>3
<1>3. /\ \A m \in M : O(O(m)) = m /\ O(m) \in M
      /\ \A m \in M : r.m_counts[O(m)] = s.m_counts[m] /\ r.m_counts[m] = s.m_counts[O(m)]
      /\ r.m_counts \in [Node -> Info \cup {NoInfo}]
  BY <1>1, <1>2 DEF Other
<1>4. r \in Counts!OwnType
  BY <1>1, <1>2, <1>3 DEF Counts!OwnType, InfoType
<1> HIDE DEF O
<1>5. \A m \in M : Sharers(r, M, O(m)) = {O(k) : k \in Sharers(s, M, m)}
  BY <1>3 DEF Sharers
<1>6. r.used = {r.m_counts[m] : m \in M}
  <2>1. s.used = {s.m_counts[m] : m \in M}
    BY DEF CountsGood
  <2> QED
    BY <1>2, <1>3, <2>1
<1>7. ASSUME NEW m \in M
      PROVE  /\ r.info[r.m_counts[m]].strong = Cardinality(Sharers(r, M, m) \cap Strong)
             /\ r.info[r.m_counts[m]].weak = Cardinality(Sharers(r, M, m) \ Strong)
  <2> DEFINE k == O(m)
             S == Sharers(s, M, k)
  <2>1. k \in M /\ O(k) = m
    BY <1>3
  <2>2. Sharers(r, M, m) = {O(j) : j \in S}
    BY <1>5, <2>1
  <2>3. IsFiniteSet(S)
    BY <1>1, FS_Subset DEF Sharers
  <2>4. r.info[r.m_counts[m]] = s.info[s.m_counts[k]]
    BY <1>2, <1>3
  <2>5. /\ s.info[s.m_counts[k]].strong = Cardinality(S \cap Strong)
        /\ s.info[s.m_counts[k]].weak = Cardinality(S \ Strong)
    BY <2>1 DEF CountsGood
  <2> HIDE DEF S, k
  <2>6. Sharers(r, M, m) = Places(a, b, S)
    BY <2>2 DEF O, Places
  <2>7. /\ Cardinality(Places(a, b, S) \cap Strong) = Cardinality(S \cap Strong)
        /\ Cardinality(Places(a, b, S) \ Strong) = Cardinality(S \ Strong)
    BY <2>3, ExchangedCount
  <2> QED
    BY <2>4, <2>5, <2>6, <2>7
<1>8. CountsGood(r, M)
  BY <1>1, <1>4, <1>6, <1>7 DEF CountsGood
<1>9. \A m \in M : Counts!GetPointer(r, O(m)) = Counts!GetPointer(s, m)
  BY <1>2, <1>3 DEF Counts!GetPointer, Counts!InfoOf
<1>10. /\ Good(r, M)
       /\ \A m : Mates(r, M, m) = Sharers(r, M, m) /\ OP_GetPointer(r, m) = Counts!GetPointer(r, m)
       /\ \A m : Mates(s, M, m) = Sharers(s, M, m) /\ OP_GetPointer(s, m) = Counts!GetPointer(s, m)
  BY <1>5, <1>8, <1>9, WhichPolicy, CountsMates
<1>11. QED
  BY <1>5, <1>8, <1>9, <1>10 DEF Swapped, O, Places

\* TwoRefCounts::SetPointer: all that have the record see it.
LEMMA CountsSetPointerOK ==
  ASSUME NEW s, NEW M, CountsGood(s, M), NEW n \in M, NEW p \in Object \cup {NoObject},
         NEW r, r = Counts!SetPointer(s, n, p)
  PROVE  Led(s, r, M, n, p)
<1> DEFINE i == s.m_counts[n]
           x == [s.info[i] EXCEPT !.pointer = p]
           f == [s.info EXCEPT ![i] = x]
<1>1. /\ s.m_counts \in [Node -> Info \cup {NoInfo}]
      /\ s.info \in [Info -> InfoType]
      /\ s.used \in SUBSET Info
      /\ M \in SUBSET Node
      /\ s = [m_counts |-> s.m_counts, info |-> s.info, used |-> s.used]
      /\ \A m \in M : s.m_counts[m] \in s.used
  BY CountsFields
<1>2. i \in Info
  BY <1>1
<1>3. r = [s EXCEPT !.info = f]
  BY <1>1 DEF Counts!SetPointer
<1>4. /\ x \in InfoType /\ x.pointer = p
      /\ x.strong = s.info[i].strong /\ x.weak = s.info[i].weak
  BY <1>1, <1>2 DEF InfoType
<1> HIDE DEF x
<1>5. f \in [Info -> InfoType] /\ \A j \in Info : f[j] = IF j = i THEN x ELSE s.info[j]
  BY <1>1, <1>2, <1>4
<1> HIDE DEF f
<1>6. /\ r = [m_counts |-> r.m_counts, info |-> f, used |-> r.used]
      /\ r.m_counts = s.m_counts /\ r.info = f /\ r.used = s.used
  BY <1>1, <1>3
<1>7. r \in Counts!OwnType
  BY <1>1, <1>5, <1>6 DEF Counts!OwnType, InfoType
<1>8. \A m \in M : Sharers(r, M, m) = Sharers(s, M, m)
  BY <1>6 DEF Sharers
<1>9. \A j \in Info : f[j].strong = s.info[j].strong /\ f[j].weak = s.info[j].weak
  BY <1>4, <1>5
<1>10. CountsGood(r, M)
  <2>1. r.used = {r.m_counts[m] : m \in M}
    BY <1>6 DEF CountsGood
  <2>2. ASSUME NEW m \in M
        PROVE  /\ r.info[r.m_counts[m]].strong = Cardinality(Sharers(r, M, m) \cap Strong)
               /\ r.info[r.m_counts[m]].weak = Cardinality(Sharers(r, M, m) \ Strong)
    <3>1. r.m_counts[m] = s.m_counts[m] /\ s.m_counts[m] \in Info
      BY <1>1, <1>6
    <3>2. /\ r.info[r.m_counts[m]].strong = s.info[s.m_counts[m]].strong
          /\ r.info[r.m_counts[m]].weak = s.info[s.m_counts[m]].weak
      BY <1>6, <1>9, <3>1
    <3> QED
      BY <1>8, <3>2 DEF CountsGood
  <2> QED
    BY <1>1, <1>7, <2>1, <2>2 DEF CountsGood
<1>11. ASSUME NEW m \in M
       PROVE  Counts!GetPointer(r, m) = IF m \in Sharers(s, M, n) THEN p ELSE Counts!GetPointer(s, m)
  <2>1. m \in Sharers(s, M, n) <=> s.m_counts[m] = i
    BY DEF Sharers, i
  <2>2. s.m_counts[m] \in Info
    BY <1>1
  <2> QED
    BY <1>4, <1>5, <1>6, <2>1, <2>2 DEF Counts!GetPointer, Counts!InfoOf
<1>12. /\ Good(r, M)
       /\ \A m : Mates(r, M, m) = Sharers(r, M, m) /\ OP_GetPointer(r, m) = Counts!GetPointer(r, m)
       /\ \A m : Mates(s, M, m) = Sharers(s, M, m) /\ OP_GetPointer(s, m) = Counts!GetPointer(s, m)
  BY <1>6, <1>10, <1>11, WhichPolicy, CountsMates
<1>13. QED
  BY <1>8, <1>10, <1>11, <1>12 DEF Led

-----------------------------------------------------------------------------
(* Either policy *)

(* Copointers share one set of copointers and lead to one object.           *)
LEMMA MatesOK ==
  ASSUME NEW s, NEW M, Good(s, M), NEW n \in M
  PROVE  /\ M \in SUBSET Node
         /\ s \in OP_Type
         /\ n \in Mates(s, M, n)
         /\ Mates(s, M, n) \subseteq M
         /\ OP_GetPointer(s, n) \in Object \cup {NoObject}
         /\ \A m \in Mates(s, M, n) : /\ Mates(s, M, m) = Mates(s, M, n)
                                      /\ OP_GetPointer(s, m) = OP_GetPointer(s, n)
<1>1. CASE HasCounts(s)
  <2>1. CountsGood(s, M)
    BY <1>1 DEF Good
  <2>2. /\ M \in SUBSET Node
        /\ \A i \in Info : s.info[i].pointer \in Object \cup {NoObject}
        /\ s.m_counts[n] \in Info
    BY <2>1, CountsFields
  <2>3. s \in OP_Type
    BY <2>1 DEF CountsGood, OP_Type
  <2> QED
    BY <1>1, <2>2, <2>3 DEF Mates, Sharers, OP_GetPointer, Counts!GetPointer, Counts!InfoOf
<1>2. CASE ~HasCounts(s)
  <2>1. LinkedGood(s, M)
    BY <1>2 DEF Good
  <2>2. M \in SUBSET Node /\ Mutual(s.links, M) /\ s \in OP_Type
        /\ s.pointer \in [Node -> Object \cup {NoObject}]
    BY <2>1, LinkedFields DEF LinkedGood, OP_Type
  <2>3. n \in Ring(s.links, n) /\ Ring(s.links, n) \subseteq M
    BY <2>2, RingClosed
  <2>4. \A m \in Ring(s.links, n) : Ring(s.links, m) = Ring(s.links, n)
    <3> DEFINE l == s.links
    <3>1. M \in SUBSET Node /\ Mutual(l, M)
      BY <2>2
    <3> HIDE DEF l
    <3>2. \A m \in Ring(l, n) : Ring(l, m) = Ring(l, n)
      BY <3>1, RingSame
    <3> QED
      BY <3>2 DEF l
  <2>5. \A m \in Ring(s.links, n) : s.pointer[m] = s.pointer[n]
    BY <2>1, LinkedMates
  <2> QED
    BY <1>2, <2>2, <2>3, <2>4, <2>5 DEF Mates, OP_GetPointer, LinkedGetPointer
<1> QED
  BY <1>1, <1>2

\* The constructor from a pointer, of either policy.
LEMMA CreateOK ==
  ASSUME NEW s, NEW M, Good(s, M), Cardinality(M) < Cardinality(Info),
         NEW n \in Node \ M, NEW p \in Object \cup {NoObject},
         NEW r, r = OP_Create(s, n, p, n \in Strong)
  PROVE  Created(s, r, M, n, p)
<1>1. CASE HasCounts(s)
  <2>1. CountsGood(s, M) /\ r = Counts!Create(s, n, p, n \in Strong)
    BY <1>1 DEF Good, OP_Create
  <2>2. QED
    BY <2>1, CountsCreateOK
<1>2. CASE ~HasCounts(s)
  <2>1. LinkedGood(s, M) /\ r = LinkedCreate(s, n, p, n \in Strong)
    BY <1>2 DEF Good, OP_Create
  <2>2. QED
    BY <2>1, LinkedCreateOK
<1> QED
  BY <1>1, <1>2

\* The copy constructor, of either policy.
LEMMA ShareOK ==
  ASSUME NEW s, NEW M, Good(s, M), NEW n \in Node \ M, NEW q \in M,
         NEW r, r = OP_Share(s, n, q, n \in Strong)
  PROVE  Shared(s, r, M, n, q)
<1>1. CASE HasCounts(s)
  <2>1. CountsGood(s, M) /\ r = Counts!Share(s, n, q, n \in Strong)
    BY <1>1 DEF Good, OP_Share
  <2>2. QED
    BY <2>1, CountsShareOK
<1>2. CASE ~HasCounts(s)
  <2>1. LinkedGood(s, M) /\ r = LinkedShare(s, n, q, n \in Strong)
    BY <1>2 DEF Good, OP_Share
  <2>2. QED
    BY <2>1, LinkedShareOK
<1> QED
  BY <1>1, <1>2

\* Swap, of either policy, between pointers of one strength.
LEMMA SwapOK ==
  ASSUME NEW s, NEW M, Good(s, M), NEW a \in M, NEW b \in M,
         a \in Strong <=> b \in Strong,
         NEW r, r = OP_Swap(s, a, b)
  PROVE  Swapped(s, r, M, a, b)
<1>1. CASE HasCounts(s)
  <2>1. CountsGood(s, M) /\ r = Counts!Swap(s, a, b)
    BY <1>1 DEF Good, OP_Swap
  <2>2. QED
    BY <2>1, CountsSwapOK
<1>2. CASE ~HasCounts(s)
  <2>1. LinkedGood(s, M) /\ r = LinkedSwap(s, a, b)
    BY <1>2 DEF Good, OP_Swap
  <2>2. QED
    BY <2>1, LinkedSwapOK
<1> QED
  BY <1>1, <1>2

\* SetPointer, of either policy.
LEMMA SetPointerOK ==
  ASSUME NEW s, NEW M, Good(s, M), NEW n \in M, NEW p \in Object \cup {NoObject},
         NEW r, r = OP_SetPointer(s, n, p)
  PROVE  Led(s, r, M, n, p)
<1>1. CASE HasCounts(s)
  <2>1. CountsGood(s, M) /\ r = Counts!SetPointer(s, n, p)
    BY <1>1 DEF Good, OP_SetPointer
  <2>2. QED
    BY <2>1, CountsSetPointerOK
<1>2. CASE ~HasCounts(s)
  <2>1. LinkedGood(s, M) /\ r = LinkedSetPointer(s, n, p)
    BY <1>2 DEF Good, OP_SetPointer
  <2>2. QED
    BY <2>1, LinkedSetPointerOK
<1> QED
  BY <1>1, <1>2

\* What ~StrongPtr makes of the state of the policy.
Left(s, n) ==
  LET released == OP_Release(s, n, n \in Strong) IN
  OP_Forget(IF released.last THEN OP_ZapPointer(released.own, n) ELSE released.own, n)

\* Release and ZapPointer of TwoRefCounts make states of TwoRefCounts ...
LEMMA CountsStay ==
  ASSUME NEW s \in Counts!OwnType, NEW n, NEW strong
  PROVE  /\ HasCounts(Counts!Release(s, n, strong).own)
         /\ \A c : HasCounts(c) => HasCounts(Counts!ZapPointer(c, n))
<1>1. DOMAIN Counts!Release(s, n, strong).own = DOMAIN s
  BY DEF Counts!Release, Counts!Counted
<1>2. ASSUME NEW c, HasCounts(c) PROVE HasCounts(Counts!ZapPointer(c, n))
  <2>1. CASE Counts!HasWeakPointer(c, n)
    <3>1. DOMAIN Counts!ZapPointer(c, n) = DOMAIN c
      BY <2>1 DEF Counts!ZapPointer, Counts!SetPointer
    <3> QED
      BY <1>2, <3>1 DEF HasCounts
  <2>2. CASE ~Counts!HasWeakPointer(c, n)
    BY <2>2 DEF Counts!ZapPointer, HasCounts
  <2> QED
    BY <2>1, <2>2
<1> QED
  BY <1>1, <1>2, CountsHasCounts DEF HasCounts

\* ... and those of TwoRefLinks states of TwoRefLinks.
LEMMA LinksStay ==
  ASSUME NEW s \in LinkedType, NEW n, NEW strong
  PROVE  /\ ~HasCounts(LinkedRelease(s, n, strong).own)
         /\ \A c : ~HasCounts(c) => ~HasCounts(LinkedZapPointer(c, n))
<1>1. DOMAIN LinkedRelease(s, n, strong).own = DOMAIN s
  BY DEF LinkedRelease
<1>2. ASSUME NEW c PROVE DOMAIN LinkedZapPointer(c, n) = DOMAIN c
  BY DEF LinkedZapPointer
<1> QED
  BY <1>1, <1>2, LinkedHasNoCounts DEF HasCounts

\* Release, and ZapPointer if it was the last strong one, of either policy.
LEMMA LeaveOK ==
  ASSUME NEW s, NEW M, Good(s, M), NEW n \in M,
         NEW released, released = OP_Release(s, n, n \in Strong),
         NEW r, r = Left(s, n)
  PROVE  /\ released.last <=> IsLast(s, M, n)
         /\ OP_GetPointer(released.own, n) = OP_GetPointer(s, n)
         /\ Gone(s, r, M, n)
<1>1. CASE HasCounts(s)
  <2>1. CountsGood(s, M) /\ released = Counts!Release(s, n, n \in Strong)
    BY <1>1 DEF Good, OP_Release
  <2>2. HasCounts(released.own) /\ HasCounts(Counts!ZapPointer(released.own, n))
    BY <2>1, CountsStay DEF CountsGood
  <2>3. r = CountsLeft(s, n)
    BY <1>1, <2>1, <2>2 DEF Left, CountsLeft, OP_Release, OP_ZapPointer, OP_Forget
  <2>4. OP_GetPointer(released.own, n) = Counts!GetPointer(released.own, n)
    BY <2>2 DEF OP_GetPointer
  <2>5. OP_GetPointer(s, n) = Counts!GetPointer(s, n)
    BY <1>1 DEF OP_GetPointer
  <2>6. QED
    BY <2>1, <2>3, <2>4, <2>5, CountsLeftOK
<1>2. CASE ~HasCounts(s)
  <2>1. LinkedGood(s, M) /\ released = LinkedRelease(s, n, n \in Strong)
    BY <1>2 DEF Good, OP_Release
  <2>2. ~HasCounts(released.own) /\ ~HasCounts(LinkedZapPointer(released.own, n))
    BY <2>1, LinksStay DEF LinkedGood
  <2>3. r = LinkedLeft(s, n)
    BY <1>2, <2>1, <2>2 DEF Left, LinkedLeft, OP_Release, OP_ZapPointer, OP_Forget
  <2>4. OP_GetPointer(released.own, n) = released.own.pointer[n]
    BY <2>2 DEF OP_GetPointer, LinkedGetPointer
  <2>5. OP_GetPointer(s, n) = s.pointer[n]
    BY <1>2 DEF OP_GetPointer, LinkedGetPointer
  <2>6. QED
    BY <2>1, <2>3, <2>4, <2>5, LinkedLeftOK
<1> QED
  BY <1>1, <1>2

-----------------------------------------------------------------------------
(* Pointers that lead to one object share it *)

Apart(s, M) ==
  \A a, b \in M : OP_GetPointer(s, a) = OP_GetPointer(s, b) /\ OP_GetPointer(s, a) # NoObject
                    => b \in Mates(s, M, a)

\* A new pointer shares nothing, and what it leads to is new to all others.
LEMMA CreatedApart ==
  ASSUME NEW s, NEW M, Good(s, M), Apart(s, M), NEW n \in Node \ M, NEW p,
         p = NoObject \/ \A m \in M : OP_GetPointer(s, m) # p,
         NEW r, Created(s, r, M, n, p)
  PROVE  Apart(r, M \cup {n})
<1>1. /\ OP_GetPointer(r, n) = p
      /\ \A m \in M : OP_GetPointer(r, m) = OP_GetPointer(s, m)
      /\ Mates(r, M \cup {n}, n) = {n}
      /\ \A m \in M : Mates(r, M \cup {n}, m) = Mates(s, M, m)
  BY DEF Created
<1>2. \A a, b \in M : OP_GetPointer(s, a) = OP_GetPointer(s, b) /\ OP_GetPointer(s, a) # NoObject
                        => b \in Mates(s, M, a)
  BY DEF Apart
<1>3. SUFFICES ASSUME NEW a \in M \cup {n}, NEW b \in M \cup {n},
                      OP_GetPointer(r, a) = OP_GetPointer(r, b), OP_GetPointer(r, a) # NoObject
               PROVE  b \in Mates(r, M \cup {n}, a)
  BY DEF Apart
<1>4. CASE a \in M /\ b \in M
  BY <1>1, <1>2, <1>3, <1>4
<1>5. CASE a = n /\ b = n
  BY <1>1, <1>5
<1>6. CASE (a = n /\ b \in M) \/ (b = n /\ a \in M)
  BY <1>1, <1>3, <1>6
<1> QED
  BY <1>4, <1>5, <1>6

\* A copy shares with those that its source shares with.
LEMMA SharedApart ==
  ASSUME NEW s, NEW M, Good(s, M), Apart(s, M), NEW n \in Node \ M, NEW q \in M,
         NEW r, Shared(s, r, M, n, q)
  PROVE  Apart(r, M \cup {n})
<1>1. /\ OP_GetPointer(r, n) = OP_GetPointer(s, q)
      /\ \A m \in M : OP_GetPointer(r, m) = OP_GetPointer(s, m)
      /\ Mates(r, M \cup {n}, n) = Mates(s, M, q) \cup {n}
      /\ \A m \in M : Mates(s, M, m) \subseteq Mates(r, M \cup {n}, m)
      /\ \A m \in M : q \in Mates(s, M, m) => n \in Mates(r, M \cup {n}, m)
  BY DEF Shared
<1>2. \A a, b \in M : OP_GetPointer(s, a) = OP_GetPointer(s, b) /\ OP_GetPointer(s, a) # NoObject
                        => b \in Mates(s, M, a)
  BY DEF Apart
<1>3. SUFFICES ASSUME NEW a \in M \cup {n}, NEW b \in M \cup {n},
                      OP_GetPointer(r, a) = OP_GetPointer(r, b), OP_GetPointer(r, a) # NoObject
               PROVE  b \in Mates(r, M \cup {n}, a)
  BY DEF Apart
<1>4. CASE a \in M /\ b \in M
  BY <1>1, <1>2, <1>3, <1>4
<1>5. CASE a = n /\ b = n
  BY <1>1, <1>5
<1>6. CASE a = n /\ b \in M
  BY <1>1, <1>2, <1>3, <1>6
<1>7. CASE a \in M /\ b = n
  BY <1>1, <1>2, <1>3, <1>7
<1> QED
  BY <1>4, <1>5, <1>6, <1>7

\* Swapping exchanges both what is shared and what is led to.
LEMMA SwappedApart ==
  ASSUME NEW s, NEW M, Apart(s, M), NEW a \in M, NEW b \in M, NEW r, Swapped(s, r, M, a, b)
  PROVE  Apart(r, M)
<1> DEFINE O(m) == Other(a, b, m)
<1>1. \A m \in M : O(m) \in M /\ O(O(m)) = m
  BY OtherTwice
<1>2. /\ \A m \in M : OP_GetPointer(r, O(m)) = OP_GetPointer(s, m)
      /\ \A m \in M : \A k \in Mates(s, M, m) : O(k) \in Mates(r, M, O(m))
  BY DEF Swapped, Places
<1> HIDE DEF O
<1>3. SUFFICES ASSUME NEW x \in M, NEW y \in M,
                      OP_GetPointer(r, x) = OP_GetPointer(r, y), OP_GetPointer(r, x) # NoObject
               PROVE  y \in Mates(r, M, x)
  BY DEF Apart
<1>4. OP_GetPointer(s, O(x)) = OP_GetPointer(r, x) /\ OP_GetPointer(s, O(y)) = OP_GetPointer(r, y)
  BY <1>1, <1>2
<1>5. O(y) \in Mates(s, M, O(x))
  BY <1>1, <1>3, <1>4 DEF Apart
<1>6. O(O(y)) \in Mates(r, M, O(O(x)))
  BY <1>1, <1>2, <1>5
<1> QED
  BY <1>1, <1>6

\* Copointers are led elsewhere together, to where no other pointer leads.
LEMMA LedApart ==
  ASSUME NEW s, NEW M, Good(s, M), Apart(s, M), NEW n \in M, NEW p,
         p = NoObject \/ \A m \in M : OP_GetPointer(s, m) # p,
         NEW r, Led(s, r, M, n, p)
  PROVE  Apart(r, M)
<1>1. /\ \A m \in M : Mates(r, M, m) = Mates(s, M, m)
      /\ \A m \in M : OP_GetPointer(r, m) = IF m \in Mates(s, M, n) THEN p ELSE OP_GetPointer(s, m)
  BY DEF Led
<1>2. \A m \in Mates(s, M, n) : Mates(s, M, m) = Mates(s, M, n)
  BY MatesOK
<1>3. SUFFICES ASSUME NEW x \in M, NEW y \in M,
                      OP_GetPointer(r, x) = OP_GetPointer(r, y), OP_GetPointer(r, x) # NoObject
               PROVE  y \in Mates(s, M, x)
  BY <1>1 DEF Apart
<1>4. CASE x \in Mates(s, M, n) /\ y \in Mates(s, M, n)
  BY <1>2, <1>4
<1>5. CASE x \notin Mates(s, M, n) /\ y \notin Mates(s, M, n)
  BY <1>1, <1>3, <1>5 DEF Apart
<1>6. CASE x \in Mates(s, M, n) /\ y \notin Mates(s, M, n)
  BY <1>1, <1>3, <1>6
<1>7. CASE x \notin Mates(s, M, n) /\ y \in Mates(s, M, n)
  BY <1>1, <1>3, <1>7
<1> QED
  BY <1>4, <1>5, <1>6, <1>7

(* ~StrongPtr: either nothing else changes, or the object is deleted and no *)
(* pointer leads to it any more.                                            *)
LEMMA LetGoDoes ==
  ASSUME NEW s, NEW M, Good(s, M), Apart(s, M), NEW n \in M, LetGo(s, n)
  PROVE  /\ Good(own', M \ {n})
         /\ Apart(own', M \ {n})
         /\ \/ /\ UNCHANGED <<exists, stack, undefined>>
               /\ \A m \in M \ {n} : OP_GetPointer(own', m) = OP_GetPointer(s, m)
            \/ /\ OP_GetPointer(s, n) # NoObject
               /\ Delete(OP_GetPointer(s, n), NoReset)
               /\ \A m \in M \ {n} : OP_GetPointer(own', m) =
                    IF OP_GetPointer(s, m) = OP_GetPointer(s, n) THEN NoObject ELSE OP_GetPointer(s, m)
<1> DEFINE released == OP_Release(s, n, n \in Strong)
           P(m) == OP_GetPointer(s, m)
           L == M \ {n}
<1>1. own' = Left(s, n)
  BY DEF LetGo, Left
<1>2. /\ released.last <=> IsLast(s, M, n)
      /\ OP_GetPointer(released.own, n) = P(n)
      /\ Gone(s, own', M, n)
  BY <1>1, LeaveOK
<1>3. IF released.last /\ P(n) # NoObject THEN Delete(P(n), NoReset)
      ELSE UNCHANGED <<exists, stack, undefined>>
  BY <1>2 DEF LetGo
<1> HIDE DEF released
<1>4. /\ Good(own', L)
      /\ \A m \in L : IsLast(s, M, n) /\ m \in Mates(s, M, n) => OP_GetPointer(own', m) = NoObject
      /\ \A m \in L : ~(IsLast(s, M, n) /\ m \in Mates(s, M, n)) =>
           OP_GetPointer(own', m) = P(m) /\ Mates(own', L, m) = Mates(s, M, m) \ {n}
  BY <1>2 DEF Gone
<1>5. /\ \A m \in Mates(s, M, n) : P(m) = P(n)
      /\ \A m \in M : P(m) = P(n) /\ P(n) # NoObject => m \in Mates(s, M, n)
  BY MatesOK DEF Apart
<1>6. Apart(own', L)
  <2>1. SUFFICES ASSUME NEW a \in L, NEW b \in L,
                        OP_GetPointer(own', a) = OP_GetPointer(own', b),
                        OP_GetPointer(own', a) # NoObject
                 PROVE  b \in Mates(own', L, a)
    BY DEF Apart
  <2>2. /\ OP_GetPointer(own', a) = P(a) /\ OP_GetPointer(own', b) = P(b)
        /\ Mates(own', L, a) = Mates(s, M, a) \ {n}
    BY <1>4, <2>1
  <2>3. b \in Mates(s, M, a)
    BY <2>1, <2>2 DEF Apart
  <2> QED
    BY <2>2, <2>3
<1>7. CASE IsLast(s, M, n) /\ P(n) # NoObject
  <2>1. Delete(P(n), NoReset)
    BY <1>2, <1>3, <1>7
  <2>2. \A m \in L : OP_GetPointer(own', m) = IF P(m) = P(n) THEN NoObject ELSE P(m)
    BY <1>4, <1>5, <1>7
  <2> QED
    BY <1>4, <1>6, <1>7, <2>1, <2>2
<1>8. CASE ~(IsLast(s, M, n) /\ P(n) # NoObject)
  <2>1. UNCHANGED <<exists, stack, undefined>>
    BY <1>2, <1>3, <1>8
  <2>2. \A m \in L : OP_GetPointer(own', m) = P(m)
    BY <1>4, <1>5, <1>8
  <2> QED
    BY <1>4, <1>6, <2>1, <2>2
<1> QED
  BY <1>7, <1>8

-----------------------------------------------------------------------------
(* The inductive invariant *)

Frame == [object : Object, next : [node : Node \cup {NoNode}, to : Object \cup {NoObject}]]

\* The objects whose destructor is at work, and those that a ResetAll deletes.
OnStack(frames) == {frames[i].object : i \in DOMAIN frames}

DeletedBy(frames) == {frames[i].object : i \in {j \in DOMAIN frames : frames[j].next # NoReset}}

\* ResetAll waits with the object that it deletes, to which its pointers still lead,
\* and with one to which none does.
ResetOK(s, M, ex, hd, und, f) ==
  /\ f.next.node \in M
  /\ ~IsMember(f.next.node)
  /\ f.next.to \in (ex \ hd) \cup {NoObject}
  /\ f.next.to # NoObject => \A n \in M : OP_GetPointer(s, n) # f.next.to
  /\ f.object \notin ex
  /\ ~und => OP_GetPointer(s, f.next.node) = f.object

\* Only the outermost deletion is one of ResetAll.
FramesOK(s, M, ex, hd, frames, und) ==
  \A i \in 1 .. Len(frames) :
    \/ frames[i].next = NoReset
    \/ i = Len(frames) /\ ResetOK(s, M, ex, hd, und, frames[i])

\* The pointers of M, in a state s of the policy, lead to objects in ex, and none
\* to those in hd, while the destructors in frames are at work.
Sound(s, M, ex, hd, frames, und) ==
  /\ Good(s, M)
  /\ Apart(s, M)
  /\ ex \subseteq Object
  /\ hd \subseteq ex
  /\ frames \in Seq(Frame)
  /\ und \in BOOLEAN
  /\ \A n \in M : OP_GetPointer(s, n) \notin hd
  /\ FramesOK(s, M, ex, hd, frames, und)
  /\ ~und => \A n \in M : OP_GetPointer(s, n) \in ex \cup DeletedBy(frames) \cup {NoObject}
  /\ und => DeletedBy(frames) # {}

\* The same, when no destructor is at work.
Quiet(s, M, ex, hd) ==
  /\ Good(s, M)
  /\ Apart(s, M)
  /\ ex \subseteq Object
  /\ hd \subseteq ex
  /\ \A n \in M : OP_GetPointer(s, n) \notin hd /\ OP_GetPointer(s, n) \in ex \cup {NoObject}

\* With no destructor at work, the two say the same.
LEMMA NoFrames ==
  ASSUME NEW s, NEW M, NEW ex, NEW hd
  PROVE  Quiet(s, M, ex, hd) <=> Sound(s, M, ex, hd, <<>>, FALSE)
<1>1. DeletedBy(<<>>) = {} /\ Len(<<>>) = 0 /\ 1 .. 0 = {} /\ <<>> \in Seq(Frame)
  BY DEF DeletedBy
<1>2. FramesOK(s, M, ex, hd, <<>>, FALSE)
  BY <1>1 DEF FramesOK
<1> QED
  BY <1>1, <1>2 DEF Quiet, Sound

\* t is frames with the frame f before them.
Pushed(t, frames, f) ==
  /\ t \in Seq(Frame)
  /\ Len(t) = Len(frames) + 1
  /\ t[1] = f
  /\ \A i \in 2 .. Len(t) : i - 1 \in 1 .. Len(frames) /\ t[i] = frames[i - 1]
  /\ OnStack(t) = OnStack(frames) \cup {f.object}
  /\ DeletedBy(t) = DeletedBy(frames) \cup (IF f.next = NoReset THEN {} ELSE {f.object})

\* Putting a frame before others does nothing else.
LEMMA PushedFrame ==
  ASSUME NEW frames \in Seq(Frame), NEW f \in Frame, NEW t, t = <<f>> \o frames
  PROVE  Pushed(t, frames, f)
<1>1. t \in Seq(Frame) /\ Len(t) = Len(frames) + 1 /\ t[1] = f
  OBVIOUS
<1>2. \A i \in 2 .. Len(t) : i - 1 \in 1 .. Len(frames) /\ t[i] = frames[i - 1]
  OBVIOUS
<1>3. \A i \in 1 .. Len(frames) : i + 1 \in 2 .. Len(t) /\ t[i + 1] = frames[i]
  OBVIOUS
<1>4. DOMAIN t = 1 .. Len(t) /\ DOMAIN frames = 1 .. Len(frames) /\ Len(t) \in Nat /\ Len(frames) \in Nat
  BY <1>1
<1>5. \A i : i \in DOMAIN t <=> i = 1 \/ i \in 2 .. Len(t)
  BY <1>1, <1>4
<1> DEFINE D == DOMAIN t
           E == DOMAIN frames
<1>6. 1 \in D /\ t[1] = f
  BY <1>1, <1>5
<1>7. ASSUME NEW i \in D, i # 1 PROVE \E j \in E : t[i] = frames[j]
  <2>1. i \in 2 .. Len(t)
    BY <1>5, <1>7
  <2> QED
    BY <1>2, <1>4, <2>1
<1>8. ASSUME NEW j \in E PROVE \E i \in D : t[i] = frames[j]
  <2>1. j \in 1 .. Len(frames)
    BY <1>4
  <2>2. j + 1 \in 2 .. Len(t) /\ t[j + 1] = frames[j]
    BY <1>3, <2>1
  <2>3. j + 1 \in D
    BY <1>5, <2>2
  <2> QED
    BY <2>2, <2>3
<1>9. /\ OnStack(t) = {t[i].object : i \in D}
      /\ OnStack(frames) = {frames[i].object : i \in E}
      /\ DeletedBy(t) = {t[i].object : i \in {j \in D : t[j].next # NoReset}}
      /\ DeletedBy(frames) = {frames[i].object : i \in {j \in E : frames[j].next # NoReset}}
  BY DEF OnStack, DeletedBy
<1> HIDE DEF D, E
<1>10. OnStack(t) = OnStack(frames) \cup {f.object}
  <2>1. \A i \in D : t[i].object \in OnStack(frames) \cup {f.object}
    BY <1>6, <1>7, <1>9
  <2>2. f.object \in OnStack(t)
    BY <1>6, <1>9
  <2>3. ASSUME NEW j \in E PROVE frames[j].object \in OnStack(t)
    <3>1. PICK i \in D : t[i] = frames[j]
      BY <1>8
    <3> QED
      BY <1>9, <3>1
  <2>4. \A o \in OnStack(t) : o \in OnStack(frames) \cup {f.object}
    BY <1>9, <2>1
  <2>5. \A o \in OnStack(frames) : o \in OnStack(t)
    BY <1>9, <2>3
  <2> QED
    BY <2>2, <2>4, <2>5
<1>11. DeletedBy(t) = DeletedBy(frames) \cup (IF f.next = NoReset THEN {} ELSE {f.object})
  <2> DEFINE B == IF f.next = NoReset THEN {} ELSE {f.object}
  <2>1. \A i \in D : t[i].next # NoReset => t[i].object \in DeletedBy(frames) \cup B
    BY <1>6, <1>7, <1>9
  <2>2. ASSUME NEW j \in E, frames[j].next # NoReset PROVE frames[j].object \in DeletedBy(t)
    <3>1. PICK i \in D : t[i] = frames[j]
      BY <1>8
    <3> QED
      BY <1>9, <2>2, <3>1
  <2>3. B \subseteq DeletedBy(t)
    BY <1>6, <1>9
  <2> HIDE DEF B
  <2>4. \A o \in DeletedBy(t) : o \in DeletedBy(frames) \cup B
    BY <1>9, <2>1
  <2>5. \A o \in DeletedBy(frames) : o \in DeletedBy(t)
    BY <1>9, <2>2
  <2>6. DeletedBy(t) = DeletedBy(frames) \cup B
    BY <2>3, <2>4, <2>5
  <2> QED
    BY <2>6 DEF B
<1> QED
  BY <1>1, <1>2, <1>10, <1>11 DEF Pushed

\* A new pointer takes the object that it leads to from the client.
LEMMA CreatedQuiet ==
  ASSUME NEW s, NEW M, NEW ex, NEW hd, Quiet(s, M, ex, hd), NEW n \in Node \ M,
         NEW p \in hd \cup {NoObject}, NEW r, Created(s, r, M, n, p)
  PROVE  Quiet(r, M \cup {n}, ex, hd \ {p})
<1>1. Good(s, M) /\ Apart(s, M) /\ hd \subseteq ex /\ ex \subseteq Object
  BY DEF Quiet
<1>2. \A m \in M : OP_GetPointer(s, m) \notin hd /\ OP_GetPointer(s, m) \in ex \cup {NoObject}
  BY DEF Quiet
<1>3. NoObject \notin hd
  BY <1>1, StrongPtrAssumption
<1>4. p = NoObject \/ \A m \in M : OP_GetPointer(s, m) # p
  BY <1>2
<1>5. Apart(r, M \cup {n})
  BY <1>1, <1>4, CreatedApart
<1>6. /\ Good(r, M \cup {n})
      /\ OP_GetPointer(r, n) = p
      /\ \A m \in M : OP_GetPointer(r, m) = OP_GetPointer(s, m)
  BY DEF Created
<1> QED
  BY <1>1, <1>2, <1>3, <1>5, <1>6 DEF Quiet

\* A copy leads to an object that exists and that the client does not hold.
LEMMA SharedQuiet ==
  ASSUME NEW s, NEW M, NEW ex, NEW hd, Quiet(s, M, ex, hd), NEW n \in Node \ M,
         NEW q \in M, NEW r, Shared(s, r, M, n, q)
  PROVE  Quiet(r, M \cup {n}, ex, hd)
<1>1. Good(s, M) /\ Apart(s, M) /\ hd \subseteq ex /\ ex \subseteq Object
  BY DEF Quiet
<1>2. \A m \in M : OP_GetPointer(s, m) \notin hd /\ OP_GetPointer(s, m) \in ex \cup {NoObject}
  BY DEF Quiet
<1>3. Apart(r, M \cup {n})
  BY <1>1, SharedApart
<1>4. /\ Good(r, M \cup {n})
      /\ OP_GetPointer(r, n) = OP_GetPointer(s, q)
      /\ \A m \in M : OP_GetPointer(r, m) = OP_GetPointer(s, m)
  BY DEF Shared
<1> QED
  BY <1>1, <1>2, <1>3, <1>4 DEF Quiet

\* A swap leads no pointer to where none led before.
LEMMA SwappedQuiet ==
  ASSUME NEW s, NEW M, NEW ex, NEW hd, Quiet(s, M, ex, hd), NEW a \in M, NEW b \in M,
         NEW r, Swapped(s, r, M, a, b)
  PROVE  Quiet(r, M, ex, hd)
<1>1. Good(s, M) /\ Apart(s, M) /\ hd \subseteq ex /\ ex \subseteq Object
  BY DEF Quiet
<1>2. \A m \in M : OP_GetPointer(s, m) \notin hd /\ OP_GetPointer(s, m) \in ex \cup {NoObject}
  BY DEF Quiet
<1>3. Apart(r, M)
  BY <1>1, SwappedApart
<1>4. Good(r, M) /\ \A m \in M : OP_GetPointer(r, Other(a, b, m)) = OP_GetPointer(s, m)
  BY DEF Swapped
<1> DEFINE O(m) == Other(a, b, m)
<1>5. \A m \in M : O(m) \in M /\ O(O(m)) = m
  BY OtherTwice
<1>6. \A m \in M : OP_GetPointer(r, O(m)) = OP_GetPointer(s, m)
  BY <1>4
<1> HIDE DEF O
<1>7. \A m \in M : OP_GetPointer(r, m) = OP_GetPointer(s, O(m))
  BY <1>5, <1>6
<1> QED
  BY <1>1, <1>2, <1>3, <1>4, <1>5, <1>7 DEF Quiet

\* Copointers that are led to an object take it from the client.
LEMMA LedQuiet ==
  ASSUME NEW s, NEW M, NEW ex, NEW hd, Quiet(s, M, ex, hd), NEW n \in M,
         NEW p \in hd \cup {NoObject}, NEW r, Led(s, r, M, n, p)
  PROVE  Quiet(r, M, ex, hd \ {p})
<1>1. Good(s, M) /\ Apart(s, M) /\ hd \subseteq ex /\ ex \subseteq Object
  BY DEF Quiet
<1>2. \A m \in M : OP_GetPointer(s, m) \notin hd /\ OP_GetPointer(s, m) \in ex \cup {NoObject}
  BY DEF Quiet
<1>3. NoObject \notin hd
  BY <1>1, StrongPtrAssumption
<1>4. p = NoObject \/ \A m \in M : OP_GetPointer(s, m) # p
  BY <1>2
<1>5. Apart(r, M)
  BY <1>1, <1>4, LedApart
<1>6. Good(r, M) /\ \A m \in M : OP_GetPointer(r, m) = p \/ OP_GetPointer(r, m) = OP_GetPointer(s, m)
  BY DEF Led
<1> QED
  BY <1>1, <1>2, <1>3, <1>5, <1>6 DEF Quiet

(* ~StrongPtr keeps all of it, also within other destructors, unless the    *)
(* pointer is the one for which a ResetAll waits.                           *)
LEMMA LetGoKeeps ==
  ASSUME NEW s, NEW M, NEW hd, Sound(s, M, exists, hd, stack, undefined), undefined = FALSE,
         NEW n \in M, LetGo(s, n),
         \A i \in 1 .. Len(stack) : stack[i].next # NoReset => stack[i].next.node # n
  PROVE  /\ Sound(own', M \ {n}, exists', hd, stack', undefined')
         /\ exists \cup OnStack(stack) \subseteq exists' \cup OnStack(stack')
<1> DEFINE P(m) == OP_GetPointer(s, m)
           Q(m) == OP_GetPointer(own', m)
           L == M \ {n}
<1>1. /\ Good(s, M) /\ Apart(s, M) /\ exists \subseteq Object /\ hd \subseteq exists
      /\ stack \in Seq(Frame)
      /\ \A m \in M : P(m) \notin hd
      /\ FramesOK(s, M, exists, hd, stack, FALSE)
      /\ \A m \in M : P(m) \in exists \cup DeletedBy(stack) \cup {NoObject}
  BY DEF Sound
<1>2. /\ Good(own', L)
      /\ Apart(own', L)
      /\ \/ /\ UNCHANGED <<exists, stack, undefined>>
            /\ \A m \in L : Q(m) = P(m)
         \/ /\ P(n) # NoObject
            /\ Delete(P(n), NoReset)
            /\ \A m \in L : Q(m) = IF P(m) = P(n) THEN NoObject ELSE P(m)
  <2>1. Good(s, M) /\ Apart(s, M)
    BY <1>1
  <2> HIDE DEF P, Q, L
  <2>2. /\ Good(own', M \ {n})
        /\ Apart(own', M \ {n})
        /\ \/ /\ UNCHANGED <<exists, stack, undefined>>
              /\ \A m \in M \ {n} : OP_GetPointer(own', m) = OP_GetPointer(s, m)
           \/ /\ OP_GetPointer(s, n) # NoObject
              /\ Delete(OP_GetPointer(s, n), NoReset)
              /\ \A m \in M \ {n} : OP_GetPointer(own', m) =
                   IF OP_GetPointer(s, m) = OP_GetPointer(s, n) THEN NoObject ELSE OP_GetPointer(s, m)
    BY <2>1, LetGoDoes
  <2> QED
    BY <2>2 DEF P, Q, L
<1>3. P(n) \in Object \cup {NoObject}
  BY <1>1, MatesOK
<1>4. NoObject \notin hd
  BY <1>1, StrongPtrAssumption
<1> HIDE DEF P, Q, L
<1>5. L \subseteq M /\ n \notin L /\ M \ {n} = L /\ \A m \in M : m # n => m \in L
  BY DEF L
<1>6. ASSUME UNCHANGED <<exists, stack, undefined>>, \A m \in L : Q(m) = P(m)
      PROVE  /\ Sound(own', L, exists', hd, stack', undefined')
             /\ exists \cup OnStack(stack) \subseteq exists' \cup OnStack(stack')
  <2>1. FramesOK(own', L, exists, hd, stack, FALSE)
    <3>1. SUFFICES ASSUME NEW i \in 1 .. Len(stack), stack[i].next # NoReset
                   PROVE  i = Len(stack) /\ ResetOK(own', L, exists, hd, FALSE, stack[i])
      BY DEF FramesOK
    <3>2. i = Len(stack) /\ ResetOK(s, M, exists, hd, FALSE, stack[i])
      BY <1>1, <3>1 DEF FramesOK
    <3>3. stack[i].next.node \in L
      BY <1>5, <3>1, <3>2 DEF ResetOK
    <3> QED
      BY <1>5, <1>6, <3>2, <3>3 DEF ResetOK, P, Q
  <2>2. \A m \in L : Q(m) \notin hd /\ Q(m) \in exists \cup DeletedBy(stack) \cup {NoObject}
    BY <1>1, <1>5, <1>6
  <2> QED
    BY <1>1, <1>2, <1>6, <2>1, <2>2 DEF Sound, Q
<1>7. ASSUME P(n) # NoObject, Delete(P(n), NoReset),
             \A m \in L : Q(m) = IF P(m) = P(n) THEN NoObject ELSE P(m)
      PROVE  /\ Sound(own', L, exists', hd, stack', undefined')
             /\ exists \cup OnStack(stack) \subseteq exists' \cup OnStack(stack')
  <2> DEFINE f == [object |-> P(n), next |-> NoReset]
  <2>1. f \in Frame /\ f.next = NoReset /\ f.object = P(n)
    BY <1>3, <1>7 DEF Frame, NoReset
  <2>2. undefined' = (P(n) \notin exists) /\ exists' = exists \ {P(n)} /\ stack' = <<f>> \o stack
    BY <1>7 DEF Delete
  <2> HIDE DEF f
  <2>3. /\ stack' \in Seq(Frame)
        /\ Len(stack') = Len(stack) + 1
        /\ stack'[1] = f
        /\ \A i \in 2 .. Len(stack') : i - 1 \in 1 .. Len(stack) /\ stack'[i] = stack[i - 1]
        /\ OnStack(stack') = OnStack(stack) \cup {P(n)}
        /\ DeletedBy(stack') = DeletedBy(stack)
    <3>1. stack \in Seq(Frame)
      BY <1>1
    <3>2. Pushed(stack', stack, f)
      BY <2>1, <2>2, <3>1, PushedFrame
    <3> QED
      BY <2>1, <3>2 DEF Pushed
  <2>4. P(n) \notin hd
    BY <1>1
  <2>5. FramesOK(own', L, exists', hd, stack', undefined')
    <3>1. SUFFICES ASSUME NEW i \in 1 .. Len(stack'), stack'[i].next # NoReset
                   PROVE  i = Len(stack') /\ ResetOK(own', L, exists', hd, undefined', stack'[i])
      BY DEF FramesOK
    <3>2. i # 1
      BY <2>1, <2>3, <3>1
    <3>3. i \in 2 .. Len(stack')
      BY <3>2
    <3> DEFINE j == i - 1
               g == stack[j]
    <3>4. j \in 1 .. Len(stack) /\ stack'[i] = g
      BY <2>3, <3>3
    <3>5. j = Len(stack) => i = Len(stack')
      BY <2>3, <3>3
    <3> HIDE DEF j
    <3>6. g.next # NoReset /\ j = Len(stack) /\ ResetOK(s, M, exists, hd, FALSE, g)
      BY <1>1, <3>1, <3>4 DEF FramesOK
    <3>7. g.next.node # n
      BY <3>4, <3>6
    <3> HIDE DEF g
    <3>8. /\ g.next.node \in M
          /\ ~IsMember(g.next.node)
          /\ g.next.to \in (exists \ hd) \cup {NoObject}
          /\ g.next.to # NoObject => \A m \in M : P(m) # g.next.to
          /\ g.object \notin exists
          /\ P(g.next.node) = g.object
      BY <3>6 DEF ResetOK, P
    <3>9. g.next.node \in L
      BY <1>5, <3>7, <3>8
    <3>10. g.next.to \in (exists' \ hd) \cup {NoObject}
      BY <2>2, <3>8
    <3>11. g.next.to # NoObject => \A m \in L : Q(m) # g.next.to
      BY <1>5, <1>7, <3>8
    <3>12. ~undefined' => Q(g.next.node) = g.object
      BY <1>7, <2>2, <3>8, <3>9
    <3>13. ResetOK(own', L, exists', hd, undefined', g)
      BY <2>2, <3>8, <3>9, <3>10, <3>11, <3>12 DEF ResetOK, Q
    <3> QED
      BY <3>4, <3>5, <3>6, <3>13
  <2>6. exists' \subseteq Object /\ hd \subseteq exists' /\ undefined' \in BOOLEAN
    BY <1>1, <2>2, <2>4
  <2>7. \A m \in L : Q(m) \notin hd
    BY <1>1, <1>4, <1>5, <1>7
  <2>8. \A m \in L : Q(m) \in exists' \cup DeletedBy(stack') \cup {NoObject}
    BY <1>1, <1>5, <1>7, <2>2, <2>3
  <2>9. undefined' => DeletedBy(stack') # {}
    BY <1>1, <1>7, <2>2, <2>3
  <2>10. Sound(own', L, exists', hd, stack', undefined')
    BY <1>2, <2>3, <2>5, <2>6, <2>7, <2>8, <2>9 DEF Sound, Q
  <2> QED
    BY <2>2, <2>3, <2>10
<1> QED
  BY <1>2, <1>5, <1>6, <1>7

\* ~StrongPtr where no destructor is at work.
LEMMA LetGoQuiet ==
  ASSUME NEW s, NEW M, NEW hd, Quiet(s, M, exists, hd), stack = <<>>, undefined = FALSE,
         NEW n \in M, LetGo(s, n)
  PROVE  /\ Sound(own', M \ {n}, exists', hd, stack', undefined')
         /\ exists \subseteq exists' \cup OnStack(stack')
<1>1. Sound(s, M, exists, hd, stack, undefined)
  BY NoFrames
<1>2. \A i \in 1 .. Len(stack) : stack[i].next # NoReset => stack[i].next.node # n
  OBVIOUS
<1> QED
  BY <1>1, <1>2, LetGoKeeps

-----------------------------------------------------------------------------

\* The member of an object lives no longer than the destructor of the object.
MembersLive == \A o \in Object : MemberOf[o] \in made => o \in exists \cup OnStack(stack)

IInv ==
  /\ made \subseteq Node \ Temp
  /\ Sound(own, made, exists, held, stack, undefined)
  /\ MembersLive

\* What the client's code finds.
LEMMA WhenIdle ==
  ASSUME IInv, Idle
  PROVE  /\ Quiet(own, made, exists, held)
         /\ stack = <<>>
         /\ undefined = FALSE
         /\ \A o \in Object : MemberOf[o] \in made => o \in exists
<1>1. stack = <<>> /\ undefined = FALSE
  BY DEF IInv, Sound, Idle
<1>2. Quiet(own, made, exists, held)
  BY <1>1, NoFrames DEF IInv
<1>3. OnStack(stack) = {}
  BY <1>1 DEF OnStack
<1> QED
  BY <1>1, <1>2, <1>3 DEF IInv, MembersLive

\* What the client's code leaves, if it begins no destructor.
LEMMA StillQuiet ==
  ASSUME NEW s, NEW M, NEW ex, NEW hd, Quiet(s, M, ex, hd), NEW frames, NEW und,
         frames = <<>>, und = FALSE
  PROVE  Sound(s, M, ex, hd, frames, und)
BY NoFrames

\* There is a temporary of the strength of n, whatever it is.
LEMMA TempForOK ==
  ASSUME NEW n, NEW t, t = TempFor(n)
  PROVE  t \in Temp /\ (t \in Strong <=> n \in Strong)
<1>1. \A strong \in BOOLEAN : \E u \in Temp : (u \in Strong) = strong
  BY StrongPtrAssumption
<1>2. CASE n \in Strong
  <2>1. \E u \in Temp : (u \in Strong) = TRUE
    BY <1>1
  <2>2. \E u \in Temp : u \in Strong
    BY <2>1
  <2> QED
    BY <1>2, <2>2 DEF TempFor
<1>3. CASE n \notin Strong
  <2>1. \E u \in Temp : (u \in Strong) = FALSE
    BY <1>1
  <2>2. \E u \in Temp : u \notin Strong
    BY <2>1
  <2> QED
    BY <1>3, <2>2 DEF TempFor
<1> QED
  BY <1>2, <1>3

(* There is memory for the record of one pointer more.                      *)
LEMMA Room ==
  ASSUME NEW M, M \subseteq Node \ Temp
  PROVE  Cardinality(M) < Cardinality(Info)
<1>1. IsFiniteSet(Node \ Temp) /\ Cardinality(M) <= Cardinality(Node \ Temp)
  <2>1. IsFiniteSet(Node \ Temp)
    BY NodeAssumption, FS_Subset
  <2> QED
    BY <2>1, FS_Subset
<1>2. Cardinality(Node \ Temp) < Cardinality(Info)
  BY InfoAssumption
<1>3. Cardinality(M) \in Nat /\ Cardinality(Node \ Temp) \in Nat /\ Cardinality(Info) \in Nat
  <2>1. IsFiniteSet(M)
    BY <1>1, FS_Subset
  <2>2. IsFiniteSet(Info)
    BY InfoAssumption
  <2> QED
    BY <1>1, <2>1, <2>2, FS_CardinalityType
<1> QED
  BY <1>1, <1>2, <1>3

(* A pointer that is made takes what it leads to from the client.           *)
LEMMA CreateQuiet ==
  ASSUME NEW s, NEW M, NEW ex, NEW hd, Quiet(s, M, ex, hd), M \subseteq Node \ Temp,
         NEW n \in Node \ M, NEW p \in hd \cup {NoObject}, NEW r, r = OP_Create(s, n, p, n \in Strong)
  PROVE  Quiet(r, M \cup {n}, ex, hd \ {p})
<1>1. Good(s, M) /\ hd \subseteq Object
  BY DEF Quiet
<1>2. Cardinality(M) < Cardinality(Info)
  BY Room
<1>3. p \in Object \cup {NoObject}
  BY <1>1
<1>4. Created(s, r, M, n, p)
  BY <1>1, <1>2, <1>3, CreateOK
<1> QED
  BY <1>4, CreatedQuiet

\* StrongPtr(rhs).
LEMMA ShareQuiet ==
  ASSUME NEW s, NEW M, NEW ex, NEW hd, Quiet(s, M, ex, hd), NEW n \in Node \ M,
         NEW q \in M, NEW r, r = OP_Share(s, n, q, n \in Strong)
  PROVE  Quiet(r, M \cup {n}, ex, hd)
<1>1. Good(s, M)
  BY DEF Quiet
<1>2. Shared(s, r, M, n, q)
  BY <1>1, ShareOK
<1> QED
  BY <1>2, SharedQuiet

\* StrongPtr::Swap.
LEMMA SwapQuiet ==
  ASSUME NEW s, NEW M, NEW ex, NEW hd, Quiet(s, M, ex, hd), NEW a \in M, NEW b \in M,
         a \in Strong <=> b \in Strong, NEW r, r = OP_Swap(s, a, b)
  PROVE  Quiet(r, M, ex, hd)
<1>1. Good(s, M)
  BY DEF Quiet
<1>2. Swapped(s, r, M, a, b)
  BY <1>1, SwapOK
<1> QED
  BY <1>2, SwappedQuiet

-----------------------------------------------------------------------------
(* Every action keeps the invariant *)

\* The client makes an object, and whoever it has for a member is made with it.
LEMMA NewObjectKeeps ==
  ASSUME IInv, NEW o \in Object, NewObject(o)
  PROVE  IInv'
<1> DEFINE n == MemberOf[o]
<1>1. /\ Idle
      /\ o \notin exists
      /\ exists' = exists \cup {o}
      /\ held' = held \cup {o}
      /\ own' = OP_Create(own, n, NoObject, n \in Strong)
      /\ made' = made \cup {n}
      /\ stack' = stack /\ undefined' = undefined
  BY DEF NewObject
<1>2. /\ Quiet(own, made, exists, held)
      /\ stack = <<>>
      /\ undefined = FALSE
      /\ \A p \in Object : MemberOf[p] \in made => p \in exists
  BY <1>1, WhenIdle
<1>3. n \in Node \ Temp
  BY StrongPtrAssumption
<1>4. made \subseteq Node \ Temp
  BY DEF IInv
<1>5. n \notin made
  BY <1>1, <1>2
<1> HIDE DEF n
<1>6. Quiet(own', made', exists, held \ {NoObject})
  BY <1>1, <1>2, <1>3, <1>4, <1>5, CreateQuiet
<1>7. held \ {NoObject} = held
  BY <1>2, StrongPtrAssumption DEF Quiet
<1>8. \A m \in made' : OP_GetPointer(own', m) # o
  BY <1>1, <1>6, StrongPtrAssumption DEF Quiet
<1>9. Quiet(own', made', exists', held')
  BY <1>1, <1>6, <1>7, <1>8 DEF Quiet
<1>10. Sound(own', made', exists', held', stack', undefined')
  BY <1>1, <1>2, <1>9, StillQuiet
<1>11. \A p \in Object : MemberOf[p] \in made' => p \in exists'
  BY <1>1, <1>2, StrongPtrAssumption DEF n
<1> QED
  BY <1>1, <1>3, <1>4, <1>10, <1>11 DEF IInv, MembersLive

\* StrongPtr(p).
LEMMA ConstructKeeps ==
  ASSUME IInv, NEW n \in Node, NEW o \in Object \cup {NoObject}, Construct(n, o)
  PROVE  IInv'
<1>1. /\ Idle
      /\ n \notin made /\ n \notin Temp /\ ~IsMember(n)
      /\ o \in held \cup {NoObject}
      /\ own' = OP_Create(own, n, o, n \in Strong)
      /\ made' = made \cup {n}
      /\ held' = held \ {o}
      /\ exists' = exists /\ stack' = stack /\ undefined' = undefined
  BY DEF Construct, Vacant
<1>2. /\ Quiet(own, made, exists, held)
      /\ stack = <<>>
      /\ undefined = FALSE
      /\ \A p \in Object : MemberOf[p] \in made => p \in exists
  BY <1>1, WhenIdle
<1>3. made \subseteq Node \ Temp
  BY DEF IInv
<1>4. Quiet(own', made', exists', held')
  BY <1>1, <1>2, <1>3, CreateQuiet
<1>5. Sound(own', made', exists', held', stack', undefined')
  BY <1>1, <1>2, <1>4, StillQuiet
<1> QED
  BY <1>1, <1>2, <1>3, <1>5 DEF IInv, MembersLive, IsMember

\* StrongPtr(rhs).
LEMMA CopyKeeps ==
  ASSUME IInv, NEW n \in Node, NEW rhs \in Node, Copy(n, rhs)
  PROVE  IInv'
<1>1. /\ Idle
      /\ n \notin made /\ n \notin Temp /\ ~IsMember(n)
      /\ rhs \in made
      /\ own' = OP_Share(own, n, rhs, n \in Strong)
      /\ made' = made \cup {n}
      /\ exists' = exists /\ held' = held /\ stack' = stack /\ undefined' = undefined
  BY DEF Copy, Vacant
<1>2. /\ Quiet(own, made, exists, held)
      /\ stack = <<>>
      /\ undefined = FALSE
      /\ \A p \in Object : MemberOf[p] \in made => p \in exists
  BY <1>1, WhenIdle
<1>3. made \subseteq Node \ Temp
  BY DEF IInv
<1>4. Quiet(own', made', exists', held')
  BY <1>1, <1>2, ShareQuiet
<1>5. Sound(own', made', exists', held', stack', undefined')
  BY <1>1, <1>2, <1>4, StillQuiet
<1> QED
  BY <1>1, <1>2, <1>3, <1>5 DEF IInv, MembersLive, IsMember

\* Swap.
LEMMA SwapKeeps ==
  ASSUME IInv, NEW a \in Node, NEW b \in Node, Swap(a, b)
  PROVE  IInv'
<1>1. /\ Idle
      /\ a \in made /\ b \in made
      /\ a \in Strong <=> b \in Strong
      /\ own' = OP_Swap(own, a, b)
      /\ made' = made /\ exists' = exists /\ held' = held
      /\ stack' = stack /\ undefined' = undefined
  BY DEF Swap
<1>2. /\ Quiet(own, made, exists, held)
      /\ stack = <<>>
      /\ undefined = FALSE
      /\ \A p \in Object : MemberOf[p] \in made => p \in exists
  BY <1>1, WhenIdle
<1>3. Quiet(own', made', exists', held')
  BY <1>1, <1>2, SwapQuiet
<1>4. Sound(own', made', exists', held', stack', undefined')
  BY <1>1, <1>2, <1>3, StillQuiet
<1> QED
  BY <1>1, <1>2, <1>4 DEF IInv, MembersLive

\* What is left to show where ~StrongPtr runs in client code.
LEMMA LeaveKeeps ==
  ASSUME NEW s, NEW M, NEW n \in M, Quiet(s, M, exists, held'), LetGo(s, n),
         stack = <<>>, undefined = FALSE, made' = M \ {n}, made' \subseteq Node \ Temp,
         \A p \in Object : MemberOf[p] \in made' => p \in exists
  PROVE  IInv'
<1>1. /\ Sound(own', M \ {n}, exists', held', stack', undefined')
      /\ exists \subseteq exists' \cup OnStack(stack')
  BY LetGoQuiet
<1> QED
  BY <1>1 DEF IInv, MembersLive

\* ~StrongPtr, called by the client.
LEMMA DestroyKeeps ==
  ASSUME IInv, NEW n \in Node, Destroy(n)
  PROVE  IInv'
<1>1. /\ Idle /\ n \in made /\ LetGo(own, n)
      /\ made' = made \ {n} /\ held' = held
  BY DEF Destroy
<1>2. /\ Quiet(own, made, exists, held')
      /\ stack = <<>>
      /\ undefined = FALSE
      /\ \A p \in Object : MemberOf[p] \in made => p \in exists
  BY <1>1, WhenIdle
<1>3. made' \subseteq Node \ Temp
  BY <1>1 DEF IInv
<1> QED
  BY <1>1, <1>2, <1>3, LeaveKeeps

\* n = rhs, by way of a temporary that swaps with n and is destroyed.
LEMMA AssignKeeps ==
  ASSUME IInv, NEW n \in Node, NEW rhs \in Node, Assign(n, rhs)
  PROVE  IInv'
<1> DEFINE t == TempFor(n)
<1>1. /\ Idle /\ n \in made /\ rhs \in made
      /\ LetGo(OP_Swap(OP_Share(own, t, rhs, n \in Strong), t, n), t)
      /\ made' = made /\ held' = held
  BY DEF Assign
<1>2. t \in Temp /\ (t \in Strong <=> n \in Strong)
  BY TempForOK
<1>3. /\ Quiet(own, made, exists, held')
      /\ stack = <<>>
      /\ undefined = FALSE
      /\ \A p \in Object : MemberOf[p] \in made => p \in exists
  BY <1>1, WhenIdle
<1>4. made \subseteq Node \ Temp /\ Temp \subseteq Node
  BY StrongPtrAssumption DEF IInv
<1> HIDE DEF t
<1>5. t \in Node \ made
  BY <1>2, <1>4
<1> DEFINE copied == OP_Share(own, t, rhs, t \in Strong)
           swapped == OP_Swap(copied, t, n)
           M == made \cup {t}
<1>6. LetGo(swapped, t)
  <2>1. CASE n \in Strong
    <3>1. (n \in Strong) = TRUE /\ (t \in Strong) = TRUE
      BY <1>2, <2>1
    <3> QED
      BY <1>1, <3>1
  <2>2. CASE n \notin Strong
    <3>1. (n \in Strong) = FALSE /\ (t \in Strong) = FALSE
      BY <1>2, <2>2
    <3> QED
      BY <1>1, <3>1
  <2> QED
    BY <2>1, <2>2
<1>7. Quiet(copied, M, exists, held')
  <2> DEFINE r == copied
  <2>1. r = OP_Share(own, t, rhs, t \in Strong)
    OBVIOUS
  <2> HIDE DEF r
  <2>2. Quiet(r, M, exists, held')
    BY <1>1, <1>3, <1>5, <2>1, ShareQuiet
  <2> QED
    BY <2>2 DEF r
<1> HIDE DEF copied
<1>8. Quiet(swapped, M, exists, held')
  <2>1. t \in M /\ n \in M
    BY <1>1
  <2> DEFINE r == swapped
  <2>2. r = OP_Swap(copied, t, n)
    OBVIOUS
  <2> HIDE DEF r, M
  <2>3. Quiet(r, M, exists, held')
    BY <1>2, <1>7, <2>1, <2>2, SwapQuiet
  <2> QED
    BY <2>3 DEF r
<1>9. made' = M \ {t} /\ t \in M
  BY <1>1, <1>5
<1> HIDE DEF swapped, M
<1> QED
  BY <1>1, <1>3, <1>4, <1>6, <1>8, <1>9, LeaveKeeps

\* n = p, likewise.
LEMMA AssignPointerKeeps ==
  ASSUME IInv, NEW n \in Node, NEW o \in Object \cup {NoObject}, AssignPointer(n, o)
  PROVE  IInv'
<1> DEFINE t == TempFor(n)
<1>1. /\ Idle /\ n \in made /\ o \in held \cup {NoObject}
      /\ LetGo(OP_Swap(OP_Create(own, t, o, n \in Strong), n, t), t)
      /\ made' = made /\ held' = held \ {o}
  BY DEF AssignPointer
<1>2. t \in Temp /\ (t \in Strong <=> n \in Strong)
  BY TempForOK
<1>3. /\ Quiet(own, made, exists, held)
      /\ stack = <<>>
      /\ undefined = FALSE
      /\ \A p \in Object : MemberOf[p] \in made => p \in exists
  BY <1>1, WhenIdle
<1>4. made \subseteq Node \ Temp /\ Temp \subseteq Node
  BY StrongPtrAssumption DEF IInv
<1> HIDE DEF t
<1>5. t \in Node \ made
  BY <1>2, <1>4
<1> DEFINE created == OP_Create(own, t, o, t \in Strong)
           swapped == OP_Swap(created, n, t)
           M == made \cup {t}
<1>6. LetGo(swapped, t)
  <2>1. CASE n \in Strong
    <3>1. (n \in Strong) = TRUE /\ (t \in Strong) = TRUE
      BY <1>2, <2>1
    <3> QED
      BY <1>1, <3>1
  <2>2. CASE n \notin Strong
    <3>1. (n \in Strong) = FALSE /\ (t \in Strong) = FALSE
      BY <1>2, <2>2
    <3> QED
      BY <1>1, <3>1
  <2> QED
    BY <2>1, <2>2
<1>7. Quiet(created, M, exists, held')
  <2> DEFINE r == created
  <2>1. r = OP_Create(own, t, o, t \in Strong)
    OBVIOUS
  <2> HIDE DEF r
  <2>2. Quiet(r, M, exists, held \ {o})
    BY <1>1, <1>3, <1>4, <1>5, <2>1, CreateQuiet
  <2> QED
    BY <1>1, <2>2 DEF r
<1> HIDE DEF created
<1>8. Quiet(swapped, M, exists, held')
  <2>1. t \in M /\ n \in M
    BY <1>1
  <2> DEFINE r == swapped
  <2>2. r = OP_Swap(created, n, t)
    OBVIOUS
  <2> HIDE DEF r, M
  <2>3. Quiet(r, M, exists, held')
    BY <1>2, <1>7, <2>1, <2>2, SwapQuiet
  <2> QED
    BY <2>3 DEF r
<1>9. made' = M \ {t} /\ t \in M
  BY <1>1, <1>5
<1> HIDE DEF swapped, M
<1> QED
  BY <1>1, <1>3, <1>4, <1>6, <1>8, <1>9, LeaveKeeps

\* ReleaseAll: the object, to which no pointer leads any more, is the client's again.
LEMMA ReleaseAllKeeps ==
  ASSUME IInv, NEW n \in Node, ReleaseAll(n)
  PROVE  IInv'
<1> DEFINE p == Pointee(n)
<1>1. /\ Idle /\ n \in made
      /\ own' = OP_SetPointer(own, n, NoObject)
      /\ held' = held \cup ({p} \ {NoObject})
      /\ made' = made /\ exists' = exists /\ stack' = stack /\ undefined' = undefined
  BY DEF ReleaseAll
<1>2. /\ Quiet(own, made, exists, held)
      /\ stack = <<>>
      /\ undefined = FALSE
      /\ \A o \in Object : MemberOf[o] \in made => o \in exists
  BY <1>1, WhenIdle
<1>3. Good(own, made) /\ Apart(own, made) /\ held \subseteq exists /\ exists \subseteq Object
  BY <1>2 DEF Quiet
<1>4. Led(own, own', made, n, NoObject)
  BY <1>1, <1>3, SetPointerOK
<1>5. Quiet(own', made, exists, held \ {NoObject})
  BY <1>1, <1>2, <1>4, LedQuiet
<1>6. NoObject \notin exists
  BY <1>3, StrongPtrAssumption
<1>7. ASSUME p # NoObject PROVE p \in exists /\ \A m \in made : OP_GetPointer(own', m) # p
  <2>1. p \in exists
    BY <1>1, <1>2, <1>7 DEF Quiet, Pointee
  <2>2. \A m \in made : OP_GetPointer(own, m) = p => m \in Mates(own, made, n)
    BY <1>1, <1>3, <1>7 DEF Apart, Pointee
  <2> QED
    BY <1>4, <1>7, <2>1, <2>2 DEF Led
<1> HIDE DEF p
<1>8. /\ Good(own', made) /\ Apart(own', made)
      /\ \A m \in made : /\ OP_GetPointer(own', m) \notin held \ {NoObject}
                         /\ OP_GetPointer(own', m) \in exists \cup {NoObject}
  BY <1>5 DEF Quiet
<1>9. Quiet(own', made', exists', held')
  <2>1. \A m \in made : OP_GetPointer(own', m) \notin held'
    BY <1>1, <1>3, <1>6, <1>7, <1>8
  <2>2. held' \subseteq exists
    BY <1>1, <1>3, <1>7
  <2> QED
    BY <1>1, <1>3, <1>8, <2>1, <2>2 DEF Quiet
<1>10. Sound(own', made', exists', held', stack', undefined')
  BY <1>1, <1>2, <1>9, StillQuiet
<1> QED
  BY <1>1, <1>2, <1>10 DEF IInv, MembersLive

\* ResetAll: at once, or with a destructor to wait for.
LEMMA ResetAllKeeps ==
  ASSUME IInv, NEW n \in Node, NEW o \in Object \cup {NoObject}, ResetAll(n, o)
  PROVE  IInv'
<1> DEFINE p == Pointee(n)
           f == [object |-> p, next |-> [node |-> n, to |-> o]]
<1>1. /\ Idle /\ n \in made /\ ~IsMember(n) /\ o \in held \cup {NoObject} /\ p # o
      /\ held' = held \ {o}
      /\ IF p = NoObject THEN /\ own' = OP_SetPointer(own, n, o)
                              /\ exists' = exists /\ stack' = stack /\ undefined' = undefined
         ELSE Delete(p, [node |-> n, to |-> o]) /\ own' = own
      /\ made' = made
  BY DEF ResetAll
<1>2. /\ Quiet(own, made, exists, held)
      /\ stack = <<>>
      /\ undefined = FALSE
      /\ \A x \in Object : MemberOf[x] \in made => x \in exists
  BY <1>1, WhenIdle
<1>3. /\ Good(own, made) /\ Apart(own, made) /\ held \subseteq exists /\ exists \subseteq Object
      /\ \A m \in made : /\ OP_GetPointer(own, m) \notin held
                         /\ OP_GetPointer(own, m) \in exists \cup {NoObject}
  BY <1>2 DEF Quiet
<1>4. CASE p = NoObject
  <2>1. own' = OP_SetPointer(own, n, o) /\ exists' = exists /\ stack' = stack /\ undefined' = undefined
    BY <1>1, <1>4
  <2>2. Led(own, own', made, n, o)
    BY <1>1, <1>3, <2>1, SetPointerOK
  <2>3. Quiet(own', made', exists', held')
    BY <1>1, <1>2, <2>1, <2>2, LedQuiet
  <2>4. Sound(own', made', exists', held', stack', undefined')
    BY <1>2, <2>1, <2>3, StillQuiet
  <2> QED
    BY <1>1, <1>2, <2>1, <2>4 DEF IInv, MembersLive
<1>5. CASE p # NoObject
  <2>1. p \in exists /\ p \in Object
    BY <1>1, <1>3, <1>5 DEF Pointee
  <2>2. /\ own' = own
        /\ undefined' = (p \notin exists) /\ exists' = exists \ {p} /\ stack' = <<f>> \o stack
    BY <1>1, <1>5 DEF Delete
  <2>3. undefined' = FALSE
    BY <2>1, <2>2
  <2>4. /\ f \in Frame
        /\ f.object = p /\ f.next.node = n /\ f.next.to = o /\ f.next # NoReset
    <3>1. n # NoNode
      BY NodeAssumption
    <3> QED
      BY <2>1, <3>1 DEF Frame, NoReset
  <2>5. p = OP_GetPointer(own, n)
    BY DEF Pointee
  <2> HIDE DEF f, p
  <2>6. stack \in Seq(Frame) /\ Len(stack) = 0 /\ OnStack(stack) = {} /\ DeletedBy(stack) = {}
    BY <1>2 DEF OnStack, DeletedBy
  <2>7. Pushed(stack', stack, f)
    BY <2>2, <2>4, <2>6, PushedFrame
  <2>8. /\ stack' \in Seq(Frame) /\ Len(stack') = 1 /\ stack'[1] = f
        /\ OnStack(stack') = {p} /\ DeletedBy(stack') = {p}
    BY <2>4, <2>6, <2>7 DEF Pushed
  <2>9. ResetOK(own', made', exists', held', undefined', f)
    <3>1. o \in (exists' \ held') \cup {NoObject}
      BY <1>1, <1>3, <2>2
    <3>2. o # NoObject => \A m \in made : OP_GetPointer(own, m) # o
      BY <1>1, <1>3
    <3> QED
      BY <1>1, <2>2, <2>4, <2>5, <3>1, <3>2 DEF ResetOK
  <2>10. FramesOK(own', made', exists', held', stack', undefined')
    <3>1. \A i \in 1 .. Len(stack') : i = Len(stack') /\ stack'[i] = f
      BY <2>8
    <3> QED
      BY <2>9, <3>1 DEF FramesOK
  <2>11. p \notin held
    BY <1>1, <1>3, <2>5
  <2>12. Sound(own', made', exists', held', stack', undefined')
    BY <1>1, <1>3, <2>2, <2>3, <2>8, <2>10, <2>11 DEF Sound
  <2> QED
    BY <1>1, <1>2, <2>2, <2>8, <2>12 DEF IInv, MembersLive
<1> QED
  BY <1>4, <1>5

\* A sequence that is not empty is its head before its tail.
LEMMA PoppedFrame ==
  ASSUME NEW frames \in Seq(Frame), frames # <<>>
  PROVE  /\ Tail(frames) \in Seq(Frame)
         /\ Head(frames) \in Frame
         /\ Head(frames) = frames[1]
         /\ Len(frames) \in Nat /\ 1 \in 1 .. Len(frames)
         /\ Pushed(frames, Tail(frames), Head(frames))
<1>1. /\ Tail(frames) \in Seq(Frame)
      /\ Head(frames) \in Frame
      /\ Head(frames) = frames[1]
      /\ Len(frames) \in Nat /\ 1 \in 1 .. Len(frames)
  OBVIOUS
<1>2. frames = <<Head(frames)>> \o Tail(frames)
  OBVIOUS
<1>3. Pushed(frames, Tail(frames), Head(frames))
  BY <1>1, <1>2, PushedFrame
<1> QED
  BY <1>1, <1>3

\* The destructor of an object destroys its member.
LEMMA DestroyMemberKeeps ==
  ASSUME IInv, DestroyMember
  PROVE  IInv'
<1> DEFINE n == MemberOf[Head(stack).object]
<1>1. /\ stack # <<>> /\ ~undefined /\ n \in made /\ LetGo(own, n)
      /\ made' = made \ {n} /\ held' = held
  BY DEF DestroyMember
<1>2. Sound(own, made, exists, held', stack, undefined)
  BY <1>1 DEF IInv
<1>3. undefined = FALSE /\ stack \in Seq(Frame)
  BY <1>1, <1>2 DEF Sound
<1>4. IsMember(n)
  <2>1. Head(stack).object \in Object
    BY <1>1, <1>3, PoppedFrame DEF Frame
  <2> QED
    BY <2>1 DEF IsMember
<1> HIDE DEF n
<1>5. \A i \in 1 .. Len(stack) : stack[i].next # NoReset => stack[i].next.node # n
  <2>1. FramesOK(own, made, exists, held', stack, undefined)
    BY <1>2 DEF Sound
  <2> QED
    BY <1>4, <2>1 DEF FramesOK, ResetOK
<1>6. /\ Sound(own', made \ {n}, exists', held', stack', undefined')
      /\ exists \cup OnStack(stack) \subseteq exists' \cup OnStack(stack')
  BY <1>1, <1>2, <1>3, <1>5, LetGoKeeps
<1> QED
  BY <1>1, <1>6 DEF IInv, MembersLive

\* The destructor returns; if a ResetAll has waited for it, the copointers are led on.
LEMMA ReturnKeeps ==
  ASSUME IInv, Return
  PROVE  IInv'
<1> DEFINE f == Head(stack)
           rest == Tail(stack)
<1>1. /\ stack # <<>> /\ ~undefined /\ MemberOf[f.object] \notin made
      /\ stack' = rest
      /\ own' = IF f.next = NoReset THEN own ELSE OP_SetPointer(own, f.next.node, f.next.to)
      /\ made' = made /\ exists' = exists /\ held' = held /\ undefined' = undefined
  BY DEF Return
<1>2. /\ Good(own, made) /\ Apart(own, made) /\ exists \subseteq Object /\ held \subseteq exists
      /\ stack \in Seq(Frame)
      /\ \A m \in made : OP_GetPointer(own, m) \notin held
      /\ FramesOK(own, made, exists, held, stack, FALSE)
      /\ \A m \in made : OP_GetPointer(own, m) \in exists \cup DeletedBy(stack) \cup {NoObject}
      /\ undefined = FALSE
  BY <1>1 DEF IInv, Sound
<1>3. /\ rest \in Seq(Frame) /\ f \in Frame /\ f = stack[1]
      /\ Len(stack) \in Nat /\ 1 \in 1 .. Len(stack)
      /\ Pushed(stack, rest, f)
  BY <1>1, <1>2, PoppedFrame
<1> HIDE DEF f, rest
<1>4. f.object \in Object
  BY <1>3 DEF Frame
<1>5. /\ Len(stack) = Len(rest) + 1
      /\ \A i \in 2 .. Len(stack) : i - 1 \in 1 .. Len(rest) /\ stack[i] = rest[i - 1]
      /\ OnStack(stack) = OnStack(rest) \cup {f.object}
      /\ DeletedBy(stack) = DeletedBy(rest) \cup (IF f.next = NoReset THEN {} ELSE {f.object})
  BY <1>3 DEF Pushed
<1>6. MembersLive'
  BY <1>1, <1>5 DEF IInv, MembersLive
<1>7. CASE f.next = NoReset
  <2>1. FramesOK(own, made, exists, held, rest, FALSE)
    <3>1. SUFFICES ASSUME NEW j \in 1 .. Len(rest), rest[j].next # NoReset
                   PROVE  j = Len(rest) /\ ResetOK(own, made, exists, held, FALSE, rest[j])
      BY DEF FramesOK
    <3> DEFINE i == j + 1
    <3>2. Len(rest) \in Nat
      BY <1>3
    <3>3. i \in 2 .. Len(stack) /\ i - 1 = j /\ (i = Len(stack) => j = Len(rest))
      BY <1>5, <3>1, <3>2
    <3> HIDE DEF i
    <3>4. i \in 1 .. Len(stack) /\ stack[i] = rest[j]
      BY <1>5, <3>3
    <3> QED
      BY <1>2, <3>1, <3>3, <3>4 DEF FramesOK
  <2>2. DeletedBy(stack) = DeletedBy(rest) /\ own' = own
    BY <1>1, <1>5, <1>7
  <2>3. Sound(own', made', exists', held', stack', undefined')
    BY <1>1, <1>2, <1>3, <2>1, <2>2 DEF Sound
  <2> QED
    BY <1>1, <1>6, <2>3 DEF IInv
<1>8. CASE f.next # NoReset
  <2> DEFINE n == f.next.node
             p == f.next.to
  <2>1. 1 = Len(stack) /\ ResetOK(own, made, exists, held, FALSE, f)
    BY <1>2, <1>3, <1>8 DEF FramesOK
  <2>2. /\ n \in made
        /\ p \in (exists \ held) \cup {NoObject}
        /\ p # NoObject => \A m \in made : OP_GetPointer(own, m) # p
        /\ f.object \notin exists
        /\ OP_GetPointer(own, n) = f.object
    BY <2>1 DEF ResetOK
  <2>3. own' = OP_SetPointer(own, n, p)
    BY <1>1, <1>8
  <2>4. Len(rest) = 0
    BY <1>3, <1>5, <2>1
  <2>5. rest = <<>>
    BY <1>3, <2>4
  <2> HIDE DEF n, p
  <2>6. DeletedBy(stack) = {f.object}
    <3>1. DeletedBy(rest) = {}
      BY <2>5 DEF DeletedBy
    <3> QED
      BY <1>5, <1>8, <3>1
  <2>7. Led(own, own', made, n, p)
    <3>1. p \in Object \cup {NoObject}
      BY <1>2, <2>2
    <3> QED
      BY <1>2, <2>2, <2>3, <3>1, SetPointerOK
  <2>8. Apart(own', made)
    <3>1. p = NoObject \/ \A m \in made : OP_GetPointer(own, m) # p
      BY <2>2
    <3> QED
      BY <1>2, <2>2, <2>7, <3>1, LedApart
  <2>9. NoObject \notin exists /\ f.object # NoObject
    BY <1>2, <1>4, StrongPtrAssumption
  <2>10. \A m \in made : OP_GetPointer(own, m) = f.object => m \in Mates(own, made, n)
    BY <1>2, <2>2, <2>9 DEF Apart
  <2>11. /\ Good(own', made)
         /\ \A m \in made : OP_GetPointer(own', m) =
              IF m \in Mates(own, made, n) THEN p ELSE OP_GetPointer(own, m)
    BY <2>7 DEF Led
  <2>12. \A m \in made : /\ OP_GetPointer(own', m) \notin held
                         /\ OP_GetPointer(own', m) \in exists \cup {NoObject}
    BY <1>2, <2>2, <2>6, <2>9, <2>10, <2>11
  <2>13. Quiet(own', made', exists', held')
    BY <1>1, <1>2, <2>8, <2>11, <2>12 DEF Quiet
  <2>14. Sound(own', made', exists', held', stack', undefined')
    BY <1>1, <1>2, <2>5, <2>13, StillQuiet
  <2> QED
    BY <1>1, <1>6, <2>14 DEF IInv
<1> QED
  BY <1>7, <1>8

\* The invariant holds at first, with either policy.
LEMMA InitKeeps == Init => IInv
<1> SUFFICES ASSUME Init PROVE IInv
  OBVIOUS
<1>1. /\ own \in {Counts!NoOwners, NotLinked}
      /\ made = {} /\ exists = {} /\ held = {} /\ stack = <<>> /\ undefined = FALSE
  BY DEF Init, OP_None
<1>2. Good(own, {})
  <2>1. CASE own = Counts!NoOwners
    <3>1. own \in Counts!OwnType
      BY <2>1 DEF Counts!NoOwners, Counts!OwnType, Counts!Unused
    <3>2. own.used = {}
      BY <2>1 DEF Counts!NoOwners
    <3>3. CountsGood(own, {})
      BY <3>1, <3>2 DEF CountsGood
    <3> QED
      BY <3>3, WhichPolicy
  <2>2. CASE own = NotLinked
    <3>1. own \in LinkedType /\ own.links = Unlinked
      BY <2>2 DEF NotLinked, LinkedType, Links, Unlinked
    <3>2. Mutual(own.links, {})
      BY <3>1 DEF Mutual, LinkedType, Unlinked
    <3>3. LinkedGood(own, {})
      BY <3>1, <3>2 DEF LinkedGood, Alike
    <3> QED
      BY <3>3, WhichPolicy
  <2> QED
    BY <1>1, <2>1, <2>2
<1>3. Quiet(own, made, exists, held)
  BY <1>1, <1>2 DEF Quiet, Apart
<1>4. Sound(own, made, exists, held, stack, undefined)
  BY <1>1, <1>3, StillQuiet
<1> QED
  BY <1>1, <1>4 DEF IInv, MembersLive

\* Every step keeps the invariant.
LEMMA NextKeeps == IInv /\ [Next]_vars => IInv'
<1> SUFFICES ASSUME IInv, [Next]_vars PROVE IInv'
  OBVIOUS
<1>1. ASSUME NEW o \in Object, NewObject(o) PROVE IInv'
  BY <1>1, NewObjectKeeps
<1>2. ASSUME NEW n \in Node, NEW o \in Object \cup {NoObject}, Construct(n, o) PROVE IInv'
  BY <1>2, ConstructKeeps
<1>3. ASSUME NEW n \in Node, NEW o \in Object \cup {NoObject}, AssignPointer(n, o) PROVE IInv'
  BY <1>3, AssignPointerKeeps
<1>4. ASSUME NEW n \in Node, NEW o \in Object \cup {NoObject}, ResetAll(n, o) PROVE IInv'
  BY <1>4, ResetAllKeeps
<1>5. ASSUME NEW n \in Node, NEW m \in Node, Copy(n, m) PROVE IInv'
  BY <1>5, CopyKeeps
<1>6. ASSUME NEW n \in Node, NEW m \in Node, Assign(n, m) PROVE IInv'
  BY <1>6, AssignKeeps
<1>7. ASSUME NEW n \in Node, NEW m \in Node, Swap(n, m) PROVE IInv'
  BY <1>7, SwapKeeps
<1>8. ASSUME NEW n \in Node, Destroy(n) PROVE IInv'
  BY <1>8, DestroyKeeps
<1>9. ASSUME NEW n \in Node, ReleaseAll(n) PROVE IInv'
  BY <1>9, ReleaseAllKeeps
<1>10. CASE DestroyMember
  BY <1>10, DestroyMemberKeeps
<1>11. CASE Return
  BY <1>11, ReturnKeeps
<1>12. CASE UNCHANGED vars
  BY <1>12 DEF IInv, MembersLive, vars
<1> QED
  BY <1>1, <1>2, <1>3, <1>4, <1>5, <1>6, <1>7, <1>8, <1>9, <1>10, <1>11, <1>12 DEF Next

(* Whatever the policy and however destructors nest, pointers that lead to  *)
(* one object share it, none leads to an object the client holds, and at    *)
(* most the outermost deletion is one of ResetAll.                          *)
THEOREM StrongInvariance == Spec => []IInv
<1>1. QED
  BY InitKeeps, NextKeeps, PTL DEF Spec

\* The copointers that StrongPtr.tla speaks of are those of the lemmas.
LEMMA CopointersAreMates == \A n : Copointer(n) = Mates(own, made, n)
BY DEF Copointer, Mates, Sharers, Ring

\* The objects that a ResetAll is deleting are those of its frames.
LEMMA ResettingIsDeleted == Resetting = DeletedBy(stack)
BY DEF Resetting, DeletedBy

(* A StrongPtr leads to an object that exists, or to nothing, also while    *)
(* its former object is being destroyed (~StrongPtr zaps before it          *)
(* deletes); only ResetAll deletes an object to which pointers still lead.  *)
THEOREM StrongPtrsDoNotDangle == Spec => []NoDangling
<1>1. IInv => NoDangling
  BY ResettingIsDeleted DEF IInv, Sound, NoDangling, Pointee
<1>2. QED
  BY <1>1, StrongInvariance, PTL

(* No chain of destructors deletes an object twice, unless ResetAll began   *)
(* it.                                                                      *)
THEOREM DoubleDeletionTakesAReset == Spec => []DeletedOnceOutsideReset
<1>1. IInv => DeletedOnceOutsideReset
  BY ResettingIsDeleted DEF IInv, Sound, DeletedOnceOutsideReset
<1>2. QED
  BY <1>1, StrongInvariance, PTL

\* The invariant implies that the variables have their types.
LEMMA Typed == IInv => TypeOK
<1> SUFFICES ASSUME IInv PROVE TypeOK
  OBVIOUS
<1>1. /\ Good(own, made) /\ exists \subseteq Object /\ held \subseteq exists
      /\ stack \in Seq(Frame) /\ undefined \in BOOLEAN
      /\ FramesOK(own, made, exists, held, stack, undefined)
      /\ made \subseteq Node \ Temp
  BY DEF IInv, Sound
<1>2. own \in OP_Type
  BY <1>1 DEF Good, CountsGood, LinkedGood, OP_Type
<1>3. ASSUME NEW i \in DOMAIN stack
      PROVE  /\ stack[i].object \in Object
             /\ stack[i].next \in [node : made, to : Object \cup {NoObject}] \cup {NoReset}
  <2>1. i \in 1 .. Len(stack)
    BY <1>1
  <2>2. stack[i] \in Frame
    BY <1>1, <2>1
  <2>3. stack[i].next = NoReset \/ ResetOK(own, made, exists, held, undefined, stack[i])
    BY <1>1, <2>1 DEF FramesOK
  <2>4. stack[i].next # NoReset => stack[i].next.node \in made
    BY <2>3 DEF ResetOK
  <2> QED
    BY <2>2, <2>4 DEF Frame
<1> QED
  BY <1>1, <1>2, <1>3 DEF TypeOK

(* TwoRefCounts counts exactly the strong and the weak pointers that share  *)
(* a record and frees it with the last of them; the links of TwoRefLinks    *)
(* are cycles of the pointers there are, whose nodes lead to one object.    *)
THEOREM PolicyKnowsWhoShares == Spec => []PolicyDataExact
<1>1. IInv => PolicyDataExact
  <2> SUFFICES ASSUME IInv PROVE PolicyDataExact
    OBVIOUS
  <2>1. TypeOK /\ Good(own, made)
    BY Typed DEF IInv, Sound
  <2>2. CASE HasCounts(own)
    <3>1. CountsGood(own, made)
      BY <2>1, <2>2 DEF Good
    <3>2. \A n : Copointer(n) = Sharers(own, made, n)
      BY <2>2, CopointersAreMates DEF Mates
    <3>3. CountsExact
      BY <3>1, <3>2 DEF CountsExact, CountsGood
    <3> QED
      BY <2>1, <2>2, <3>3 DEF PolicyDataExact
  <2>3. CASE ~HasCounts(own)
    <3>1. LinkedGood(own, made)
      BY <2>1, <2>3 DEF Good
    <3>2. CyclesSound
      BY <3>1 DEF CyclesSound, LinkedGood, Mutual, Alike
    <3> QED
      BY <2>1, <2>3, <3>2 DEF PolicyDataExact
  <2> QED
    BY <2>2, <2>3
<1>2. QED
  BY <1>1, StrongInvariance, PTL

-----------------------------------------------------------------------------
(* The comparisons *)

\* What the operators answer for two StrongPtrs that lead to p and to q.
LEMMA OneOrder ==
  ASSUME NEW p \in Object \cup {NoObject}, NEW q \in Object \cup {NoObject}
  PROVE  LET both == Compare(p, q) IN
         /\ both.eq <=> p = q
         /\ both.ne = ~both.eq
         /\ both.le = (both.lt \/ both.eq)
         /\ both.ge = (both.gt \/ both.eq)
         /\ both.gt = Less(q, p)
         /\ ~(both.lt /\ both.gt)
<1> DEFINE x == Address[p]
           y == Address[q]
<1>1. x \in Nat /\ y \in Nat /\ (x = y <=> p = q)
  BY AddressAssumption
<1> DEFINE both == Compare(p, q)
<1>2. both = [eq |-> y = x, ne |-> ~(y = x), lt |-> y > x, gt |-> y < x,
              le |-> ~(y < x), ge |-> ~(y > x)]
  BY DEF Compare, Equals, LessThan, GreaterThan
<1>3. Less(q, p) = (x > y)
  BY DEF Less, Compare, GreaterThan
<1> HIDE DEF x, y, both
<1>4. /\ both.eq = (y = x) /\ both.ne = ~(y = x) /\ both.lt = (y > x) /\ both.gt = (y < x)
      /\ both.le = ~(y < x) /\ both.ge = ~(y > x)
  BY <1>2
<1>5. CASE y > x
  <2>1. (y > x) = TRUE /\ (x > y) = FALSE /\ (y = x) = FALSE /\ (y < x) = FALSE
    BY <1>1, <1>5
  <2>2. /\ both.eq = FALSE /\ both.ne = TRUE /\ both.lt = TRUE /\ both.gt = FALSE
        /\ both.le = TRUE /\ both.ge = FALSE /\ Less(q, p) = FALSE /\ p # q
    BY <1>1, <1>3, <1>4, <2>1
  <2> QED
    BY <2>2 DEF both
<1>6. CASE y = x
  <2>1. (y > x) = FALSE /\ (x > y) = FALSE /\ (y = x) = TRUE /\ (y < x) = FALSE
    BY <1>1, <1>6
  <2>2. /\ both.eq = TRUE /\ both.ne = FALSE /\ both.lt = FALSE /\ both.gt = FALSE
        /\ both.le = TRUE /\ both.ge = TRUE /\ Less(q, p) = FALSE /\ p = q
    BY <1>1, <1>3, <1>4, <2>1
  <2> QED
    BY <2>2 DEF both
<1>7. CASE y < x
  <2>1. (y > x) = FALSE /\ (x > y) = TRUE /\ (y = x) = FALSE /\ (y < x) = TRUE
    BY <1>1, <1>7
  <2>2. /\ both.eq = FALSE /\ both.ne = TRUE /\ both.lt = FALSE /\ both.gt = TRUE
        /\ both.le = FALSE /\ both.ge = TRUE /\ Less(q, p) = TRUE /\ p # q
    BY <1>1, <1>3, <1>4, <2>1
  <2> QED
    BY <2>2 DEF both
<1> QED
  BY <1>1, <1>5, <1>6, <1>7

\* Comparisons with plain pointers answer as those of StrongPtrs do.
LEMMA PlainPointers ==
  ASSUME NEW s \in Object \cup {NoObject}, NEW o \in Object \cup {NoObject}
  PROVE  LET right == Compare(s, o)
             left == Compare(o, s)
         IN /\ CompareEqual(s, o) = [eq |-> right.eq, ne |-> left.ne]
            /\ CompareLess(s, o) = [left |-> right.lt, right |-> left.lt]
            /\ CompareGreater(s, o) = [left |-> right.gt, right |-> left.gt]
            /\ CompareLessEqual(s, o) = [left |-> right.le, right |-> left.le]
            /\ CompareGreaterEqual(s, o) = [left |-> right.ge, right |-> left.ge]
BY AddressAssumption DEF CompareEqual, CompareLess, CompareGreater, CompareLessEqual,
   CompareGreaterEqual, Compare, Equals, LessThan, GreaterThan

(* The comparisons of StrongPtrs and plain pointers answer as one order     *)
(* does, and two StrongPtrs are equal exactly if they share or both lead to *)
(* nothing.                                                                 *)
THEOREM ComparisonsTell == Spec => []ComparisonsTellWhoShares
<1>1. IInv => ComparisonsTellWhoShares
  <2> SUFFICES ASSUME IInv PROVE ComparisonsTellWhoShares
    OBVIOUS
  <2>1. Good(own, made) /\ Apart(own, made)
    BY DEF IInv, Sound
  <2>2. \A n \in made : /\ Pointee(n) \in Object \cup {NoObject}
                        /\ n \in Copointer(n)
                        /\ \A m \in Copointer(n) : /\ Copointer(m) = Copointer(n)
                                                   /\ Pointee(m) = Pointee(n)
    BY <2>1, MatesOK, CopointersAreMates DEF Pointee
  <2>3. \A a, b \in made : Pointee(a) = Pointee(b) /\ Pointee(a) # NoObject => b \in Copointer(a)
    BY <2>1, CopointersAreMates DEF Apart, Pointee
  <2>4. \A p \in Object \cup {NoObject} : IsNull(p) <=> p = NoObject
    BY AddressAssumption DEF IsNull
  <2>5. ASSUME NEW a \in made, NEW b \in made
        PROVE  LET both == Compare(Pointee(a), Pointee(b)) IN
               /\ both.eq <=> Copointer(a) = Copointer(b) \/ (IsNull(Pointee(a)) /\ IsNull(Pointee(b)))
               /\ both.ne = ~both.eq
               /\ both.le = (both.lt \/ both.eq)
               /\ both.ge = (both.gt \/ both.eq)
               /\ both.gt = Less(Pointee(b), Pointee(a))
               /\ ~(both.lt /\ both.gt)
               /\ \A c \in Copointer(a) : Less(Pointee(c), Pointee(b)) = both.lt
    <3> DEFINE p == Pointee(a)
               q == Pointee(b)
               both == Compare(p, q)
    <3>1. p \in Object \cup {NoObject} /\ q \in Object \cup {NoObject}
      BY <2>2
    <3>2. p = q <=> Copointer(a) = Copointer(b) \/ (IsNull(p) /\ IsNull(q))
      BY <2>2, <2>3, <2>4, <3>1
    <3>3. \A c \in Copointer(a) : Pointee(c) = p
      BY <2>2
    <3> HIDE DEF p, q
    <3>4. /\ both.eq <=> p = q
          /\ both.ne = ~both.eq
          /\ both.le = (both.lt \/ both.eq)
          /\ both.ge = (both.gt \/ both.eq)
          /\ both.gt = Less(q, p)
          /\ ~(both.lt /\ both.gt)
      BY <3>1, OneOrder
    <3>5. \A c \in Copointer(a) : Less(Pointee(c), q) = both.lt
      BY <3>3 DEF Less
    <3> HIDE DEF both
    <3>6. both.eq <=> Copointer(a) = Copointer(b) \/ (IsNull(p) /\ IsNull(q))
      BY <3>2, <3>4
    <3> QED
      BY <3>4, <3>5, <3>6 DEF p, q, both
  <2>6. ASSUME NEW a \in made, NEW o \in Object \cup {NoObject}
        PROVE  LET s == Pointee(a)
                   right == Compare(s, o)
                   left == Compare(o, s)
               IN /\ CompareEqual(s, o) = [eq |-> right.eq, ne |-> left.ne]
                  /\ CompareLess(s, o) = [left |-> right.lt, right |-> left.lt]
                  /\ CompareGreater(s, o) = [left |-> right.gt, right |-> left.gt]
                  /\ CompareLessEqual(s, o) = [left |-> right.le, right |-> left.le]
                  /\ CompareGreaterEqual(s, o) = [left |-> right.ge, right |-> left.ge]
    BY <2>2, PlainPointers
  <2> QED
    BY <2>5, <2>6 DEF ComparisonsTellWhoShares
<1>2. QED
  BY <1>1, StrongInvariance, PTL
-----------------------------------------------------------------------------
(* Implementing Copointers *)

\* The copointers of each pointer, and the object that it leads to.
MatesOf(s, M) == [n \in M |-> Mates(s, M, n)]

LeadsOf(s, M, ex) ==
  [n \in Node |-> IF n \in M /\ OP_GetPointer(s, n) \in ex THEN OP_GetPointer(s, n) ELSE NoObject]

\* The pointers that lead to nothing once n has gone.
Forsaken(s, M, n) == IF IsLast(s, M, n) THEN Mates(s, M, n) ELSE {n}

\* The variables of the specification of copointers, by the state of the policy.
LEMMA AbstractStateIs ==
  /\ Groups = Parts(MatesOf(own, made), made)
  /\ Groups' = Parts(MatesOf(own', made'), made')
  /\ Leads = LeadsOf(own, made, exists)
  /\ Leads' = LeadsOf(own', made', exists')
<1>1. Groups = Parts(MatesOf(own, made), made)
  <2>1. \A n : Copointer(n) = Mates(own, made, n)
    BY CopointersAreMates
  <2> QED
    BY <2>1 DEF Groups, Parts, MatesOf
<1>2. Groups' = Parts(MatesOf(own', made'), made')
  <2>1. \A n : Copointer(n)' = Mates(own', made', n)
    BY DEF Copointer, Mates, Sharers, Ring
  <2> QED
    BY <2>1 DEF Groups, Parts, MatesOf
<1> QED
  BY <1>1, <1>2 DEF Leads, LeadsOf, Pointee

\* Copointers are classes.
LEMMA MatesAreClasses ==
  ASSUME NEW s, NEW M, Good(s, M)
  PROVE  Classes(MatesOf(s, M), M)
BY MatesOK DEF Classes, MatesOf

\* Where a pointer leads.
LEMMA LeadsAre ==
  ASSUME NEW s, NEW M, NEW ex, NEW n \in Node
  PROVE  /\ n \in M /\ OP_GetPointer(s, n) \in ex \cup {NoObject}
              => LeadsOf(s, M, ex)[n] = OP_GetPointer(s, n)
         /\ ~(n \in M /\ OP_GetPointer(s, n) \in ex) => LeadsOf(s, M, ex)[n] = NoObject
BY DEF LeadsOf

\* The group that the specification chooses for n is that of its copointers.
LEMMA AbstractGroups ==
  ASSUME Good(own, made)
  PROVE  /\ Abstract!Member = made
         /\ \A n \in made : Abstract!GroupOf(n) = Mates(own, made, n)
<1> DEFINE f == MatesOf(own, made)
<1>1. Classes(f, made) /\ Groups = Parts(f, made)
  BY MatesAreClasses, AbstractStateIs
<1>2. \A n \in made : f[n] = Mates(own, made, n)
  BY DEF MatesOf
<1> HIDE DEF f
<1>3. \A n \in made : /\ n \in f[n] /\ f[n] \subseteq made
                      /\ \A m \in f[n] : f[m] = f[n]
  BY <1>1 DEF Classes
<1>4. Groups = {f[n] : n \in made}
  BY <1>1 DEF Parts
<1>5. Abstract!Member = made
  BY <1>3, <1>4 DEF Abstract!Member
<1>6. ASSUME NEW n \in made PROVE Abstract!GroupOf(n) = f[n]
  <2>1. f[n] \in Groups /\ n \in f[n]
    BY <1>3, <1>4
  <2>2. \A g \in Groups : n \in g => g = f[n]
    BY <1>3, <1>4
  <2> QED
    BY <2>1, <2>2 DEF Abstract!GroupOf
<1> QED
  BY <1>2, <1>5, <1>6

\* What a pointer that leaves its group does to the three variables.
LEMMA AbstractLeaves ==
  ASSUME Good(own, made), NEW n \in made
  PROVE  /\ Abstract!GroupsWithout(n) =
              {LeftTogether(Groups, Mates(own, made, n), n)} \cup
              (IF IsLast(own, made, n) THEN {LeftParted(Groups, Mates(own, made, n), n)} ELSE {})
         /\ Abstract!PointeeWithout(n) =
              [m \in Node |-> IF m \in Forsaken(own, made, n) THEN NoObject ELSE Leads[m]]
         /\ Abstract!ExistsWithout(n) =
              IF IsLast(own, made, n) THEN exists \ {Leads[n]} ELSE exists
<1>1. Abstract!GroupOf(n) = Mates(own, made, n)
  BY AbstractGroups
<1>2. Abstract!Abandons(n) <=> IsLast(own, made, n)
  BY <1>1 DEF Abstract!Abandons, IsLast
<1>3. Abstract!GroupsWithout(n) =
        {LeftTogether(Groups, Mates(own, made, n), n)} \cup
        (IF IsLast(own, made, n) THEN {LeftParted(Groups, Mates(own, made, n), n)} ELSE {})
  BY <1>1, <1>2 DEF Abstract!GroupsWithout, LeftTogether, LeftParted
<1>4. Abstract!PointeeWithout(n) =
        [m \in Node |-> IF m \in Forsaken(own, made, n) THEN NoObject ELSE Leads[m]]
  BY <1>1, <1>2 DEF Abstract!PointeeWithout, Forsaken
<1>5. Abstract!ExistsWithout(n) =
        IF IsLast(own, made, n) THEN exists \ {Leads[n]} ELSE exists
  BY <1>2 DEF Abstract!ExistsWithout
<1> QED
  BY <1>3, <1>4, <1>5

-----------------------------------------------------------------------------
(* ~StrongPtr: the classes, and where pointers lead *)

\* Those that the pointer that goes leaves stay together, or they part if it
\* was the last strong one.
LEMMA GoneParts ==
  ASSUME NEW s, NEW M, Good(s, M), NEW n \in M, NEW r, Gone(s, r, M, n)
  PROVE  \/ LeavesClass(MatesOf(s, M), MatesOf(r, M \ {n}), M, n)
         \/ IsLast(s, M, n) /\ PartsClass(MatesOf(s, M), MatesOf(r, M \ {n}), M, n)
<1> DEFINE f == MatesOf(s, M)
           g == MatesOf(r, M \ {n})
<1>1. /\ \A m \in M : f[m] = Mates(s, M, m)
      /\ \A m \in M \ {n} : g[m] = Mates(r, M \ {n}, m)
  BY DEF MatesOf
<1>2. CASE \A m \in M \ {n} : Mates(r, M \ {n}, m) = Mates(s, M, m) \ {n}
  <2>1. \A m \in M \ {n} : g[m] = f[m] \ {n}
    BY <1>1, <1>2
  <2> QED
    BY <2>1 DEF LeavesClass
<1>3. CASE IsLast(s, M, n) /\ \A m \in Mates(s, M, n) \ {n} : Mates(r, M \ {n}, m) = {m}
  <2>1. \A m \in M \ {n} : m \notin f[n] => g[m] = f[m] \ {n}
    BY <1>1 DEF Gone
  <2>2. \A m \in M \ {n} : m \notin f[n] => n \notin f[m]
    <3>1. Classes(f, M)
      BY MatesAreClasses
    <3> HIDE DEF f
    <3> QED
      BY <3>1 DEF Classes
  <2>3. ASSUME NEW m \in M \ {n} PROVE g[m] = IF m \in f[n] THEN {m} ELSE f[m]
    <3>1. CASE m \in f[n]
      <4>1. m \in Mates(s, M, n) \ {n}
        BY <1>1, <3>1
      <4>2. Mates(r, M \ {n}, m) = {m}
        BY <1>3, <4>1
      <4> QED
        BY <1>1, <3>1, <4>2
    <3>2. CASE m \notin f[n]
      <4>1. g[m] = f[m] \ {n} /\ n \notin f[m]
        BY <2>1, <2>2, <3>2
      <4> QED
        BY <3>2, <4>1
    <3> QED
      BY <3>1, <3>2
  <2> QED
    BY <1>3, <2>3 DEF PartsClass
<1> QED
  BY <1>2, <1>3 DEF Gone, StayOrPart

\* The last strong pointer takes the object, and where its copointers lead.
LEMMA LetGoLeads ==
  ASSUME NEW s, NEW M, Good(s, M), Apart(s, M), NEW n \in M, LetGo(s, n),
         exists \subseteq Object
  PROVE  /\ Gone(s, own', M, n)
         /\ exists' = IF IsLast(s, M, n) THEN exists \ {LeadsOf(s, M, exists)[n]} ELSE exists
         /\ \A m \in Node : LeadsOf(own', M \ {n}, exists')[m] =
              IF m \in Forsaken(s, M, n) THEN NoObject ELSE LeadsOf(s, M, exists)[m]
<1> DEFINE released == OP_Release(s, n, n \in Strong)
           P(m) == OP_GetPointer(s, m)
           L == M \ {n}
<1>1. own' = Left(s, n)
  BY DEF LetGo, Left
<1>2. /\ released.last <=> IsLast(s, M, n)
      /\ OP_GetPointer(released.own, n) = P(n)
      /\ Gone(s, own', M, n)
  BY <1>1, LeaveOK
<1>3. IF released.last /\ P(n) # NoObject THEN Delete(P(n), NoReset)
      ELSE UNCHANGED <<exists, stack, undefined>>
  BY <1>2 DEF LetGo
<1> HIDE DEF released
<1>4. exists' = IF IsLast(s, M, n) THEN exists \ {P(n)} ELSE exists
  <2>1. NoObject \notin exists
    BY StrongPtrAssumption
  <2> QED
    BY <1>2, <1>3, <2>1 DEF Delete
<1>5. NoObject \notin exists /\ M \subseteq Node /\ n \in Node
  BY StrongPtrAssumption, MatesOK
<1>6. exists \ {P(n)} = exists \ {LeadsOf(s, M, exists)[n]}
  BY <1>5 DEF LeadsOf
<1>7. /\ \A m \in Mates(s, M, n) : P(m) = P(n)
      /\ \A m \in M : P(m) = P(n) /\ P(n) # NoObject => m \in Mates(s, M, n)
      /\ n \in Mates(s, M, n) /\ Mates(s, M, n) \subseteq M
  BY MatesOK DEF Apart
<1>8. \A m \in L : OP_GetPointer(own', m) =
         IF IsLast(s, M, n) /\ m \in Mates(s, M, n) THEN NoObject ELSE P(m)
  BY <1>2 DEF Gone
<1>9. ASSUME NEW m \in Node
      PROVE  LeadsOf(own', L, exists')[m] =
               IF m \in Forsaken(s, M, n) THEN NoObject ELSE LeadsOf(s, M, exists)[m]
  <2>1. LeadsOf(own', L, exists')[m] =
          IF m \in L /\ OP_GetPointer(own', m) \in exists' THEN OP_GetPointer(own', m) ELSE NoObject
    BY DEF LeadsOf
  <2>2. LeadsOf(s, M, exists)[m] = IF m \in M /\ P(m) \in exists THEN P(m) ELSE NoObject
    BY DEF LeadsOf
  <2>3. CASE m \in Forsaken(s, M, n)
    <3>1. CASE m = n
      BY <2>1, <2>3, <3>1
    <3>2. CASE m # n
      <4>1. IsLast(s, M, n) /\ m \in Mates(s, M, n) /\ m \in L
        BY <1>7, <2>3, <3>2 DEF Forsaken
      <4>2. OP_GetPointer(own', m) = NoObject
        BY <1>8, <4>1
      <4> QED
        BY <2>1, <2>3, <4>2
    <3> QED
      BY <3>1, <3>2
  <2>4. CASE m \notin Forsaken(s, M, n)
    <3>1. m # n /\ ~(IsLast(s, M, n) /\ m \in Mates(s, M, n))
      BY <1>7, <2>4 DEF Forsaken
    <3>2. CASE m \notin M
      BY <2>1, <2>2, <2>4, <3>2
    <3>3. CASE m \in M
      <4>1. m \in L /\ OP_GetPointer(own', m) = P(m)
        BY <1>8, <3>1, <3>3
      <4>2. P(m) \in exists' <=> P(m) \in exists
        BY <1>4, <1>5, <1>7, <3>1, <3>3
      <4> QED
        BY <2>1, <2>2, <2>4, <3>3, <4>1, <4>2
    <3> QED
      BY <3>2, <3>3
  <2> QED
    BY <2>3, <2>4
<1> QED
  BY <1>2, <1>4, <1>6, <1>9

(* A pointer that is destroyed leaves its group. *)
LEMMA LeaveRefines ==
  ASSUME IInv, NEW n \in made, LetGo(own, n), made' = made \ {n}
  PROVE  Abstract!Leave(n)
<1>1. Good(own, made) /\ Apart(own, made) /\ exists \subseteq Object
  BY DEF IInv, Sound
<1>2. /\ Gone(own, own', made, n)
      /\ exists' = IF IsLast(own, made, n) THEN exists \ {LeadsOf(own, made, exists)[n]} ELSE exists
      /\ \A m \in Node : LeadsOf(own', made \ {n}, exists')[m] =
           IF m \in Forsaken(own, made, n) THEN NoObject ELSE LeadsOf(own, made, exists)[m]
  BY <1>1, LetGoLeads
<1>3. n \in Abstract!Member
  BY <1>1, AbstractGroups
<1>4. exists' = Abstract!ExistsWithout(n)
  BY <1>1, <1>2, AbstractLeaves, AbstractStateIs
<1>5. Leads' = Abstract!PointeeWithout(n)
  <2>1. Leads' = [m \in Node |-> Leads'[m]]
    BY DEF Leads
  <2>2. \A m \in Node : Leads'[m] = IF m \in Forsaken(own, made, n) THEN NoObject ELSE Leads[m]
    BY <1>2, AbstractStateIs
  <2> QED
    BY <1>1, <2>1, <2>2, AbstractLeaves
<1>6. Groups' \in Abstract!GroupsWithout(n)
  <2> DEFINE f == MatesOf(own, made)
             g == MatesOf(own', made')
  <2>1. Classes(f, made) /\ f[n] = Mates(own, made, n)
    BY <1>1, MatesAreClasses DEF MatesOf
  <2>2. LeavesClass(f, g, made, n) \/ (IsLast(own, made, n) /\ PartsClass(f, g, made, n))
    BY <1>1, <1>2, GoneParts
  <2>3. Groups = Parts(f, made) /\ Groups' = Parts(g, made \ {n})
    BY AbstractStateIs
  <2> HIDE DEF f, g
  <2>4. CASE LeavesClass(f, g, made, n)
    <3>1. Groups' = LeftTogether(Groups, Mates(own, made, n), n)
      BY <2>1, <2>3, <2>4, ClassTogether
    <3> QED
      BY <1>1, <3>1, AbstractLeaves
  <2>5. CASE IsLast(own, made, n) /\ PartsClass(f, g, made, n)
    <3>1. Groups' = LeftParted(Groups, Mates(own, made, n), n)
      BY <2>1, <2>3, <2>5, ClassParted
    <3> QED
      BY <1>1, <2>5, <3>1, AbstractLeaves
  <2> QED
    BY <2>2, <2>4, <2>5
<1> QED
  BY <1>3, <1>4, <1>5, <1>6 DEF Abstract!Leave

-----------------------------------------------------------------------------
(* The steps that delete nothing *)

\* The object that a pointer leads to exists, when the client's code runs.
LEMMA IdleLeads ==
  ASSUME IInv, Idle
  PROVE  /\ Good(own, made) /\ Apart(own, made) /\ exists \subseteq Object
         /\ held \subseteq exists /\ made \subseteq Node \ Temp
         /\ \A m \in made : OP_GetPointer(own, m) \in exists \cup {NoObject}
         /\ \A m \in made : Leads[m] = OP_GetPointer(own, m)
         /\ \A m \in Node \ made : Leads[m] = NoObject
<1>1. Quiet(own, made, exists, held)
  BY WhenIdle
<1>2. made \subseteq Node \ Temp
  BY DEF IInv
<1> QED
  BY <1>1, <1>2 DEF Quiet, Leads, Pointee

\* A pointer is constructed, alone.
LEMMA CreatedRefines ==
  ASSUME IInv, Idle, NEW n \in Node \ made, NEW p,
         Created(own, own', made, n, p), made' = made \cup {n}
  PROVE  /\ n \notin Abstract!Member
         /\ Groups' = Groups \cup {{n}}
         /\ exists \subseteq exists' /\ p \in exists' \cup {NoObject}
              => Leads' = [Leads EXCEPT ![n] = p]
<1>1. /\ Good(own, made) /\ exists \subseteq Object
      /\ \A m \in made : OP_GetPointer(own, m) \in exists \cup {NoObject}
      /\ \A m \in made : Leads[m] = OP_GetPointer(own, m)
      /\ \A m \in Node \ made : Leads[m] = NoObject
  BY IdleLeads
<1>2. n \notin Abstract!Member
  BY <1>1, AbstractGroups
<1>3. Groups' = Groups \cup {{n}}
  <2> DEFINE f == MatesOf(own, made)
             g == MatesOf(own', made')
  <2>1. FoundsClass(f, g, made, n)
    BY DEF FoundsClass, MatesOf, Created
  <2>2. Groups = Parts(f, made) /\ Groups' = Parts(g, made \cup {n})
    BY AbstractStateIs
  <2> HIDE DEF f, g
  <2> QED
    BY <2>1, <2>2, ClassFounded
<1>4. ASSUME exists \subseteq exists', p \in exists' \cup {NoObject}
      PROVE  Leads' = [Leads EXCEPT ![n] = p]
  <2>1. /\ OP_GetPointer(own', n) = p
        /\ \A m \in made : OP_GetPointer(own', m) = OP_GetPointer(own, m)
    BY DEF Created
  <2>2. \A m \in Node : Leads'[m] = IF m = n THEN p ELSE Leads[m]
    BY <1>1, <1>4, <2>1 DEF Leads, Pointee
  <2>3. Leads' = [m \in Node |-> Leads'[m]] /\ Leads = [m \in Node |-> Leads[m]]
    BY DEF Leads
  <2> QED
    BY <2>2, <2>3
<1> QED
  BY <1>2, <1>3, <1>4

\* The member of a new object founds a group.
LEMMA NewObjectRefines ==
  ASSUME IInv, NEW o \in Object, NewObject(o)
  PROVE  Abstract!Make(o, MemberOf[o])
<1> DEFINE n == MemberOf[o]
<1>1. /\ Idle /\ o \notin exists /\ exists' = exists \cup {o}
      /\ own' = OP_Create(own, n, NoObject, n \in Strong)
      /\ made' = made \cup {n}
  BY DEF NewObject
<1>2. n \in Node \ made
  <2>1. n \notin made
    BY <1>1, WhenIdle
  <2> QED
    BY <2>1, StrongPtrAssumption
<1> HIDE DEF n
<1>3. Good(own, made) /\ Cardinality(made) < Cardinality(Info)
  BY <1>1, IdleLeads, Room
<1>4. Created(own, own', made, n, NoObject)
  BY <1>1, <1>2, <1>3, CreateOK
<1>5. Leads' = [Leads EXCEPT ![n] = NoObject] /\ n \notin Abstract!Member
      /\ Groups' = Groups \cup {{n}}
  BY <1>1, <1>2, <1>4, CreatedRefines
<1>6. Abstract!Make(o, n)
  BY <1>1, <1>5 DEF Abstract!Make
<1> QED
  BY <1>6 DEF n

\* So does a pointer that takes an object, or none, from the client.
LEMMA ConstructRefines ==
  ASSUME IInv, NEW n \in Node, NEW o \in Object \cup {NoObject}, Construct(n, o)
  PROVE  Abstract!Found(n, o) /\ o \in exists \cup {NoObject}
<1>1. /\ Idle /\ n \notin made /\ o \in held \cup {NoObject} /\ exists' = exists
      /\ own' = OP_Create(own, n, o, n \in Strong)
      /\ made' = made \cup {n}
  BY DEF Construct, Vacant
<1>2. Good(own, made) /\ Cardinality(made) < Cardinality(Info) /\ held \subseteq exists
  BY <1>1, IdleLeads, Room
<1>3. n \in Node \ made /\ o \in exists \cup {NoObject}
  BY <1>1, <1>2
<1>4. Created(own, own', made, n, o)
  BY <1>1, <1>2, <1>3, CreateOK
<1>5. Leads' = [Leads EXCEPT ![n] = o] /\ n \notin Abstract!Member
      /\ Groups' = Groups \cup {{n}}
  BY <1>1, <1>3, <1>4, CreatedRefines
<1> QED
  BY <1>1, <1>3, <1>5 DEF Abstract!Found

\* A copy joins its source's group.
LEMMA CopyRefines ==
  ASSUME IInv, NEW n \in Node, NEW q \in Node, Copy(n, q)
  PROVE  Abstract!Join(n, q)
<1>1. /\ Idle /\ n \in Node \ made /\ q \in made /\ exists' = exists
      /\ own' = OP_Share(own, n, q, n \in Strong)
      /\ made' = made \cup {n}
  BY DEF Copy, Vacant
<1>2. /\ Good(own, made)
      /\ \A m \in made : OP_GetPointer(own, m) \in exists \cup {NoObject}
      /\ \A m \in made : Leads[m] = OP_GetPointer(own, m)
      /\ \A m \in Node \ made : Leads[m] = NoObject
  BY <1>1, IdleLeads
<1>3. Shared(own, own', made, n, q)
  BY <1>1, <1>2, ShareOK
<1>4. Abstract!Member = made
  BY <1>2, AbstractGroups
<1>5. Groups' = Abstract!JoinIn(Groups, n, q)
  <2> DEFINE f == MatesOf(own, made)
             g == MatesOf(own', made')
  <2>1. JoinsClass(f, g, made, n, q)
    BY <1>1, <1>3 DEF JoinsClass, MatesOf, Shared
  <2>2. Groups = Parts(f, made) /\ Groups' = Parts(g, made \cup {n}) /\ Classes(f, made)
    BY <1>1, <1>2, AbstractStateIs, MatesAreClasses
  <2> HIDE DEF f, g
  <2>3. n \notin made /\ q \in made
    BY <1>1
  <2>4. Parts(g, made \cup {n}) = PartsJoined(Parts(f, made), n, q)
    BY <2>1, <2>2, <2>3, ClassJoined
  <2> QED
    BY <2>2, <2>4 DEF PartsJoined, Abstract!JoinIn
<1>6. Leads' = [Leads EXCEPT ![n] = Leads[q]]
  <2>1. /\ OP_GetPointer(own', n) = OP_GetPointer(own, q)
        /\ \A m \in made : OP_GetPointer(own', m) = OP_GetPointer(own, m)
    BY <1>3 DEF Shared
  <2>2. \A m \in Node : Leads'[m] = IF m = n THEN Leads[q] ELSE Leads[m]
    BY <1>1, <1>2, <2>1 DEF Leads, Pointee
  <2>3. Leads' = [m \in Node |-> Leads'[m]] /\ Leads = [m \in Node |-> Leads[m]]
    BY DEF Leads
  <2> QED
    BY <2>2, <2>3
<1> QED
  BY <1>1, <1>4, <1>5, <1>6 DEF Abstract!Join

\* Swap exchanges two places.
LEMMA SwapRefines ==
  ASSUME IInv, NEW a \in Node, NEW b \in Node, Swap(a, b)
  PROVE  Abstract!Exchange(a, b)
<1>1. /\ Idle /\ a \in made /\ b \in made /\ (a \in Strong <=> b \in Strong)
      /\ own' = OP_Swap(own, a, b) /\ made' = made /\ exists' = exists
  BY DEF Swap
<1>2. /\ Good(own, made)
      /\ \A m \in made : OP_GetPointer(own, m) \in exists \cup {NoObject}
      /\ \A m \in made : Leads[m] = OP_GetPointer(own, m)
      /\ \A m \in Node \ made : Leads[m] = NoObject
  BY <1>1, IdleLeads
<1>3. Swapped(own, own', made, a, b)
  BY <1>1, <1>2, SwapOK
<1>4. Abstract!Member = made
  BY <1>2, AbstractGroups
<1>5. Groups' = PartsExchanged(Groups, a, b)
  <2> DEFINE f == MatesOf(own, made)
             g == MatesOf(own', made')
  <2>1. \A m \in made : g[Other(a, b, m)] = {Other(a, b, k) : k \in f[m]}
    <3>1. \A m \in made : Other(a, b, m) \in made
      BY <1>1, OtherTwice
    <3>2. \A m \in made : Mates(own', made, Other(a, b, m)) = {Other(a, b, k) : k \in Mates(own, made, m)}
      BY <1>3 DEF Swapped, Places
    <3> QED
      BY <1>1, <3>1, <3>2 DEF MatesOf
  <2>2. Groups = Parts(f, made) /\ Groups' = Parts(g, made)
    BY <1>1, AbstractStateIs
  <2> HIDE DEF f, g
  <2>3. Parts(g, made) = PartsExchanged(Parts(f, made), a, b)
    BY <1>1, <2>1, ClassExchanged
  <2> QED
    BY <2>2, <2>3
<1>6. Leads' = [Leads EXCEPT ![a] = Leads[b], ![b] = Leads[a]]
  <2>1. \A m \in made : OP_GetPointer(own', Other(a, b, m)) = OP_GetPointer(own, m)
    BY <1>3 DEF Swapped
  <2>2. /\ OP_GetPointer(own', b) = OP_GetPointer(own, a)
        /\ OP_GetPointer(own', a) = OP_GetPointer(own, b)
        /\ \A m \in made \ {a, b} : OP_GetPointer(own', m) = OP_GetPointer(own, m)
    BY <1>1, <2>1 DEF Other
  <2>3. \A m \in Node : Leads'[m] = IF m = b THEN Leads[a] ELSE IF m = a THEN Leads[b] ELSE Leads[m]
    BY <1>1, <1>2, <2>2 DEF Leads, Pointee
  <2>4. Leads' = [m \in Node |-> Leads'[m]] /\ Leads = [m \in Node |-> Leads[m]]
    BY DEF Leads
  <2> QED
    BY <1>1, <2>3, <2>4
<1> QED
  BY <1>1, <1>4, <1>5, <1>6 DEF Abstract!Exchange, PartsExchanged, Other

\* The copointers of n are led elsewhere.
LEMMA LedRefines ==
  ASSUME Good(own, made), NEW n \in made, NEW p, Led(own, own', made, n, p), made' = made
  PROVE  /\ n \in Abstract!Member
         /\ Groups' = Groups
         /\ exists' = exists /\ p \in exists \cup {NoObject} =>
              Leads' = [m \in Node |-> IF m \in Abstract!GroupOf(n) THEN p ELSE Leads[m]]
<1>1. Abstract!Member = made /\ Abstract!GroupOf(n) = Mates(own, made, n)
  BY AbstractGroups
<1>2. Mates(own, made, n) \subseteq made /\ made \subseteq Node
  BY MatesOK
<1>3. Groups' = Groups
  <2>1. MatesOf(own', made') = MatesOf(own, made)
    BY DEF MatesOf, Led
  <2> QED
    BY <2>1, AbstractStateIs
<1>4. ASSUME exists' = exists, p \in exists \cup {NoObject}
      PROVE  Leads' = [m \in Node |-> IF m \in Mates(own, made, n) THEN p ELSE Leads[m]]
  <2>1. \A m \in made : OP_GetPointer(own', m) =
          IF m \in Mates(own, made, n) THEN p ELSE OP_GetPointer(own, m)
    BY DEF Led
  <2>2. \A m \in Node : Leads'[m] = IF m \in Mates(own, made, n) THEN p ELSE Leads[m]
    BY <1>2, <1>4, <2>1 DEF Leads, Pointee
  <2>3. Leads' = [m \in Node |-> Leads'[m]]
    BY DEF Leads
  <2> QED
    BY <2>2, <2>3
<1> QED
  BY <1>1, <1>3, <1>4

\* ReleaseAll leads a group to nothing.
LEMMA ReleaseAllRefines ==
  ASSUME IInv, NEW n \in Node, ReleaseAll(n)
  PROVE  Abstract!Lead(n, NoObject)
<1>1. /\ Idle /\ n \in made /\ own' = OP_SetPointer(own, n, NoObject)
      /\ made' = made /\ exists' = exists
  BY DEF ReleaseAll
<1>2. Good(own, made)
  BY <1>1, IdleLeads
<1>3. Led(own, own', made, n, NoObject)
  BY <1>1, <1>2, SetPointerOK
<1>4. /\ n \in Abstract!Member /\ Groups' = Groups
      /\ Leads' = [m \in Node |-> IF m \in Abstract!GroupOf(n) THEN NoObject ELSE Leads[m]]
  BY <1>1, <1>2, <1>3, LedRefines
<1> QED
  BY <1>1, <1>4 DEF Abstract!Lead

(* ResetAll deletes the object while pointers lead to it: that leads them   *)
(* to nothing, until the destructor returns and ResetAll leads them on.     *)
LEMMA ResetAllRefines ==
  ASSUME IInv, NEW n \in Node, NEW o \in Object \cup {NoObject}, ResetAll(n, o)
  PROVE  \E p \in exists \cup {NoObject} : Abstract!Lead(n, p)
<1> DEFINE p == Pointee(n)
<1>1. /\ Idle /\ n \in made /\ o \in held \cup {NoObject}
      /\ IF p = NoObject THEN own' = OP_SetPointer(own, n, o) /\ exists' = exists
         ELSE exists' = exists \ {p} /\ own' = own
      /\ made' = made
  BY DEF ResetAll, Delete
<1>2. /\ Good(own, made) /\ Apart(own, made) /\ held \subseteq exists /\ exists \subseteq Object
      /\ \A m \in made : Leads[m] = OP_GetPointer(own, m)
      /\ \A m \in Node \ made : Leads[m] = NoObject
      /\ \A m \in made : OP_GetPointer(own, m) \in exists \cup {NoObject}
  BY <1>1, IdleLeads
<1>3. p = OP_GetPointer(own, n)
  BY DEF Pointee
<1> HIDE DEF p
<1>4. CASE p = NoObject
  <2>1. Led(own, own', made, n, o)
    BY <1>1, <1>2, <1>4, SetPointerOK
  <2>2. o \in exists \cup {NoObject}
    BY <1>1, <1>2
  <2>3. /\ n \in Abstract!Member /\ Groups' = Groups
        /\ Leads' = [m \in Node |-> IF m \in Abstract!GroupOf(n) THEN o ELSE Leads[m]]
    BY <1>1, <1>2, <1>4, <2>1, <2>2, LedRefines
  <2>4. Abstract!Lead(n, o)
    BY <1>1, <1>4, <2>3 DEF Abstract!Lead
  <2> QED
    BY <2>2, <2>4
<1>5. CASE p # NoObject
  <2>1. Abstract!Member = made /\ Abstract!GroupOf(n) = Mates(own, made, n)
    BY <1>1, <1>2, AbstractGroups
  <2>2. exists' = exists \ {Leads[n]}
    BY <1>1, <1>2, <1>3, <1>5
  <2>3. Groups' = Groups
    BY <1>1, <1>5, AbstractStateIs
  <2>4. \A m \in made : m \in Mates(own, made, n) <=> OP_GetPointer(own, m) = p
    BY <1>1, <1>2, <1>3, <1>5, MatesOK DEF Apart
  <2>5. \A m \in Node : Leads'[m] = IF m \in Mates(own, made, n) THEN NoObject ELSE Leads[m]
    <3>1. Mates(own, made, n) \subseteq made
      BY <1>1, <1>2, MatesOK
    <3> QED
      BY <1>1, <1>2, <1>5, <2>4, <3>1 DEF Leads, Pointee
  <2>6. Leads' = [m \in Node |-> IF m \in Mates(own, made, n) THEN NoObject ELSE Leads[m]]
    <3>1. Leads' = [m \in Node |-> Leads'[m]]
      BY DEF Leads
    <3> QED
      BY <2>5, <3>1
  <2>7. Abstract!Lead(n, NoObject)
    BY <1>1, <2>1, <2>2, <2>3, <2>6 DEF Abstract!Lead
  <2> QED
    BY <2>7
<1> QED
  BY <1>4, <1>5

\* When a destructor returns, nothing is left to do but what ResetAll waits for.
LEMMA ReturnRefines ==
  ASSUME IInv, Return
  PROVE  \/ UNCHANGED <<Groups, Leads, exists>>
         \/ \E n \in Node, p \in exists \cup {NoObject} : Abstract!Lead(n, p)
<1> DEFINE f == Head(stack)
<1>1. /\ stack # <<>> /\ undefined = FALSE /\ stack \in Seq(Frame)
      /\ Good(own, made) /\ made \subseteq Node \ Temp /\ exists \subseteq Object
      /\ FramesOK(own, made, exists, held, stack, undefined)
      /\ own' = IF f.next = NoReset THEN own ELSE OP_SetPointer(own, f.next.node, f.next.to)
      /\ made' = made /\ exists' = exists
  BY DEF IInv, Sound, Return
<1>2. f = stack[1] /\ 1 \in 1 .. Len(stack)
  BY <1>1, PoppedFrame
<1> HIDE DEF f
<1>3. CASE f.next = NoReset
  BY <1>1, <1>3, AbstractStateIs
<1>4. CASE f.next # NoReset
  <2> DEFINE n == f.next.node
             p == f.next.to
  <2>1. ResetOK(own, made, exists, held, FALSE, f)
    BY <1>1, <1>2, <1>4 DEF FramesOK
  <2>2. n \in made /\ n \in Node /\ p \in exists \cup {NoObject} /\ p \in Object \cup {NoObject}
    BY <1>1, <2>1 DEF ResetOK
  <2>3. own' = OP_SetPointer(own, n, p)
    BY <1>1, <1>4
  <2> HIDE DEF n, p
  <2>4. Led(own, own', made, n, p)
    BY <1>1, <2>2, <2>3, SetPointerOK
  <2>5. /\ n \in Abstract!Member /\ Groups' = Groups
        /\ Leads' = [m \in Node |-> IF m \in Abstract!GroupOf(n) THEN p ELSE Leads[m]]
    BY <1>1, <2>2, <2>4, LedRefines
  <2>6. Abstract!Lead(n, p)
    BY <1>1, <2>5 DEF Abstract!Lead
  <2> QED
    BY <2>2, <2>6
<1> QED
  BY <1>3, <1>4

-----------------------------------------------------------------------------
(* Assignment: a temporary takes the place of n and is destroyed *)

\* When a temporary has taken the place of n and is destroyed, the groups are
\* those the specification has n leave for the pointers of c.
LEMMA TempLeaves ==
  ASSUME IInv, Idle, NEW n \in made, NEW t \in Node \ made, made' = made,
         NEW w, Good(w, made \cup {t}), Apart(w, made \cup {t}), LetGo(w, t),
         NEW c, c \subseteq made, c \cap Mates(own, made, n) = {},
         TakesPlace(MatesOf(own, made), MatesOf(w, made \cup {t}), made, t, n, c),
         t \in Strong <=> n \in Strong,
         OP_GetPointer(w, t) = OP_GetPointer(own, n),
         \A m \in made \ {n} : OP_GetPointer(w, m) = OP_GetPointer(own, m),
         OP_GetPointer(w, n) \in exists \cup {NoObject}
  PROVE  /\ exists' = Abstract!ExistsWithout(n)
         /\ Leads' = [Abstract!PointeeWithout(n) EXCEPT ![n] = OP_GetPointer(w, n)]
         /\ \E F \in Abstract!GroupsWithout(n) :
              /\ c = {} => Groups' = F \cup {{n}}
              /\ \A q \in made \ {n} : c = Mates(own, made, q) => Groups' = PartsJoined(F, n, q)
<1> DEFINE M == made \cup {t}
           f == MatesOf(own, made)
           x == MatesOf(w, M)
           g == MatesOf(own', made')
           p == OP_GetPointer(w, n)
<1>1. /\ Good(own, made) /\ exists \subseteq Object /\ made \subseteq Node
      /\ \A m \in made : OP_GetPointer(own, m) \in exists \cup {NoObject}
      /\ \A m \in made : Leads[m] = OP_GetPointer(own, m)
      /\ \A m \in Node \ made : Leads[m] = NoObject
  BY IdleLeads
<1>2. M \ {t} = made /\ t \in M /\ n \in M /\ t # n
  OBVIOUS
<1>3. /\ \A m \in made : f[m] = Mates(own, made, m)
      /\ \A m \in M : x[m] = Mates(w, M, m)
      /\ Classes(f, made)
  BY <1>1, MatesAreClasses DEF MatesOf
<1>4. /\ Gone(w, own', M, t)
      /\ exists' = IF IsLast(w, M, t) THEN exists \ {LeadsOf(w, M, exists)[t]} ELSE exists
      /\ \A m \in Node : LeadsOf(own', M \ {t}, exists')[m] =
           IF m \in Forsaken(w, M, t) THEN NoObject ELSE LeadsOf(w, M, exists)[m]
  <2> HIDE DEF M
  <2> QED
    BY <1>1, <1>2, LetGoLeads
<1>5. Mates(w, M, t) = (Mates(own, made, n) \ {n}) \cup {t}
  BY <1>2, <1>3 DEF TakesPlace
<1>6. n \in Mates(own, made, n) /\ Mates(own, made, n) \subseteq made
  BY <1>1, MatesOK
<1>7. IsLast(w, M, t) <=> IsLast(own, made, n)
  BY <1>2, <1>5, <1>6 DEF IsLast
<1>8. /\ LeadsOf(w, M, exists)[t] = Leads[n]
      /\ LeadsOf(w, M, exists)[n] = p
      /\ \A m \in Node \ {t, n} : LeadsOf(w, M, exists)[m] = Leads[m]
  <2>1. LeadsOf(w, M, exists)[t] = Leads[n]
    BY <1>1, <1>2 DEF LeadsOf
  <2>2. LeadsOf(w, M, exists)[n] = p
    BY <1>1, <1>2 DEF LeadsOf
  <2>3. \A m \in Node \ {t, n} : LeadsOf(w, M, exists)[m] = Leads[m]
    BY <1>1, <1>2 DEF LeadsOf
  <2> QED
    BY <2>1, <2>2, <2>3
<1>9. exists' = Abstract!ExistsWithout(n)
  BY <1>1, <1>4, <1>7, <1>8, AbstractLeaves
<1>10. Leads' = [Abstract!PointeeWithout(n) EXCEPT ![n] = p]
  <2>1. \A m \in Node : Leads'[m] =
          IF m \in Forsaken(w, M, t) THEN NoObject ELSE LeadsOf(w, M, exists)[m]
    BY <1>2, <1>4, AbstractStateIs
  <2>2. \A m \in Node \ {t, n} : m \in Forsaken(w, M, t) <=> m \in Forsaken(own, made, n)
    BY <1>5, <1>7 DEF Forsaken
  <2>3. n \notin Forsaken(w, M, t) /\ t \in Forsaken(w, M, t)
    BY <1>2, <1>5 DEF Forsaken
  <2>4. n \in Node /\ t \in Node /\ Leads[t] = NoObject
    BY <1>1
  <2>5. \A m \in Node : Leads'[m] =
          IF m = n THEN p ELSE IF m \in Forsaken(own, made, n) THEN NoObject ELSE Leads[m]
    <3> SUFFICES ASSUME NEW m \in Node
                 PROVE  Leads'[m] = IF m = n THEN p
                                    ELSE IF m \in Forsaken(own, made, n) THEN NoObject ELSE Leads[m]
      OBVIOUS
    <3> HIDE DEF p, M
    <3>1. CASE m = n
      BY <1>8, <2>1, <2>3, <3>1
    <3>2. CASE m = t
      BY <1>2, <2>1, <2>3, <2>4, <3>2
    <3>3. CASE m \in Node \ {t, n}
      BY <1>8, <2>1, <2>2, <3>3
    <3> QED
      BY <3>1, <3>2, <3>3
  <2>6. Leads' = [m \in Node |-> Leads'[m]]
    BY DEF Leads
  <2>7. Abstract!PointeeWithout(n) =
          [m \in Node |-> IF m \in Forsaken(own, made, n) THEN NoObject ELSE Leads[m]]
    BY <1>1, AbstractLeaves
  <2> HIDE DEF p, M
  <2> QED
    BY <2>5, <2>6, <2>7
<1>11. LeavesClass(x, g, M, t) \/ (IsLast(w, M, t) /\ PartsClass(x, g, M, t))
  <2>1. g = MatesOf(own', M \ {t})
    BY <1>2
  <2> HIDE DEF g, M
  <2> QED
    BY <1>2, <1>4, <2>1, GoneParts
<1>12. /\ Groups = Parts(f, made) /\ Groups' = Parts(g, made)
       /\ TakesPlace(f, x, made, t, n, c) /\ c \cap f[n] = {}
  BY <1>3, AbstractStateIs
<1>13. \A q \in made : c = Mates(own, made, q) => c = f[q] /\ q \in f[q] /\ f[q] \cap f[n] = {}
  BY <1>3, <1>12 DEF Classes
<1>14. f[n] = Mates(own, made, n)
  BY <1>3
<1> DEFINE Together == LeftTogether(Groups, f[n], n)
           Apiece == LeftParted(Groups, f[n], n)
<1>15. /\ Together \in Abstract!GroupsWithout(n)
       /\ IsLast(own, made, n) => Apiece \in Abstract!GroupsWithout(n)
  BY <1>1, <1>14, AbstractLeaves
<1> HIDE DEF f, g, x, M, p
<1>16. ASSUME NEW h, Classes(h, made \ {n}), Enters(h, g, made, n, c),
              \A q \in made \ {n} : f[q] \cap f[n] = {} => h[q] = f[q]
       PROVE  LET F == Parts(h, made \ {n}) IN
              /\ c = {} => Groups' = F \cup {{n}}
              /\ \A q \in made \ {n} : c = Mates(own, made, q) => Groups' = PartsJoined(F, n, q)
  <2>1. /\ c = {} => Parts(g, made) = Parts(h, made \ {n}) \cup {{n}}
        /\ \A q \in made \ {n} : c = h[q] =>
             Parts(g, made) = PartsJoined(Parts(h, made \ {n}), n, q)
    <3>1. Classes(h, made \ {n}) /\ Enters(h, g, made, n, c) /\ n \in made
      BY <1>16
    <3> HIDE <1>16
    <3> QED
      BY <3>1, ClassEntered
  <2>2. \A q \in made \ {n} : c = Mates(own, made, q) => c = h[q]
    BY <1>13, <1>16
  <2> QED
    BY <1>12, <2>1, <2>2
<1>17. CASE LeavesClass(x, g, M, t)
  <2>1. PICK h : LeavesClass(f, h, made, n) /\ Enters(h, g, made, n, c)
    BY <1>3, <1>12, <1>17, PlaceLeft DEF M
  <2>2. Classes(h, made \ {n}) /\ Parts(h, made \ {n}) = Together
    BY <1>3, <1>12, <2>1, ClassTogether
  <2>3. \A q \in made \ {n} : f[q] \cap f[n] = {} => h[q] = f[q]
    <3> SUFFICES ASSUME NEW q \in made \ {n}, f[q] \cap f[n] = {} PROVE h[q] = f[q]
      OBVIOUS
    <3>1. h[q] = f[q] \ {n} /\ n \in f[n]
      BY <1>3, <2>1 DEF LeavesClass, Classes
    <3> QED
      BY <3>1
  <2> HIDE DEF Together
  <2> QED
    BY <1>9, <1>10, <1>15, <1>16, <2>1, <2>2, <2>3 DEF p
<1>18. CASE IsLast(w, M, t) /\ PartsClass(x, g, M, t)
  <2>1. PICK h : PartsClass(f, h, made, n) /\ Enters(h, g, made, n, c)
    BY <1>3, <1>12, <1>18, PlaceLeft DEF M
  <2>2. Classes(h, made \ {n}) /\ Parts(h, made \ {n}) = Apiece
    BY <1>3, <1>12, <2>1, ClassParted
  <2>3. \A q \in made \ {n} : f[q] \cap f[n] = {} => h[q] = f[q]
    <3> SUFFICES ASSUME NEW q \in made \ {n}, f[q] \cap f[n] = {} PROVE h[q] = f[q]
      OBVIOUS
    <3>1. (q \notin f[n] => h[q] = f[q]) /\ q \in f[q]
      BY <1>3, <2>1 DEF PartsClass, Classes
    <3> QED
      BY <3>1
  <2> HIDE DEF Apiece
  <2> QED
    BY <1>7, <1>9, <1>10, <1>15, <1>16, <1>18, <2>1, <2>2, <2>3 DEF p
<1> QED
  BY <1>11, <1>17, <1>18

\* What t swaps with n: the places of both in the classes, and where they lead.
LEMMA TempSwapped ==
  ASSUME Good(own, made), NEW n \in made, NEW t \in Node \ made,
         NEW w, NEW r, Swapped(w, r, made \cup {t}, t, n) \/ Swapped(w, r, made \cup {t}, n, t),
         \A m \in made : OP_GetPointer(w, m) = OP_GetPointer(own, m)
  PROVE  /\ OP_GetPointer(r, t) = OP_GetPointer(own, n)
         /\ OP_GetPointer(r, n) = OP_GetPointer(w, t)
         /\ \A m \in made \ {n} : OP_GetPointer(r, m) = OP_GetPointer(own, m)
         /\ SwapsClass(MatesOf(w, made \cup {t}), MatesOf(r, made \cup {t}), made \cup {t}, t, n)
<1> DEFINE M == made \cup {t}
<1>1. t \in M /\ n \in M /\ t # n /\ \A m \in made \ {n} : m \in M /\ m # t /\ m # n
  OBVIOUS
<1>2. ASSUME NEW a, NEW b, Swapped(w, r, M, a, b), a \in M, b \in M
      PROVE  /\ \A m \in M : OP_GetPointer(r, Other(a, b, m)) = OP_GetPointer(w, m)
             /\ SwapsClass(MatesOf(w, M), MatesOf(r, M), M, a, b)
  <2>1. \A m \in M : Other(a, b, m) \in M
    BY <1>2, OtherTwice
  <2>2. /\ \A m \in M : OP_GetPointer(r, Other(a, b, m)) = OP_GetPointer(w, m)
        /\ \A m \in M : Mates(r, M, Other(a, b, m)) = Places(a, b, Mates(w, M, m))
    BY <1>2 DEF Swapped
  <2> HIDE DEF M
  <2>3. SwapsClass(MatesOf(w, M), MatesOf(r, M), M, a, b)
    BY <2>1, <2>2 DEF SwapsClass, MatesOf
  <2> QED
    BY <2>2, <2>3
<1> HIDE DEF M
<1>3. /\ \A m \in M : OP_GetPointer(r, Other(t, n, m)) = OP_GetPointer(w, m)
      /\ SwapsClass(MatesOf(w, M), MatesOf(r, M), M, t, n)
  <2>1. CASE Swapped(w, r, M, t, n)
    BY <1>1, <1>2, <2>1
  <2>2. CASE Swapped(w, r, M, n, t)
    <3>1. /\ \A m \in M : OP_GetPointer(r, Other(n, t, m)) = OP_GetPointer(w, m)
          /\ SwapsClass(MatesOf(w, M), MatesOf(r, M), M, n, t)
      BY <1>1, <1>2, <2>2
    <3>2. \A m : Other(n, t, m) = Other(t, n, m)
      BY DEF Other
    <3> QED
      BY <3>1, <3>2, SwapsEitherWay
  <2> QED
    BY <2>1, <2>2 DEF M
<1>4. /\ Other(t, n, n) = t /\ Other(t, n, t) = n
      /\ \A m \in made \ {n} : Other(t, n, m) = m
  BY <1>1 DEF Other
<1> QED
  BY <1>1, <1>3, <1>4 DEF M

\* n = rhs: n follows rhs into its group.
LEMMA AssignRefines ==
  ASSUME IInv, NEW n \in Node, NEW q \in Node, Assign(n, q)
  PROVE  Abstract!Follow(n, q)
<1> DEFINE t == TempFor(n)
<1>1. /\ Idle /\ n \in made /\ q \in made /\ Pointee(n) # Pointee(q)
      /\ LetGo(OP_Swap(OP_Share(own, t, q, n \in Strong), t, n), t)
      /\ made' = made
  BY DEF Assign
<1>2. t \in Temp /\ (t \in Strong <=> n \in Strong)
  BY TempForOK
<1>3. /\ Good(own, made) /\ Apart(own, made)
      /\ \A m \in made : OP_GetPointer(own, m) \in exists \cup {NoObject}
      /\ \A m \in made : Leads[m] = OP_GetPointer(own, m)
  BY <1>1, IdleLeads
<1> HIDE DEF t
<1>4. t \in Node \ made
  BY <1>2, StrongPtrAssumption DEF IInv
<1> DEFINE M == made \cup {t}
<1>5. PICK copied : copied = OP_Share(own, t, q, t \in Strong)
  OBVIOUS
<1>6. PICK swapped : swapped = OP_Swap(copied, t, n)
  OBVIOUS
<1>7. LetGo(swapped, t)
  <2>1. OP_Share(own, t, q, n \in Strong) = OP_Share(own, t, q, t \in Strong)
    <3>1. CASE n \in Strong
      <4>1. (n \in Strong) = TRUE /\ (t \in Strong) = TRUE
        BY <1>2, <3>1
      <4> QED
        BY <4>1
    <3>2. CASE n \notin Strong
      <4>1. (n \in Strong) = FALSE /\ (t \in Strong) = FALSE
        BY <1>2, <3>2
      <4> QED
        BY <4>1
    <3> QED
      BY <3>1, <3>2
  <2> QED
    BY <1>1, <1>5, <1>6, <2>1
<1>8. Shared(own, copied, made, t, q)
  BY <1>1, <1>3, <1>4, <1>5, ShareOK
<1>9. Good(copied, M) /\ Apart(copied, M)
  BY <1>1, <1>3, <1>4, <1>8, SharedApart DEF Shared
<1>10. Swapped(copied, swapped, M, t, n)
  <2>1. t \in M /\ n \in M
    BY <1>1
  <2> HIDE DEF M
  <2> QED
    BY <1>2, <1>6, <1>9, <2>1, SwapOK
<1>11. Good(swapped, M) /\ Apart(swapped, M)
  <2>1. t \in M /\ n \in M
    BY <1>1
  <2> HIDE DEF M
  <2> QED
    BY <1>9, <1>10, <2>1, SwappedApart DEF Swapped
<1>12. /\ OP_GetPointer(copied, t) = OP_GetPointer(own, q)
       /\ \A m \in made : OP_GetPointer(copied, m) = OP_GetPointer(own, m)
  BY <1>8 DEF Shared
<1>13. /\ OP_GetPointer(swapped, t) = OP_GetPointer(own, n)
       /\ OP_GetPointer(swapped, n) = OP_GetPointer(own, q)
       /\ \A m \in made \ {n} : OP_GetPointer(swapped, m) = OP_GetPointer(own, m)
       /\ SwapsClass(MatesOf(copied, M), MatesOf(swapped, M), M, t, n)
  BY <1>1, <1>3, <1>4, <1>10, <1>12, TempSwapped
<1> DEFINE f == MatesOf(own, made)
           x == MatesOf(copied, M)
           y == MatesOf(swapped, M)
<1>14. Classes(f, made) /\ f[n] = Mates(own, made, n) /\ f[q] = Mates(own, made, q)
  BY <1>1, <1>3, MatesAreClasses DEF MatesOf
<1>15. q \notin f[n]
  BY <1>1, <1>3, <1>14, MatesOK DEF Pointee
<1>16. JoinsClass(f, x, made, t, q)
  BY <1>1, <1>8 DEF JoinsClass, MatesOf, Shared
<1>17. TakesPlace(f, y, made, t, n, f[q])
  <2>1. SwapsClass(x, y, made \cup {t}, t, n)
    BY <1>13
  <2>2. t \notin made
    BY <1>4
  <2> HIDE DEF f, x, y
  <2> QED
    BY <1>1, <1>14, <1>15, <1>16, <2>1, <2>2, JoinedPlace
<1>18. f[q] \subseteq made /\ f[q] \cap f[n] = {} /\ q # n
  <2> HIDE DEF f
  <2>1. \A m \in made : m \in f[m] /\ f[m] \subseteq made /\ \A k \in f[m] : f[k] = f[m]
    BY <1>14 DEF Classes
  <2> QED
    BY <1>1, <1>15, <2>1
<1>19. /\ exists' = Abstract!ExistsWithout(n)
       /\ Leads' = [Abstract!PointeeWithout(n) EXCEPT ![n] = OP_GetPointer(swapped, n)]
       /\ \E F \in Abstract!GroupsWithout(n) :
            \A k \in made \ {n} : f[q] = Mates(own, made, k) => Groups' = PartsJoined(F, n, k)
  <2>1. OP_GetPointer(swapped, n) \in exists \cup {NoObject}
    BY <1>1, <1>3, <1>13
  <2> DEFINE c == f[q]
  <2>2. c \cap Mates(own, made, n) = {} /\ c \subseteq made
    BY <1>14, <1>18
  <2>3. TakesPlace(MatesOf(own, made), MatesOf(swapped, made \cup {t}), made, t, n, c)
    BY <1>17
  <2> HIDE DEF c
  <2>4. Good(swapped, made \cup {t}) /\ Apart(swapped, made \cup {t})
    BY <1>11
  <2> HIDE DEF M
  <2>5. /\ exists' = Abstract!ExistsWithout(n)
        /\ Leads' = [Abstract!PointeeWithout(n) EXCEPT ![n] = OP_GetPointer(swapped, n)]
        /\ \E F \in Abstract!GroupsWithout(n) :
             /\ c = {} => Groups' = F \cup {{n}}
             /\ \A k \in made \ {n} : c = Mates(own, made, k) => Groups' = PartsJoined(F, n, k)
    BY <1>1, <1>2, <1>4, <1>7, <1>13, <2>1, <2>2, <2>3, <2>4, TempLeaves
  <2> QED
    BY <2>5 DEF c
<1>20. Leads' = [Abstract!PointeeWithout(n) EXCEPT ![n] = Leads[q]]
  BY <1>1, <1>3, <1>13, <1>19
<1>21. Groups' \in {Abstract!JoinIn(F, n, q) : F \in Abstract!GroupsWithout(n)}
  <2>1. PICK F \in Abstract!GroupsWithout(n) : Groups' = PartsJoined(F, n, q)
    BY <1>1, <1>14, <1>18, <1>19
  <2>2. Groups' = Abstract!JoinIn(F, n, q)
    BY <2>1 DEF PartsJoined, Abstract!JoinIn
  <2> QED
    BY <2>1, <2>2
<1>22. {n, q} \subseteq Abstract!Member /\ q \notin Abstract!GroupOf(n)
  BY <1>1, <1>3, <1>14, <1>15, AbstractGroups
<1> HIDE DEF f, x, y, M
<1> QED
  BY <1>19, <1>20, <1>21, <1>22 DEF Abstract!Follow

\* n = p: n leaves its group and founds one.
LEMMA AssignPointerRefines ==
  ASSUME IInv, NEW n \in Node, NEW o \in Object \cup {NoObject}, AssignPointer(n, o)
  PROVE  Abstract!Replace(n, o) /\ o \in exists \cup {NoObject}
<1> DEFINE t == TempFor(n)
<1>1. /\ Idle /\ n \in made /\ o \in held \cup {NoObject}
      /\ LetGo(OP_Swap(OP_Create(own, t, o, n \in Strong), n, t), t)
      /\ made' = made
  BY DEF AssignPointer
<1>2. t \in Temp /\ (t \in Strong <=> n \in Strong)
  BY TempForOK
<1>3. /\ Good(own, made) /\ Apart(own, made) /\ held \subseteq exists
      /\ Quiet(own, made, exists, held)
      /\ Cardinality(made) < Cardinality(Info)
  BY <1>1, IdleLeads, WhenIdle, Room
<1>4. o \in exists \cup {NoObject} /\ (o = NoObject \/ \A m \in made : OP_GetPointer(own, m) # o)
  BY <1>1, <1>3 DEF Quiet
<1> HIDE DEF t
<1>5. t \in Node \ made
  BY <1>2, StrongPtrAssumption DEF IInv
<1> DEFINE M == made \cup {t}
<1>6. PICK created : created = OP_Create(own, t, o, t \in Strong)
  OBVIOUS
<1>7. PICK swapped : swapped = OP_Swap(created, n, t)
  OBVIOUS
<1>8. LetGo(swapped, t)
  <2>1. OP_Create(own, t, o, n \in Strong) = OP_Create(own, t, o, t \in Strong)
    <3>1. CASE n \in Strong
      <4>1. (n \in Strong) = TRUE /\ (t \in Strong) = TRUE
        BY <1>2, <3>1
      <4> QED
        BY <4>1
    <3>2. CASE n \notin Strong
      <4>1. (n \in Strong) = FALSE /\ (t \in Strong) = FALSE
        BY <1>2, <3>2
      <4> QED
        BY <4>1
    <3> QED
      BY <3>1, <3>2
  <2> QED
    BY <1>1, <1>6, <1>7, <2>1
<1>9. Created(own, created, made, t, o)
  BY <1>3, <1>5, <1>6, CreateOK
<1>10. Good(created, M) /\ Apart(created, M)
  BY <1>3, <1>4, <1>5, <1>9, CreatedApart DEF Created
<1>11. Swapped(created, swapped, M, n, t)
  <2>1. t \in M /\ n \in M
    BY <1>1
  <2> HIDE DEF M
  <2> QED
    BY <1>2, <1>7, <1>10, <2>1, SwapOK
<1>12. Good(swapped, M) /\ Apart(swapped, M)
  <2>1. t \in M /\ n \in M
    BY <1>1
  <2> HIDE DEF M
  <2> QED
    BY <1>10, <1>11, <2>1, SwappedApart DEF Swapped
<1>13. /\ OP_GetPointer(created, t) = o
       /\ \A m \in made : OP_GetPointer(created, m) = OP_GetPointer(own, m)
  BY <1>9 DEF Created
<1>14. /\ OP_GetPointer(swapped, t) = OP_GetPointer(own, n)
       /\ OP_GetPointer(swapped, n) = o
       /\ \A m \in made \ {n} : OP_GetPointer(swapped, m) = OP_GetPointer(own, m)
       /\ SwapsClass(MatesOf(created, M), MatesOf(swapped, M), M, t, n)
  <2>1. \/ Swapped(created, swapped, made \cup {t}, t, n)
        \/ Swapped(created, swapped, made \cup {t}, n, t)
    BY <1>11
  <2>2. Good(own, made) /\ \A m \in made : OP_GetPointer(created, m) = OP_GetPointer(own, m)
    BY <1>3, <1>13
  <2> HIDE DEF M
  <2>3. /\ OP_GetPointer(swapped, t) = OP_GetPointer(own, n)
        /\ OP_GetPointer(swapped, n) = OP_GetPointer(created, t)
        /\ \A m \in made \ {n} : OP_GetPointer(swapped, m) = OP_GetPointer(own, m)
        /\ SwapsClass(MatesOf(created, made \cup {t}), MatesOf(swapped, made \cup {t}),
                      made \cup {t}, t, n)
    BY <1>1, <1>5, <2>1, <2>2, TempSwapped
  <2> QED
    BY <1>13, <2>3 DEF M
<1> DEFINE f == MatesOf(own, made)
           x == MatesOf(created, M)
           y == MatesOf(swapped, M)
<1>15. Classes(f, made) /\ FoundsClass(f, x, made, t)
  BY <1>3, <1>9, MatesAreClasses DEF FoundsClass, MatesOf, Created
<1>16. TakesPlace(f, y, made, t, n, {})
  <2>1. SwapsClass(x, y, made \cup {t}, t, n)
    BY <1>14
  <2>2. t \notin made
    BY <1>5
  <2> HIDE DEF f, x, y
  <2> QED
    BY <1>1, <1>15, <2>1, <2>2, FoundedPlace
<1>17. /\ exists' = Abstract!ExistsWithout(n)
       /\ Leads' = [Abstract!PointeeWithout(n) EXCEPT ![n] = OP_GetPointer(swapped, n)]
       /\ \E F \in Abstract!GroupsWithout(n) : Groups' = F \cup {{n}}
  <2>1. OP_GetPointer(swapped, n) \in exists \cup {NoObject}
    BY <1>4, <1>14
  <2>2. TakesPlace(MatesOf(own, made), MatesOf(swapped, made \cup {t}), made, t, n, {})
    BY <1>16
  <2>3. {} \subseteq made /\ {} \cap Mates(own, made, n) = {}
    OBVIOUS
  <2> HIDE DEF f, y
  <2> QED
    BY <1>1, <1>2, <1>5, <1>8, <1>12, <1>14, <2>1, <2>2, <2>3, TempLeaves
<1>18. n \in Abstract!Member
  BY <1>1, <1>3, AbstractGroups
<1> HIDE DEF f, x, y, M
<1> QED
  BY <1>4, <1>14, <1>17, <1>18 DEF Abstract!Replace

-----------------------------------------------------------------------------
\* Every step is one of the specification of copointers, or none.
LEMMA NextRefines ==
  ASSUME IInv, [Next]_vars
  PROVE  [Abstract!Next]_<<Groups, Leads, exists>>
<1> DEFINE Step == [Abstract!Next]_<<Groups, Leads, exists>>
<1>1. ASSUME NEW o \in Object, NewObject(o) PROVE Step
  <2>1. Abstract!Make(o, MemberOf[o]) /\ MemberOf[o] \in Node
    BY <1>1, NewObjectRefines, StrongPtrAssumption
  <2> QED
    BY <2>1 DEF Abstract!Next
<1>2. ASSUME NEW n \in Node, NEW o \in Object \cup {NoObject}, Construct(n, o) PROVE Step
  BY <1>2, ConstructRefines DEF Abstract!Next
<1>3. ASSUME NEW n \in Node, NEW o \in Object \cup {NoObject}, AssignPointer(n, o) PROVE Step
  BY <1>3, AssignPointerRefines DEF Abstract!Next
<1>4. ASSUME NEW n \in Node, NEW o \in Object \cup {NoObject}, ResetAll(n, o) PROVE Step
  BY <1>4, ResetAllRefines DEF Abstract!Next
<1>5. ASSUME NEW n \in Node, NEW m \in Node, Copy(n, m) PROVE Step
  BY <1>5, CopyRefines DEF Abstract!Next
<1>6. ASSUME NEW n \in Node, NEW m \in Node, Assign(n, m) PROVE Step
  BY <1>6, AssignRefines DEF Abstract!Next
<1>7. ASSUME NEW n \in Node, NEW m \in Node, Swap(n, m) PROVE Step
  BY <1>7, SwapRefines DEF Abstract!Next
<1>8. ASSUME NEW n \in Node, Destroy(n) PROVE Step
  <2>1. Abstract!Leave(n)
    BY <1>8, LeaveRefines DEF Destroy
  <2> QED
    BY <2>1 DEF Abstract!Next
<1>9. ASSUME NEW n \in Node, ReleaseAll(n) PROVE Step
  <2>1. Abstract!Lead(n, NoObject)
    BY <1>9, ReleaseAllRefines
  <2> QED
    BY <2>1 DEF Abstract!Next
<1>10. CASE DestroyMember
  <2> DEFINE n == MemberOf[Head(stack).object]
  <2>1. n \in made /\ LetGo(own, n) /\ made' = made \ {n}
    BY <1>10 DEF DestroyMember
  <2> HIDE DEF n
  <2>2. Abstract!Leave(n) /\ n \in Node
    BY <2>1, LeaveRefines DEF IInv
  <2> QED
    BY <2>2 DEF Abstract!Next
<1>11. CASE Return
  BY <1>11, ReturnRefines DEF Abstract!Next
<1>12. CASE UNCHANGED vars
  BY <1>12, AbstractStateIs DEF vars
<1> HIDE DEF Step
<1> QED
  BY <1>1, <1>2, <1>3, <1>4, <1>5, <1>6, <1>7, <1>8, <1>9, <1>10, <1>11, <1>12 DEF Next, Step

(* With either policy, what clients see of StrongPtrs is groups of          *)
(* copointers: a pointer that leaves its group without a strong one takes   *)
(* the object with it, and in that same step the weak ones left lead to     *)
(* nothing, whichever destructors are at work.                              *)
THEOREM StrongImplementsCopointers == Spec => ImplementsCopointers
<1>1. Init => Abstract!Init
  <2> SUFFICES ASSUME Init PROVE Abstract!Init
    OBVIOUS
  <2>1. made = {} /\ exists = {}
    BY DEF Init
  <2> QED
    BY <2>1 DEF Abstract!Init, Groups, Leads
<1>2. IInv /\ [Next]_vars => [Abstract!Next]_<<Groups, Leads, exists>>
  BY NextRefines
<1>3. QED
  BY StrongInvariance, <1>1, <1>2, PTL DEF Spec, ImplementsCopointers, Abstract!Spec, Abstract!vars
=============================================================================
