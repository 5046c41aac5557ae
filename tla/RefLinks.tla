------------------------------- MODULE RefLinks -------------------------------
(***************************************************************************)
(* Private::RefLinkedBase of src/include/SmartPtr.cpp: smart pointers that *)
(* own the same object are linked into a cycle, and the one that finds     *)
(* itself alone deletes the object.  There is no count.                    *)
(*                                                                         *)
(* The links of all nodes are a record l of two functions, prev and next.  *)
(* A node that is not constructed, or is destroyed, is linked to nothing.  *)
(***************************************************************************)
EXTENDS FiniteSets, Integers

CONSTANTS
  Node,      \* the places where a smart pointer may live
  NoNode     \* NULL

ASSUME NodeAssumption == NoNode \notin Node /\ IsFiniteSet(Node)

Links == [prev : [Node -> Node \cup {NoNode}], next : [Node -> Node \cup {NoNode}]]

Unlinked == [prev |-> [n \in Node |-> NoNode], next |-> [n \in Node |-> NoNode]]

\* RefLinkedBase()
LinkAlone(l, n) ==
  [prev |-> [l.prev EXCEPT ![n] = n], next |-> [l.next EXCEPT ![n] = n]]

\* RefLinkedBase(rhs): n goes between rhs and its next.
LinkAfter(l, n, rhs) ==
  [prev |-> [l.prev EXCEPT ![n] = rhs, ![l.next[rhs]] = n],
   next |-> [l.next EXCEPT ![n] = l.next[rhs], ![rhs] = n]]

\* RefLinkedBase::Release returns whether n was the only node of its cycle ...
IsAlone(l, n) == l.next[n] = n

\* ... and takes n out of it.  (The node's memory goes with its SmartPtr.)
Unlink(l, n) ==
  LET p == l.prev[n]
      q == l.next[n]
      prev == IF IsAlone(l, n) THEN l.prev ELSE [l.prev EXCEPT ![q] = p]
      next == IF IsAlone(l, n) THEN l.next ELSE [l.next EXCEPT ![p] = q]
  IN [prev |-> [prev EXCEPT ![n] = NoNode], next |-> [next EXCEPT ![n] = NoNode]]

-----------------------------------------------------------------------------
(* RefLinkedBase::Swap: each of two nodes gets the other's place. *)

Exchange(f, x, y) == [f EXCEPT ![x] = f[y], ![y] = f[x]]

\* a is alone and b is not.
TakePlace(l, a, b) ==
  [prev |-> [l.prev EXCEPT ![a] = l.prev[b], ![l.next[b]] = a, ![b] = b],
   next |-> [l.next EXCEPT ![a] = l.next[b], ![l.prev[b]] = a, ![b] = b]]

\* b follows a, in a cycle of three or more.
SwapNeighbours(l, a, b) ==
  LET p == l.prev[a]
      q == l.next[b]
  IN [prev |-> [l.prev EXCEPT ![a] = b, ![b] = p, ![q] = l.next[p]],
      next |-> [l.next EXCEPT ![a] = q, ![b] = a, ![p] = l.prev[q]]]

SwapApart(l, a, b) ==
  LET prev == Exchange(l.prev, a, b)
      next == Exchange(Exchange(l.next, a, b), prev[a], prev[b])
  IN [prev |-> Exchange(prev, next[a], next[b]), next |-> next]

SwapLinks_NoNeighbourCase(l, a, b) ==  \* mutant: neighbours are swapped like others
  IF IsAlone(l, a) /\ IsAlone(l, b) THEN l
  ELSE IF IsAlone(l, a) THEN TakePlace(l, a, b)
  ELSE IF IsAlone(l, b) THEN TakePlace(l, b, a)
  ELSE SwapApart(l, a, b)

SwapLinks(l, a, b) ==
  CASE IsAlone(l, a) /\ IsAlone(l, b) -> l
    [] IsAlone(l, a) /\ ~IsAlone(l, b) -> TakePlace(l, a, b)
    [] ~IsAlone(l, a) /\ IsAlone(l, b) -> TakePlace(l, b, a)
    [] ~IsAlone(l, a) /\ ~IsAlone(l, b) ->
         CASE l.next[a] = b /\ l.prev[a] = b -> l
           [] l.next[a] = b /\ l.prev[a] # b -> SwapNeighbours(l, a, b)
           [] l.next[a] # b /\ l.prev[a] = b -> SwapNeighbours(l, b, a)
           [] l.next[a] # b /\ l.prev[a] # b -> SwapApart(l, a, b)

-----------------------------------------------------------------------------
(* The walks along a cycle *)

\* Where a walk from n along f (prev or next) is after k steps.
Walk(f, n) ==
  LET at[k \in 0 .. Cardinality(Node)] ==
        IF k = 0 THEN n
        ELSE LET m == at[k - 1] IN IF m = NoNode THEN NoNode ELSE f[m]
  IN at

\* HasPrevNode, HasNextNode: the nodes that the walk meets until it is back at n.
Cycle(f, n) ==
  LET at == Walk(f, n) IN {at[k] : k \in 0 .. Cardinality(Node)} \ {NoNode}

\* CountPrevCycle, CountNextCycle, of walks that do come back.
CountCycle(f, n) == Cardinality(Cycle(f, n))

(* RefLinkedBase::Merge *)
Splice(l, a, b) ==
  CASE IsAlone(l, b) ->
         [prev |-> [l.prev EXCEPT ![b] = l.prev[a], ![a] = b],
          next |-> [l.next EXCEPT ![b] = a, ![l.prev[a]] = b]]
    [] ~IsAlone(l, b) /\ IsAlone(l, a) ->
         [prev |-> [l.prev EXCEPT ![a] = l.prev[b], ![b] = a],
          next |-> [l.next EXCEPT ![a] = b, ![l.prev[b]] = a]]
    [] ~IsAlone(l, b) /\ ~IsAlone(l, a) ->
         [prev |-> [l.prev EXCEPT ![l.next[a]] = l.prev[b], ![b] = a],
          next |-> [l.next EXCEPT ![l.prev[b]] = l.prev[a], ![a] = b]]

MergeLinks_SameCycleToo(l, a, b) == IF a = b THEN l ELSE Splice(l, a, b)  \* mutant

MergeLinks(l, a, b) ==
  IF a = b \/ b \in Cycle(l.prev, a) THEN l ELSE Splice(l, a, b)

\* The assertion at the end of Merge.
CountsAgree(l, a) == CountCycle(l.prev, a) = CountCycle(l.next, a)
=============================================================================
