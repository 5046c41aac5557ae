------------------------------ MODULE TwoRefLinks ------------------------------
(***************************************************************************)
(* The ownership policy TwoRefLinks of src/include/loki/StrongPtr.h and    *)
(* src/include/StrongPtr.cpp: copointers are linked into a cycle, and each *)
(* holds the pointer to the object itself.  Linking, unlinking and Swap    *)
(* are those of RefLinkedBase (RefLinks.tla).  The state of the policy is  *)
(* a record own:                                                           *)
(*   links      m_prev and m_next of all nodes,                            *)
(*   pointer    m_pointer,                                                 *)
(*   strong     m_strong.                                                  *)
(* Its operators are named after the member functions, with Linked before  *)
(* the name.                                                               *)
(***************************************************************************)
EXTENDS RefLinks

CONSTANTS
  Object,    \* the objects that can be owned
  NoObject   \* NULL

LinkedType ==
  [links : Links, pointer : [Node -> Object \cup {NoObject}], strong : [Node -> BOOLEAN]]

NotLinked ==
  [links |-> Unlinked,
   pointer |-> [n \in Node |-> NoObject],
   strong |-> [n \in Node |-> FALSE]]

LinkedGetPointer(own, n) == own.pointer[n]

\* The other nodes of n's cycle.
Others(own, n) == Cycle(own.links.prev, n) \ {n}

\* TwoRefLinks(p, strong)
LinkedCreate(own, n, p, strong) ==
  [links |-> LinkAlone(own.links, n),
   pointer |-> [own.pointer EXCEPT ![n] = p],
   strong |-> [own.strong EXCEPT ![n] = strong]]

\* TwoRefLinks(rhs, strong)
LinkedShare(own, n, rhs, strong) ==
  [links |-> LinkAfter(own.links, n, rhs),
   pointer |-> [own.pointer EXCEPT ![n] = own.pointer[rhs]],
   strong |-> [own.strong EXCEPT ![n] = strong]]

\* Whether another node is strong; a node that is linked to nothing has no other.
LinkedHasStrongPointer(own, n) == \E m \in Cycle(own.links.next, n) \ {n} : own.strong[m]

\* Release returns whether n has to release the object.  A node that is alone, or
\* leaves strong ones behind, is unlinked; otherwise ZapPointer takes the cycle apart.
LinkedRelease(own, n, strong) ==
  LET linked == own.links.next[n] # NoNode
      leaves == linked /\ (IsAlone(own.links, n) \/ LinkedHasStrongPointer(own, n))
  IN [own |-> IF leaves THEN [own EXCEPT !.links = Unlink(own.links, n)] ELSE own,
      last |-> linked /\ ~LinkedHasStrongPointer(own, n)]

LinkedSwap_NotThePointers(own, a, b) == [own EXCEPT !.links = SwapLinks(own.links, a, b)]  \* mutant

LinkedSwap(own, a, b) ==
  [own EXCEPT !.links = SwapLinks(own.links, a, b), !.pointer = Exchange(own.pointer, a, b)]

\* A node that is linked to nothing keeps its pointer.
LinkedSetPointer(own, n, p) ==
  IF own.links.prev[n] = NoNode THEN own
  ELSE [own EXCEPT !.pointer = [m \in Node |-> IF m = n \/ m \in Others(own, n) THEN p ELSE own.pointer[m]]]

\* ZapAllNodes
LinkedZapPointer_NotTheNext(own, n) ==  \* mutant: the walk stops a node early
  LET zapped == Others(own, n) \ {own.links.next[n]} IN
  IF zapped = {} THEN own
  ELSE [own EXCEPT
    !.links = [prev |-> [m \in Node |-> IF m \in zapped THEN m ELSE own.links.prev[m]],
               next |-> [m \in Node |-> IF m \in zapped THEN m ELSE own.links.next[m]]],
    !.pointer = [m \in Node |-> IF m \in zapped \cup {n} THEN NoObject ELSE own.pointer[m]]]

LinkedZapPointer(own, n) ==
  LET zapped == Others(own, n) IN
  IF zapped = {} THEN own
  ELSE [own EXCEPT
    !.links = [prev |-> [m \in Node |-> IF m \in zapped THEN m ELSE own.links.prev[m]],
               next |-> [m \in Node |-> IF m \in zapped THEN m ELSE own.links.next[m]]],
    !.pointer = [m \in Node |-> IF m \in zapped \cup {n} THEN NoObject ELSE own.pointer[m]]]

\* The memory of a destroyed StrongPtr is not read again.
LinkedForget(own, n) ==
  [links |-> [prev |-> [own.links.prev EXCEPT ![n] = NoNode],
              next |-> [own.links.next EXCEPT ![n] = NoNode]],
   pointer |-> [own.pointer EXCEPT ![n] = NoObject],
   strong |-> [own.strong EXCEPT ![n] = FALSE]]
=============================================================================
