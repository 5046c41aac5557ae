------------------------------ MODULE LinkedPtr ------------------------------
(***************************************************************************)
(* SmartPtr<T, RefLinked> of src/include/loki/SmartPtr.h: what clients do  *)
(* with smart pointers whose ownership policy links them into cycles       *)
(* (RefLinks.tla).                                                         *)
(*                                                                         *)
(* Clients keep the rules of such pointers.  They make a smart pointer     *)
(* from an object they hold, or, to Merge it later, from one that smart    *)
(* pointers already own; until the two cycles are merged no pointer of     *)
(* either is destroyed or reset.  They take an object back only from its   *)
(* only owner.                                                             *)
(***************************************************************************)
EXTENDS RefLinks

CONSTANTS
  Object,    \* the objects that can be owned
  NoObject,  \* the null pointer
  Temp       \* the place of the unnamed temporaries

ASSUME ObjectAssumption == NoObject \notin Object /\ Temp \in Node

VARIABLES
  links,     \* prev_ and next_ of every node
  pointee,   \* what each smart pointer's storage policy holds
  made,      \* the smart pointers that are constructed
  exists,    \* the objects that are not deleted
  held,      \* of these, the ones clients hold themselves
  aborted    \* an assertion has failed, and the program has ended

vars == <<links, pointee, made, exists, held, aborted>>

Init ==
  /\ links = Unlinked
  /\ pointee = [n \in Node |-> NoObject]
  /\ made = {}
  /\ exists = {}
  /\ held = {}
  /\ aborted = FALSE

\* The client's side: new and delete of objects that no smart pointer owns.
NewObject(o) ==
  /\ ~aborted
  /\ o \notin exists
  /\ exists' = exists \cup {o}
  /\ held' = held \cup {o}
  /\ UNCHANGED <<links, pointee, made, aborted>>

-----------------------------------------------------------------------------
(* Construction *)

Usable(n) == ~aborted /\ n \notin made /\ n # Temp

\* SmartPtr(), and SmartPtr(p) for an object o that the client held.
Construct(n, o) ==
  /\ Usable(n)
  /\ o \in held \cup {NoObject}
  /\ links' = LinkAlone(links, n)
  /\ pointee' = [pointee EXCEPT ![n] = o]
  /\ made' = made \cup {n}
  /\ held' = held \ {o}
  /\ UNCHANGED <<exists, aborted>>

\* SmartPtr(p) for an object that smart pointers own: for Merge.
Adopt(n, o) ==
  /\ Usable(n)
  /\ o \in exists \ held
  /\ links' = LinkAlone(links, n)
  /\ pointee' = [pointee EXCEPT ![n] = o]
  /\ made' = made \cup {n}
  /\ UNCHANGED <<exists, held, aborted>>

\* SmartPtr(rhs), and SmartPtr(std::move(rhs)): RefLinked has no move of its
\* own, so moving is copying.
Copy(n, m) ==
  /\ Usable(n)
  /\ m \in made
  /\ links' = LinkAfter(links, n, m)
  /\ pointee' = [pointee EXCEPT ![n] = pointee[m]]
  /\ made' = made \cup {n}
  /\ UNCHANGED <<exists, held, aborted>>

-----------------------------------------------------------------------------
(* Destruction *)

\* Every owner of n's object is in n's cycle.
IsMerged(n) ==
  pointee[n] = NoObject \/ \A m \in made : pointee[m] = pointee[n] => m \in Cycle(links.next, n)

\* ~SmartPtr
Destroy(n) ==
  /\ ~aborted
  /\ n \in made
  /\ IsMerged(n)
  /\ links' = Unlink(links, n)
  /\ pointee' = [pointee EXCEPT ![n] = NoObject]
  /\ made' = made \ {n}
  /\ exists' = IF IsAlone(links, n) THEN exists \ {pointee[n]} ELSE exists
  /\ UNCHANGED <<held, aborted>>

\* Reset(sp, p): a temporary made from p swaps with sp and is destroyed.
Reset_NoSwapOfLinks(n, o) ==  \* mutant: the pointers swap, their links do not
  /\ ~aborted
  /\ n \in made
  /\ IsMerged(n)
  /\ o \in held \cup {NoObject}
  /\ pointee' = [pointee EXCEPT ![n] = o]
  /\ held' = held \ {o}
  /\ exists' = exists \ {pointee[n]}
  /\ UNCHANGED <<made, links, aborted>>

Reset(n, o) ==
  LET swapped == SwapLinks(LinkAlone(links, Temp), Temp, n) IN
  /\ ~aborted
  /\ n \in made
  /\ IsMerged(n)
  /\ o \in held \cup {NoObject}
  /\ links' = Unlink(swapped, Temp)
  /\ pointee' = [pointee EXCEPT ![n] = o]
  /\ held' = held \ {o}
  /\ exists' = IF IsAlone(swapped, Temp) THEN exists \ {pointee[n]} ELSE exists
  /\ UNCHANGED <<made, aborted>>

\* Release(sp): the client takes the object back.
Release(n) ==
  /\ ~aborted
  /\ n \in made
  /\ IsMerged(n)
  /\ IsAlone(links, n)
  /\ pointee[n] # NoObject
  /\ pointee' = [pointee EXCEPT ![n] = NoObject]
  /\ held' = held \cup {pointee[n]}
  /\ UNCHANGED <<links, made, exists, aborted>>

-----------------------------------------------------------------------------
(* Swap, Merge and assignment *)

Swap(a, b) ==
  /\ ~aborted
  /\ {a, b} \subseteq made
  /\ links' = SwapLinks(links, a, b)
  /\ pointee' = Exchange(pointee, a, b)
  /\ UNCHANGED <<made, exists, held, aborted>>

\* Pointers to the same object are merged; the code does not compare them.
\* The assertion ends the program before anybody uses what Merge has made.
Merge(a, b) ==
  LET merged == MergeLinks(links, a, b) IN
  /\ ~aborted
  /\ {a, b} \subseteq made
  /\ pointee[a] = pointee[b]
  /\ IF CountsAgree(merged, a) THEN links' = merged /\ UNCHANGED aborted
     ELSE aborted' = TRUE /\ UNCHANGED links
  /\ UNCHANGED <<pointee, made, exists, held>>

\* lhs = std::move(rhs): a temporary made from rhs is returned by reference and
\* destroyed; lhs is left as it is, and rhs keeps the object alive.
MoveAssign(lhs, rhs) ==
  /\ ~aborted
  /\ {lhs, rhs} \subseteq made
  /\ links' = Unlink(LinkAfter(links, Temp, rhs), Temp)
  /\ UNCHANGED <<pointee, made, exists, held, aborted>>

Next ==
  \/ \E o \in Object : NewObject(o)
  \/ \E n \in Node, o \in Object \cup {NoObject} :
       Construct(n, o) \/ Adopt(n, o) \/ Reset(n, o)
  \/ \E n \in Node : Destroy(n) \/ Release(n)
  \/ \E n, m \in Node : Copy(n, m) \/ Swap(n, m) \/ Merge(n, m) \/ MoveAssign(n, m)

Spec == Init /\ [][Next]_vars
-----------------------------------------------------------------------------
TypeOK ==
  /\ links \in Links
  /\ pointee \in [Node -> Object \cup {NoObject}]
  /\ made \in SUBSET (Node \ {Temp})
  /\ exists \in SUBSET Object
  /\ held \in SUBSET exists
  /\ aborted \in BOOLEAN

(* prev_ and next_ are each other's inverse on the smart pointers that are  *)
(* constructed and lead nowhere else: no destroyed pointer or temporary     *)
(* stays linked.                                                            *)
(* (SmartPtr.cpp: the assertions on HasPrevNode, HasNextNode and counts.)   *)
LinksInverse ==
  /\ TypeOK
  /\ \A n \in made : links.next[n] \in made /\ links.prev[links.next[n]] = n
  /\ \A n \in made : links.prev[n] \in made /\ links.next[links.prev[n]] = n
  /\ \A n \in Node \ made : links.next[n] = NoNode /\ links.prev[n] = NoNode

(* An object lives exactly as long as somebody owns it: none is deleted     *)
(* under a smart pointer, and none outlives its owners.                     *)
(* (~SmartPtr, SmartPtr.h:1316-1321, with RefLinkedBase::Release.)          *)
ExistsIffOwned ==
  /\ exists \ held = {pointee[n] : n \in made} \ {NoObject}
  /\ \A n \in made : pointee[n] \notin held

(* The cycles are the parties of CoOwners: copying joins exactly one party, *)
(* Swap exchanges two places and no more, Merge unites, and the last of a   *)
(* cycle deletes the object.                                                *)
Parties == {Cycle(links.next, n) : n \in made}

Abstract == INSTANCE CoOwners WITH parties <- Parties

ImplementsCoOwners == Abstract!Spec

(* The assertion that ends RefLinkedBase::Merge (SmartPtr.cpp:305).         *)
MergeAssertionHolds == ~aborted
=============================================================================
