------------------------------ MODULE CountedPtr ------------------------------
(***************************************************************************)
(* SmartPtr<T, RefCountedAtomic> of src/include/loki/SmartPtr.h, used by   *)
(* several threads: pointers to one object share a count in memory of its  *)
(* own.  A destructor is three steps, between which other threads run: the *)
(* atomic decrement, the release of the count's memory, and the deletion   *)
(* of the object.  SmartPtr<T, RefCounted> makes the same steps in one     *)
(* thread, so that its behaviours are among these.                         *)
(*                                                                         *)
(* A smart pointer is used by one thread at a time; different pointers to  *)
(* one object are used by different threads.  What happens to pointers no  *)
(* other thread sees is one step.  Clients take an object back only from   *)
(* its only owner, and make smart pointers only from objects they hold.    *)
(***************************************************************************)
EXTENDS Naturals, FiniteSets

CONSTANTS
  Node,      \* places for smart pointers, named ones and temporaries
  Strict,    \* those whose checking policy is RejectNullStrict, a type apart
  Object,    \* the objects that can be owned
  NoObject,  \* the null pointer
  Cell,      \* memory for counts
  NoCell     \* pCount_ when it leads to none

ASSUME PlacesAssumption == IsFiniteSet(Node) /\ Strict \subseteq Node
ASSUME NullAssumption == NoObject \notin Object /\ NoCell \notin Cell

VARIABLES
  stage,    \* how far each smart pointer is between construction and destruction
  cell,     \* pCount_
  pointee,  \* what each smart pointer's storage policy holds
  count,    \* *pCount_, of the cells in use
  cells,    \* the cells that are allocated
  leaked,   \* of these, the ones no smart pointer was ever made for
  exists,   \* the objects that are not deleted
  held      \* of these, the ones clients hold themselves

vars == <<stage, cell, pointee, count, cells, leaked, exists, held>>

(* A "leaving" pointer is a temporary about to be destroyed.  The "last" of *)
(* its object has brought the count to 0; it is "bare" when the count's     *)
(* memory is given back and the object is still to be deleted.              *)
Stage == {"none", "owner", "leaving", "last", "bare"}

Init ==
  /\ stage = [n \in Node |-> "none"]
  /\ cell = [n \in Node |-> NoCell]
  /\ pointee = [n \in Node |-> NoObject]
  /\ count = [c \in Cell |-> 0]
  /\ cells = {}
  /\ leaked = {}
  /\ exists = {}
  /\ held = {}

Made(n) == stage[n] # "none"
Owner(n) == stage[n] = "owner"
Counted(n) == stage[n] \in {"owner", "leaving"}
SameType(n, m) == (n \in Strict) <=> (m \in Strict)

-----------------------------------------------------------------------------
(* The client's side: new and delete of objects that no smart pointer owns. *)

NewObject(o) ==
  /\ o \notin exists
  /\ exists' = exists \cup {o}
  /\ held' = held \cup {o}
  /\ UNCHANGED <<stage, cell, pointee, count, cells, leaked>>

DeleteHeld(o) ==
  /\ o \in held
  /\ exists' = exists \ {o}
  /\ held' = held \ {o}
  /\ UNCHANGED <<stage, cell, pointee, count, cells, leaked>>

-----------------------------------------------------------------------------
(* Construction *)

\* RejectNullStrict::OnInit, and OnDefault, which has only null to look at.
Accepts(n, o) == o \in held \cup {NoObject} /\ (n \in Strict => o # NoObject)

\* SmartPtr(), and SmartPtr(p) for an object o that the client held.
Construct(n, c, o) ==
  /\ ~Made(n)
  /\ c \notin cells
  /\ Accepts(n, o)
  /\ stage' = [stage EXCEPT ![n] = "owner"]
  /\ cell' = [cell EXCEPT ![n] = c]
  /\ pointee' = [pointee EXCEPT ![n] = o]
  /\ count' = [count EXCEPT ![c] = 1]
  /\ cells' = cells \cup {c}
  /\ held' = held \ {o}
  /\ UNCHANGED <<leaked, exists>>

\* The checking policy throws in the constructor's body.  The ownership policy
\* has its count by then, and no destructor that would give it back.
ConstructThrows(n, c) ==
  /\ n \in Strict
  /\ ~Made(n)
  /\ c \notin cells
  /\ count' = [count EXCEPT ![c] = 1]
  /\ cells' = cells \cup {c}
  /\ leaked' = leaked \cup {c}
  /\ UNCHANGED <<stage, cell, pointee, exists, held>>

\* n becomes one more owner of what m owns.
Share_NotCounted(n, m, s) ==  \* mutant: the copy constructor forgets the count
  /\ ~Made(n)
  /\ Owner(m)
  /\ SameType(n, m)
  /\ stage' = [stage EXCEPT ![n] = s]
  /\ cell' = [cell EXCEPT ![n] = cell[m]]
  /\ pointee' = [pointee EXCEPT ![n] = pointee[m]]
  /\ UNCHANGED <<count, cells, leaked, exists, held>>

Share(n, m, s) ==
  /\ ~Made(n)
  /\ Owner(m)
  /\ SameType(n, m)
  /\ stage' = [stage EXCEPT ![n] = s]
  /\ cell' = [cell EXCEPT ![n] = cell[m]]
  /\ pointee' = [pointee EXCEPT ![n] = pointee[m]]
  /\ count' = [count EXCEPT ![cell[m]] = count[cell[m]] + 1]
  /\ UNCHANGED <<cells, leaked, exists, held>>

\* SmartPtr(rhs), and SmartPtr(std::move(rhs)): moving is copying.
Copy(n, m) == Share(n, m, "owner")

\* lhs = std::move(rhs): a temporary made from rhs is returned by reference and
\* destroyed; lhs is left as it is.
MoveAssign(lhs, rhs, t) ==
  /\ Owner(lhs)
  /\ SameType(lhs, rhs)
  /\ Share(t, rhs, "leaving")

-----------------------------------------------------------------------------
(* Swap, Reset and Release *)

Swap_KeepsCounts(a, b) ==  \* mutant: OP::Swap is forgotten
  /\ Owner(a) /\ Owner(b)
  /\ SameType(a, b)
  /\ pointee' = [pointee EXCEPT ![a] = pointee[b], ![b] = pointee[a]]
  /\ UNCHANGED <<stage, cell, count, cells, leaked, exists, held>>

Swap(a, b) ==
  /\ Owner(a) /\ Owner(b)
  /\ SameType(a, b)
  /\ cell' = [cell EXCEPT ![a] = cell[b], ![b] = cell[a]]
  /\ pointee' = [pointee EXCEPT ![a] = pointee[b], ![b] = pointee[a]]
  /\ UNCHANGED <<stage, count, cells, leaked, exists, held>>

\* Reset(sp, p): a temporary t made from p swaps with sp, and has still to be
\* destroyed.  ConstructThrows(t, c) is what Reset does when p is refused.
Reset(n, t, c, o) ==
  /\ Owner(n)
  /\ ~Made(t)
  /\ SameType(n, t)
  /\ c \notin cells
  /\ Accepts(n, o)
  /\ stage' = [stage EXCEPT ![t] = "leaving"]
  /\ cell' = [cell EXCEPT ![n] = c, ![t] = cell[n]]
  /\ pointee' = [pointee EXCEPT ![n] = o, ![t] = pointee[n]]
  /\ count' = [count EXCEPT ![c] = 1]
  /\ cells' = cells \cup {c}
  /\ held' = held \ {o}
  /\ UNCHANGED <<leaked, exists>>

\* Release(sp): the client takes the object back from its only owner.
Release_KeepsPointer(n) ==  \* mutant: the smart pointer still leads to the object
  /\ Owner(n)
  /\ count[cell[n]] = 1
  /\ pointee[n] # NoObject
  /\ held' = held \cup {pointee[n]}
  /\ UNCHANGED <<stage, cell, pointee, count, cells, leaked, exists>>

Release(n) ==
  /\ Owner(n)
  /\ count[cell[n]] = 1
  /\ pointee[n] # NoObject
  /\ pointee' = [pointee EXCEPT ![n] = NoObject]
  /\ held' = held \cup {pointee[n]}
  /\ UNCHANGED <<stage, cell, count, cells, leaked, exists>>

-----------------------------------------------------------------------------
(* ~SmartPtr *)

Decrement_NotLast(n) ==
  /\ Counted(n)
  /\ count[cell[n]] # 1
  /\ count' = [count EXCEPT ![cell[n]] = count[cell[n]] - 1]
  /\ stage' = [stage EXCEPT ![n] = "none"]
  /\ cell' = [cell EXCEPT ![n] = NoCell]
  /\ pointee' = [pointee EXCEPT ![n] = NoObject]
  /\ UNCHANGED <<cells, leaked, exists, held>>

Decrement_Last(n) ==
  /\ Counted(n)
  /\ count[cell[n]] = 1
  /\ count' = [count EXCEPT ![cell[n]] = 0]
  /\ stage' = [stage EXCEPT ![n] = "last"]
  /\ UNCHANGED <<cell, pointee, cells, leaked, exists, held>>

\* if (!--*pCount_): the decrement and the look at its result are one.
Decrement(n) == Decrement_NotLast(n) \/ Decrement_Last(n)

\* delete pCount_; pCount_ = nullptr
FreeCount_Keeps(n) ==  \* mutant: pCount_ is cleared, its memory not given back
  /\ stage[n] = "last"
  /\ cell' = [cell EXCEPT ![n] = NoCell]
  /\ stage' = [stage EXCEPT ![n] = "bare"]
  /\ UNCHANGED <<pointee, count, cells, leaked, exists, held>>

FreeCount_ReturnsFalse(n) ==  \* mutant: the last owner is not told that it is
  /\ stage[n] = "last"
  /\ cells' = cells \ {cell[n]}
  /\ cell' = [cell EXCEPT ![n] = NoCell]
  /\ stage' = [stage EXCEPT ![n] = "none"]
  /\ pointee' = [pointee EXCEPT ![n] = NoObject]
  /\ UNCHANGED <<count, leaked, exists, held>>

FreeCount(n) ==
  /\ stage[n] = "last"
  /\ cells' = cells \ {cell[n]}
  /\ cell' = [cell EXCEPT ![n] = NoCell]
  /\ stage' = [stage EXCEPT ![n] = "bare"]
  /\ UNCHANGED <<pointee, count, leaked, exists, held>>

\* SP::Destroy, and the end of the smart pointer.
DeleteObject(n) ==
  /\ stage[n] = "bare"
  /\ exists' = exists \ {pointee[n]}
  /\ stage' = [stage EXCEPT ![n] = "none"]
  /\ pointee' = [pointee EXCEPT ![n] = NoObject]
  /\ UNCHANGED <<cell, count, cells, leaked, held>>

-----------------------------------------------------------------------------
Next ==
  \/ \E o \in Object : NewObject(o) \/ DeleteHeld(o)
  \/ \E n \in Node, c \in Cell : ConstructThrows(n, c)
  \/ \E n \in Node, c \in Cell, o \in Object \cup {NoObject} : Construct(n, c, o)
  \/ \E n, t \in Node, c \in Cell, o \in Object \cup {NoObject} : Reset(n, t, c, o)
  \/ \E n, m \in Node : Copy(n, m) \/ Swap(n, m)
  \/ \E n, m, t \in Node : MoveAssign(n, m, t)
  \/ \E n \in Node : Release(n) \/ Decrement(n) \/ FreeCount(n) \/ DeleteObject(n)

\* A thread that has begun to destroy a smart pointer goes on to the end.  No
\* fairness for the start: a client may keep a smart pointer for ever.
Destroying(n) ==
  \/ stage[n] = "leaving" /\ Decrement(n)
  \/ FreeCount(n)
  \/ DeleteObject(n)

Spec == Init /\ [][Next]_vars
FairSpec == Spec /\ \A n \in Node : WF_vars(Destroying(n))
-----------------------------------------------------------------------------
TypeOK ==
  /\ stage \in [Node -> Stage]
  /\ cell \in [Node -> Cell \cup {NoCell}]
  /\ pointee \in [Node -> Object \cup {NoObject}]
  /\ count \in [Cell -> Nat]
  /\ cells \in SUBSET Cell
  /\ leaked \in SUBSET cells
  /\ exists \in SUBSET Object
  /\ held \in SUBSET exists

HasCell(n) == stage[n] \in {"owner", "leaving", "last"}
Sharers(c) == {n \in Node : Counted(n) /\ cell[n] = c}

(* Whatever threads copy, swap, reset and destroy, a count is the number of *)
(* the smart pointers that share it and have yet to give it up; a count in  *)
(* memory has such pointers, or the one that is about to free it; only the  *)
(* counts of constructions that threw are lost.                             *)
(* (RefCountedAtomic, SmartPtr.h:492-544; RefCounted, 422-490.)             *)
CountExact ==
  /\ cells = leaked \cup {cell[n] : n \in {m \in Node : HasCell(m)}}
  /\ \A n \in Node : HasCell(n) =>
       cell[n] \notin leaked /\ count[cell[n]] = Cardinality(Sharers(cell[n]))

(* An object lives while anything leads to it: none is deleted under a      *)
(* smart pointer or a client, none is forgotten, and the destructor that    *)
(* deletes one is the only code left that can.                              *)
(* (~SmartPtr, SmartPtr.h:1316-1321, with RefCountedAtomic::Release.)       *)
ExistsIffOwned ==
  /\ exists \ held = {pointee[n] : n \in Node} \ {NoObject}
  /\ \A n \in Node : pointee[n] \notin held
  /\ \A n, m \in Node :
       n # m /\ stage[n] \in {"last", "bare"} /\ pointee[n] = pointee[m]
         => pointee[n] = NoObject

(* The smart pointers that share a count are the parties of CoOwners: the   *)
(* object is destroyed by the last of its party, whichever thread it is in. *)
Party(n) == IF HasCell(n) THEN {m \in Node : HasCell(m) /\ cell[m] = cell[n]} ELSE {n}
Parties == {Party(n) : n \in {m \in Node : Made(m)}}

Abstract == INSTANCE CoOwners WITH parties <- Parties

ImplementsCoOwners == Abstract!Spec

(* An object that only pointers under destruction lead to is deleted in the *)
(* end: of destructors that run at the same time, one finds itself the last. *)
(* (RefCountedAtomic::Release, SmartPtr.h:523-531, and ~SmartPtr.)           *)
Orphan(o) == o \in exists \ held /\ \A n \in Node : Owner(n) => pointee[n] # o

OrphansDie == \A o \in Object : Orphan(o) ~> o \notin exists
=============================================================================
