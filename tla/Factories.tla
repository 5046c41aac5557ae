----------------------------- MODULE Factories -----------------------------
(***************************************************************************)
(* Factory and CloneFactory, src/include/loki/Factory.h, and the sets of   *)
(* src/include/loki/Register.h whose construction registers, and whose     *)
(* destruction unregisters, a list of classes.  The associations of both   *)
(* factories map a class to its product creator.                           *)
(***************************************************************************)
EXTENDS Classes, Loops

CONSTANT ProductCreator

NoCreator == "Unknown Type"
NoAssociations == [c \in Class |-> NoCreator]

ASSUME CreatorsAssumption == NoCreator \notin ProductCreator \cup Class

\* The associations of a Factory, and of a CloneFactory.
Associations == [Class -> ProductCreator \cup {NoCreator}]
CloneAssociations == [Class -> Class \cup {NoCreator}]

-----------------------------------------------------------------------------
(* Factory *)

\* try_emplace: what is registered first stays.
Register(assoc, id, creator) ==
  IF assoc[id] = NoCreator THEN [assoc EXCEPT ![id] = creator] ELSE assoc

\* Mutant: tells whether it is registered and does not erase it.
Unregister_Finds(assoc, id) == assoc

Unregister(assoc, id) == [assoc EXCEPT ![id] = NoCreator]

\* The creator's product, or the exception of DefaultFactoryError.
CreateObject(assoc, id) == assoc[id]

-----------------------------------------------------------------------------
(* CloneFactory *)

\* cloneProduct<Base, T> copies the model as a T: an object of class T.
CloneProduct(T) == T

RegisterClone(assoc, T) ==
  IF assoc[T] = NoCreator THEN [assoc EXCEPT ![T] = CloneProduct(T)] ELSE assoc

UnregisterClone(assoc, T) == [assoc EXCEPT ![T] = NoCreator]

\* The class of the clone of a model, by the model's dynamic class.
Clone(assoc, model) == assoc[model]

-----------------------------------------------------------------------------
(* RegisterOnCreateSet, UnRegisterOnDeleteSet *)

\* GenScatterHierarchy derives from one element for each class of the list;
\* bases are constructed in the order of the list and destroyed in reverse.
RegisterSet(assoc, list, creator) ==
  Loop([k \in 1 .. Len(list) |-> [a \in Associations |-> Register(a, list[k], creator)]],
       assoc, Len(list))

UnregisterSet(assoc, list) ==
  Loop([k \in 1 .. Len(list) |-> [a \in Associations |-> Unregister(a, list[Len(list) - k + 1])]],
       assoc, Len(list))

RegisterCloneSet(assoc, list) ==
  Loop([k \in 1 .. Len(list) |-> [a \in CloneAssociations |-> RegisterClone(a, list[k])]],
       assoc, Len(list))

UnregisterCloneSet(assoc, list) ==
  Loop([k \in 1 .. Len(list) |->
         [a \in CloneAssociations |-> UnregisterClone(a, list[Len(list) - k + 1])]],
       assoc, Len(list))
=============================================================================
