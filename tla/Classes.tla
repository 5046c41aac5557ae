------------------------------ MODULE Classes ------------------------------
(***************************************************************************)
(* The class hierarchy of a program that uses the factories, dispatchers   *)
(* and visitors.  A class may have several parents and share a base with   *)
(* others.  Bases are public and shared ones virtual, so that a cast to a  *)
(* base succeeds; a program with an ambiguous or private base is outside.  *)
(***************************************************************************)
EXTENDS Naturals, SequencesExt

CONSTANTS Class,     \* the classes,
          ParentsOf  \* each with those it derives from directly

ASSUME ClassesAssumption == ParentsOf \in [Class -> SUBSET Class]

Upward(S) == \A c \in S : ParentsOf[c] \subseteq S

\* The classes that std::is_base_of calls a base of class c: c, and up.
BasesOf[c \in Class] == {b \in Class : \A S \in SUBSET Class : c \in S /\ Upward(S) => b \in S}

ASSUME NoneItsOwnParent == \A c \in Class : \A p \in ParentsOf[c] : c \notin BasesOf[p]
=============================================================================
