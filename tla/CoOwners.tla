------------------------------- MODULE CoOwners -------------------------------
(***************************************************************************)
(* What shared ownership means, however it is kept: smart pointers form    *)
(* parties, each party owns one object (or none, when its pointers are     *)
(* null), and the object is destroyed in the very step in which the last   *)
(* member of the party leaves.                                             *)
(***************************************************************************)
EXTENDS Naturals

CONSTANTS Node, Object, NoObject

VARIABLES
  parties,   \* disjoint sets of smart pointers
  pointee,   \* the object each smart pointer leads to
  exists     \* the objects that have not been destroyed

Member == UNION parties
PartyOf(n) == CHOOSE p \in parties : n \in p

Init ==
  /\ parties = {}
  /\ pointee = [n \in Node |-> NoObject]
  /\ exists = {}

\* A client makes an object.
Make(o) ==
  /\ o \notin exists
  /\ exists' = exists \cup {o}
  /\ UNCHANGED <<parties, pointee>>

\* A client deletes an object that no smart pointer leads to.
Unmake(o) ==
  /\ o \in exists
  /\ \A n \in Member : pointee[n] # o
  /\ exists' = exists \ {o}
  /\ UNCHANGED <<parties, pointee>>

Found(n, o) ==
  /\ n \notin Member
  /\ parties' = parties \cup {{n}}
  /\ pointee' = [pointee EXCEPT ![n] = o]
  /\ UNCHANGED exists

Join(n, m) ==
  /\ n \notin Member
  /\ m \in Member
  /\ parties' = (parties \ {PartyOf(m)}) \cup {PartyOf(m) \cup {n}}
  /\ pointee' = [pointee EXCEPT ![n] = pointee[m]]
  /\ UNCHANGED exists

Exchange(a, b) ==
  LET Other(n) == IF n = a THEN b ELSE IF n = b THEN a ELSE n IN
  /\ {a, b} \subseteq Member
  /\ parties' = {{Other(n) : n \in p} : p \in parties}
  /\ pointee' = [pointee EXCEPT ![a] = pointee[b], ![b] = pointee[a]]
  /\ UNCHANGED exists

Unite(a, b) ==
  /\ {a, b} \subseteq Member
  /\ parties' = (parties \ {PartyOf(a), PartyOf(b)}) \cup {PartyOf(a) \cup PartyOf(b)}
  /\ UNCHANGED <<pointee, exists>>

Without(n) == {p \ {n} : p \in parties} \ {{}}

Leave(n) ==
  /\ n \in Member
  /\ parties' = Without(n)
  /\ pointee' = [pointee EXCEPT ![n] = NoObject]
  /\ exists' = IF PartyOf(n) = {n} THEN exists \ {pointee[n]} ELSE exists

\* n leaves its party and owns o instead.
Replace(n, o) ==
  /\ n \in Member
  /\ parties' = Without(n) \cup {{n}}
  /\ pointee' = [pointee EXCEPT ![n] = o]
  /\ exists' = IF PartyOf(n) = {n} THEN exists \ {pointee[n]} ELSE exists

\* t takes n's place in its party, and n founds a party for o.
Depute(n, t, o) ==
  LET InPlace(m) == IF m = n THEN t ELSE m IN
  /\ n \in Member
  /\ t \notin Member
  /\ parties' = {{InPlace(m) : m \in p} : p \in parties} \cup {{n}}
  /\ pointee' = [pointee EXCEPT ![n] = o, ![t] = pointee[n]]
  /\ UNCHANGED exists

\* A party of one gives its object back to the client.
GiveUp(n) ==
  /\ {n} \in parties
  /\ pointee' = [pointee EXCEPT ![n] = NoObject]
  /\ UNCHANGED <<parties, exists>>

Next ==
  \/ \E o \in Object : Make(o) \/ Unmake(o)
  \/ \E n \in Node, o \in exists \cup {NoObject} : Found(n, o) \/ Replace(n, o)
  \/ \E n, t \in Node, o \in exists \cup {NoObject} : Depute(n, t, o)
  \/ \E n, m \in Node : Join(n, m) \/ Exchange(n, m) \/ Unite(n, m)
  \/ \E n \in Node : Leave(n) \/ GiveUp(n)

Spec == Init /\ [][Next]_<<parties, pointee, exists>>
=============================================================================
