------------------------------ MODULE Copointers ------------------------------
(***************************************************************************)
(* What StrongPtr promises, whatever its ownership policy                  *)
(* (src/include/loki/StrongPtr.h:28-43).  Copointers form groups; the      *)
(* pointers of a group lead to the same object.  A pointer that leaves its *)
(* group without a strong pointer left in it destroys the object, and in   *)
(* that same step all that stay behind lead to nothing: a weak pointer     *)
(* sees the death of its object.                                           *)
(***************************************************************************)
CONSTANTS Node, Strong, Object, NoObject

VARIABLES
  groups,    \* disjoint sets of copointers
  pointee,   \* the object each pointer leads to
  exists     \* the objects that have not been destroyed

vars == <<groups, pointee, exists>>

Member == UNION groups
GroupOf(n) == CHOOSE g \in groups : n \in g

Init ==
  /\ groups = {}
  /\ pointee = [n \in Node |-> NoObject]
  /\ exists = {}

-----------------------------------------------------------------------------
(* What is left after n leaves its group.  Pointers that lead to nothing    *)
(* may stay together or part.                                               *)

Abandons(n) == GroupOf(n) \cap Strong \subseteq {n}

GroupsWithout(n) ==
  LET group == GroupOf(n)
      others == groups \ {group}
      together == (others \cup {group \ {n}}) \ {{}}
  IN {together} \cup (IF Abandons(n) THEN {others \cup {{m} : m \in group \ {n}}} ELSE {})

PointeeWithout(n) ==
  LET led == IF Abandons(n) THEN GroupOf(n) ELSE {n}
  IN [m \in Node |-> IF m \in led THEN NoObject ELSE pointee[m]]

ExistsWithout(n) == IF Abandons(n) THEN exists \ {pointee[n]} ELSE exists

-----------------------------------------------------------------------------
\* A client makes an object, and with it the pointer n that is its member.
Make(o, n) ==
  /\ o \notin exists
  /\ exists' = exists \cup {o}
  /\ pointee' = [pointee EXCEPT ![n] = NoObject]
  /\ n \notin Member
  /\ groups' = groups \cup {{n}}

Found(n, o) ==
  /\ UNCHANGED exists
  /\ pointee' = [pointee EXCEPT ![n] = o]
  /\ n \notin Member
  /\ groups' = groups \cup {{n}}

JoinIn(gs, n, m) == {IF m \in g THEN g \cup {n} ELSE g : g \in gs}

Join(n, m) ==
  /\ UNCHANGED exists
  /\ pointee' = [pointee EXCEPT ![n] = pointee[m]]
  /\ n \notin Member
  /\ m \in Member
  /\ groups' = JoinIn(groups, n, m)

Leave(n) ==
  /\ n \in Member
  /\ exists' = ExistsWithout(n)
  /\ pointee' = PointeeWithout(n)
  /\ groups' \in GroupsWithout(n)

\* Assignment: n leaves its group and joins that of m, or founds one for o.
Follow(n, m) ==
  /\ {n, m} \subseteq Member
  /\ m \notin GroupOf(n)
  /\ exists' = ExistsWithout(n)
  /\ pointee' = [PointeeWithout(n) EXCEPT ![n] = pointee[m]]
  /\ groups' \in {JoinIn(gs, n, m) : gs \in GroupsWithout(n)}

Replace(n, o) ==
  /\ n \in Member
  /\ exists' = ExistsWithout(n)
  /\ pointee' = [PointeeWithout(n) EXCEPT ![n] = o]
  /\ groups' \in {gs \cup {{n}} : gs \in GroupsWithout(n)}

Exchange(a, b) ==
  LET Other(n) == IF n = a THEN b ELSE IF n = b THEN a ELSE n IN
  /\ UNCHANGED exists
  /\ pointee' = [pointee EXCEPT ![a] = pointee[b], ![b] = pointee[a]]
  /\ a \in Strong <=> b \in Strong
  /\ {a, b} \subseteq Member
  /\ groups' = {{Other(n) : n \in g} : g \in groups}

\* All copointers of n are led to o, or to nothing; the object they had goes back
\* to the client (ReleaseAll) or is destroyed (ResetAll).
Lead(n, o) ==
  LET group == GroupOf(n) IN
  /\ exists' \in {exists, exists \ {pointee[n]}}
  /\ n \in Member
  /\ pointee' = [m \in Node |-> IF m \in group THEN o ELSE pointee[m]]
  /\ UNCHANGED groups

Next ==
  \/ \E o \in Object, n \in Node : Make(o, n)
  \/ \E n \in Node, o \in exists \cup {NoObject} : Found(n, o) \/ Replace(n, o) \/ Lead(n, o)
  \/ \E n, m \in Node : Join(n, m) \/ Follow(n, m) \/ Exchange(n, m)
  \/ \E n \in Node : Leave(n)

Spec == Init /\ [][Next]_vars
=============================================================================
