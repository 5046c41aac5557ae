----------------------------- MODULE TwoRefCounts -----------------------------
(***************************************************************************)
(* The ownership policy TwoRefCounts of src/include/loki/StrongPtr.h and   *)
(* src/include/StrongPtr.cpp: all copointers share one TwoRefCountInfo,    *)
(* with the pointer to their object and the number of strong and of weak   *)
(* copointers.  The state of the policy is a record own:                   *)
(*   m_counts   the TwoRefCountInfo of each StrongPtr,                     *)
(*   info       what each TwoRefCountInfo holds,                           *)
(*   used       the ones that are allocated.                               *)
(***************************************************************************)
EXTENDS Integers

CONSTANTS
  Node,      \* the places where a StrongPtr may live
  Info,      \* the places of a TwoRefCountInfo
  NoInfo,    \* NULL
  Object,    \* the objects that can be owned
  NoObject   \* NULL

\* A TwoRefCountInfo that is not allocated.
Unused == [pointer |-> NoObject, strong |-> 0, weak |-> 0]

OwnType ==
  [m_counts : [Node -> Info \cup {NoInfo}],
   info : [Info -> [pointer : Object \cup {NoObject}, strong : Nat, weak : Nat]],
   used : SUBSET Info]

NoOwners ==
  [m_counts |-> [n \in Node |-> NoInfo], info |-> [i \in Info |-> Unused], used |-> {}]

InfoOf(own, n) == own.info[own.m_counts[n]]

\* m_counts->GetPointer, HasStrongPointer, HasWeakPointer
GetPointer(own, n) == InfoOf(own, n).pointer
HasStrongPointer(own, n) == InfoOf(own, n).strong > 0
HasWeakPointer(own, n) == InfoOf(own, n).weak > 0

\* TwoRefCounts(p, strong)
Create(own, n, p, strong) ==
  LET i == CHOOSE i \in Info : i \notin own.used
      first == [pointer |-> p, strong |-> IF strong THEN 1 ELSE 0, weak |-> IF strong THEN 0 ELSE 1]
  IN [m_counts |-> [own.m_counts EXCEPT ![n] = i],
      info |-> [own.info EXCEPT ![i] = first],
      used |-> own.used \cup {i}]

\* Increment and Decrement add 1 or -1 to the count of one kind.
Counted(own, i, strong, k) ==
  IF strong THEN [own EXCEPT !.info[i].strong = @ + k]
  ELSE [own EXCEPT !.info[i].weak = @ + k]

\* TwoRefCounts(rhs, strong)
Share(own, n, rhs, strong) ==
  [Counted(own, own.m_counts[rhs], strong, 1) EXCEPT !.m_counts[n] = own.m_counts[rhs]]

\* Release returns whether no strong pointer is left.
Release_OnlyStrong(own, n, strong) ==  \* mutant: a weak pointer never is the last
  LET left == Counted(own, own.m_counts[n], strong, -1)
  IN [own |-> left, last |-> strong /\ ~HasStrongPointer(left, n)]

Release(own, n, strong) ==
  LET left == Counted(own, own.m_counts[n], strong, -1)
  IN [own |-> left, last |-> ~HasStrongPointer(left, n)]

Swap(own, a, b) ==
  [own EXCEPT !.m_counts[a] = own.m_counts[b], !.m_counts[b] = own.m_counts[a]]

SetPointer(own, n, p) == [own EXCEPT !.info[own.m_counts[n]].pointer = p]

ZapPointer(own, n) ==
  IF HasWeakPointer(own, n) THEN SetPointer(own, n, NoObject)
  ELSE [m_counts |-> [own.m_counts EXCEPT ![n] = NoInfo],
        info |-> [own.info EXCEPT ![own.m_counts[n]] = Unused],
        used |-> own.used \ {own.m_counts[n]}]

\* The memory of a destroyed StrongPtr is not read again.
Forget(own, n) == [own EXCEPT !.m_counts[n] = NoInfo]
=============================================================================
