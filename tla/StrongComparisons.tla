-------------------------- MODULE StrongComparisons --------------------------
(***************************************************************************)
(* The comparisons of src/include/loki/StrongPtr.h: all twelve signatures, *)
(* between StrongPtrs and between a StrongPtr and a plain pointer on       *)
(* either side, are written with three member functions.  A pointer is     *)
(* what it leads to.                                                       *)
(***************************************************************************)
EXTENDS Integers

CONSTANT Address   \* where objects are; NULL is at 0

\* s.Equals(p), s.LessThan(p), s.GreaterThan(p), for a StrongPtr s.
Equals(s, p) == Address[s] = Address[p]
LessThan(s, p) == Address[s] < Address[p]
GreaterThan_OrEqual(s, p) == Address[s] >= Address[p]  \* mutant
GreaterThan(s, p) == Address[s] > Address[p]

\* lhs op rhs, of two StrongPtrs: the right one is asked.
Compare(lhs, rhs) ==
  [eq |-> Equals(rhs, lhs), ne |-> ~Equals(rhs, lhs),
   lt |-> GreaterThan(rhs, lhs), gt |-> LessThan(rhs, lhs),
   le |-> ~LessThan(rhs, lhs), ge |-> ~GreaterThan(rhs, lhs)]

\* std::less
Less(lhs, rhs) == Compare(lhs, rhs).lt

\* A StrongPtr s and a plain pointer p: s op p and p op s.
CompareEqual(s, p) == [eq |-> Equals(s, p), ne |-> ~Equals(s, p)]
CompareLess(s, p) == [left |-> LessThan(s, p), right |-> GreaterThan(s, p)]
CompareGreater(s, p) == [left |-> GreaterThan(s, p), right |-> LessThan(s, p)]
CompareLessEqual(s, p) == [left |-> ~GreaterThan(s, p), right |-> ~LessThan(s, p)]
CompareGreaterEqual(s, p) == [left |-> ~LessThan(s, p), right |-> ~GreaterThan(s, p)]

\* operator! and the conversion that "if (s)" takes.
IsNull(s) == Address[s] = 0
=============================================================================
