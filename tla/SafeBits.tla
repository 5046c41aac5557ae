------------------------------- MODULE SafeBits -------------------------------
(***************************************************************************)
(* SafeBitConst and SafeBitField of src/include/loki/SafeBits.h: words of  *)
(* Width bits, of a kind, which is their unique_index.  Shifting by Width  *)
(* or more is undefined for words of full width.                           *)
(***************************************************************************)
EXTENDS Integers, Loops

CONSTANTS
  Width,   \* 8 * sizeof(word_t)
  Bool     \* the type, beside the kinds, of conditions and of integers

ASSUME WidthAssumption == Width \in Nat \ {0}

\* Bit 1 is the junior bit.
Bit == 1 .. Width

\* The word in which just the bits of S are set, read from the senior bit on.
Number(S) ==
  Loop([k \in Bit |-> [high \in Nat |-> 2 * high + (IF Width - k + 1 \in S THEN 1 ELSE 0)]], 0, Width)

Word == 0 .. Number(Bit)

\* The shifts of words: a bit that leaves the word is lost.
ShiftLeft(x, s) == Loop([k \in 1 .. s |-> [w \in Nat |-> 2 * w % (Number(Bit) + 1)]], x, s)
ShiftRight(x, s) == Loop([k \in 1 .. s |-> [w \in Nat |-> w \div 2]], x, s)

BitsOf(x) == {i \in Bit : ShiftRight(x, i - 1) % 2 = 1}

\* |, & and ^ of words, bit by bit.
BitByBit(x, y) ==
  LET p == BitsOf(x)
      q == BitsOf(y)
  IN  [or |-> Number(p \cup q), and |-> Number(p \cap q), xor |-> Number((p \ q) \cup (q \ p))]

\* LOKI_BIT_CONST: bit index 0 makes the constant without any.
MakeBitConst(i) == IF i > 0 THEN ShiftLeft(1, i - 1) ELSE 0

\* The operators of two constants, of a constant and a field.
ConstOperators(x, y) == BitByBit(x, y)
Complement(x) == Number(Bit) - x
ConstShift(x, s) == [left |-> ShiftLeft(x, s), right |-> ShiftRight(x, s)]
ConstCompare(x, y) ==
  [eq |-> x = y, ne |-> x # y, lt |-> x < y, gt |-> x > y, le |-> x <= y, ge |-> x >= y]

\* Those of a field and a field or a constant; ~, << and >> are as those of constants.
FieldOperators(x, y) == BitByBit(x, y)
FieldShift(x, s) == ConstShift(x, s)
FieldCompare(x, y) == ConstCompare(x, y)

\* x op= y: the field, and what the expression is, which is a copy of the field:
\* another op= on it changes the copy alone.
CompoundAssign(x, y) ==
  [op \in {"or", "and", "xor"} |-> [field |-> FieldOperators(x, y)[op], copy |-> FieldOperators(x, y)[op]]]
ShiftAssign(x, s) ==
  [way \in {"left", "right"} |-> [field |-> FieldShift(x, s)[way], copy |-> FieldShift(x, s)[way]]]

\* The conversion that "if (field & label)" takes.
IsSet(x) == x # 0

-----------------------------------------------------------------------------
(* What does not compile: operators that need a Forbidden_conversion. *)

\* constant op T, field op T and field op= T, for comparisons as well.
ConstForbids(kind, T) == T # kind

FieldForbids_LetsBool(kind, T) == T \notin {kind, Bool}  \* mutant: fields convert to bool
FieldForbids(kind, T) == T # kind

\* bool op field, where a field of another kind has become a bool.
BoolForbids(op) == op \in {"and", "or", "xor", "eq", "ne"}
=============================================================================
