---------------------------- MODULE MultiMethods ----------------------------
(***************************************************************************)
(* Double dispatch, src/include/loki/MultiMethods.h.  StaticDispatcher     *)
(* tries dynamic_casts along two typelists, the most derived types first;  *)
(* BasicDispatcher looks up the exact types of both arguments in a map,    *)
(* which FnDispatcher and FunctorDispatcher fill with adapters that cast,  *)
(* and for a symmetric callback exchange, the arguments.                   *)
(*                                                                         *)
(* An object is an argument by its side, "lhs" or "rhs", and its dynamic   *)
(* class; a callback is [of, lhs, rhs]: who added it and the classes of    *)
(* its two parameters.                                                     *)
(***************************************************************************)
EXTENDS Classes, Loops

CONSTANTS NoCallback,  \* what is in the map for no callback: std::runtime_error
          BadCast      \* std::bad_cast, or with StaticCaster an undefined reference

-----------------------------------------------------------------------------
(* StaticDispatcher *)

\* mp_partition: the types of a list that are in S, in their order.
Kept(types, S) ==
  Loop([k \in 1 .. Len(types) |->
         [kept \in Seq(Class) |-> IF types[k] \in S THEN Append(kept, types[k]) ELSE kept]],
       <<>>, Len(types))

\* mp_sort divides what follows the first type by the predicate
\* "is no base of it", no strict weak order where types are unrelated.
MpSort[types \in Seq(Class)] ==
  IF types = <<>> THEN <<>>
  ELSE MpSort[Kept(Tail(types), Class \ BasesOf[Head(types)])]
       \o <<Head(types)>> \o
       MpSort[Kept(Tail(types), BasesOf[Head(types)])]

\* BaseLhs and BaseRhs, which "invoke" takes its arguments as, and what the
\* static_asserts say of each list.
Base(types) == Last(MpSort[types])

StaticAsserts(types) == \A i \in 1 .. Len(types) : Base(types) \in BasesOf[types[i]]

\* The first type of a list that dynamic_cast finds in an object of class c.
FirstBase(types, c) == SelectInSeq(types, LAMBDA t : t \in BasesOf[c])

\* An argument as the executor's parameter sees it.
As(type, side) == [type |-> type, side |-> side]

DoDispatch(lhs, rhs, reversed) == IF reversed THEN <<rhs, lhs>> ELSE <<lhs, rhs>>

\* No parameters: the executor's OnError.
OnError == <<>>

DispatchRhs(l, r, symmetric, i, b) ==
  LET j == FirstBase(r, b) IN
  IF j = 0 THEN OnError
  ELSE DoDispatch(As(l[i], "lhs"), As(r[j], "rhs"), symmetric /\ j < i)

\* What the executor is called with for objects of classes a and b.
StaticDispatch(lhsTypes, rhsTypes, symmetric, a, b) ==
  LET l == MpSort[lhsTypes]
      r == MpSort[rhsTypes]
      i == FirstBase(l, a)
  IN  IF i = 0 THEN OnError ELSE DispatchRhs(l, r, symmetric, i, b)

-----------------------------------------------------------------------------
(* BasicDispatcher: callbackMap_ *)

NoCallbacks == [k \in Class \X Class |-> NoCallback]

DoAdd(map, lhs, rhs, adapter) == [map EXCEPT ![<<lhs, rhs>>] = adapter]

DoRemove(map, lhs, rhs) == [map EXCEPT ![<<lhs, rhs>>] = NoCallback]

\* StaticCaster, DynamicCaster: a reference to the object as a "type".
Cast(type, object) ==
  IF type \in BasesOf[object.class] THEN object ELSE BadCast

Call(fun, x, y) == [fun |-> fun, args |-> <<Cast(fun.lhs, x), Cast(fun.rhs, y)>>]

-----------------------------------------------------------------------------
(* FnDispatcher *)

Trampoline(fun, lhs, rhs) == Call(fun, lhs, rhs)

\* Mutant: declares its parameters in the order of Trampoline.
TrampolineR_Straight(fun, rhs, lhs) == Trampoline(fun, rhs, lhs)

TrampolineR(fun, rhs, lhs) == Trampoline(fun, lhs, rhs)

FnAdd(map, fun, symmetric) ==
  LET once == DoAdd(map, fun.lhs, fun.rhs, [tag |-> "Trampoline", fun |-> fun]) IN
  IF symmetric THEN DoAdd(once, fun.rhs, fun.lhs, [tag |-> "TrampolineR", fun |-> fun]) ELSE once

FnRemove(map, lhs, rhs) == DoRemove(map, lhs, rhs)

\* Go, by the exact classes of the objects.
FnGo(map, x, y) ==
  LET found == map[<<x.class, y.class>>] IN
  IF found = NoCallback THEN NoCallback
  ELSE IF found.tag = "Trampoline" THEN Trampoline(found.fun, x, y)
  ELSE TrampolineR(found.fun, x, y)

-----------------------------------------------------------------------------
(* FunctorDispatcher *)

Fire(fun, x, y, swapArgs) == IF swapArgs THEN Call(fun, y, x) ELSE Call(fun, x, y)

FunctorAdd(map, fun, symmetric) ==
  LET once == DoAdd(map, fun.lhs, fun.rhs, [swapArgs |-> FALSE, fun |-> fun]) IN
  IF symmetric THEN DoAdd(once, fun.rhs, fun.lhs, [swapArgs |-> TRUE, fun |-> fun]) ELSE once

FunctorRemove(map, lhs, rhs) == DoRemove(map, lhs, rhs)

FunctorGo(map, x, y) ==
  LET found == map[<<x.class, y.class>>] IN
  IF found = NoCallback THEN NoCallback ELSE Fire(found.fun, x, y, found.swapArgs)
=============================================================================
