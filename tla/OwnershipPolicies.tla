--------------------------- MODULE OwnershipPolicies ---------------------------
(***************************************************************************)
(* OwnershipPolicy, as StrongPtr of src/include/loki/StrongPtr.h uses it:  *)
(* the functions of the base class that its template parameter OP names,   *)
(* which is TwoRefCounts or TwoRefLinks.  A behaviour starts with the      *)
(* state of one of them, and the shape of the state tells which it is.     *)
(***************************************************************************)
EXTENDS TwoRefLinks

CONSTANTS Info, NoInfo  \* the places of a TwoRefCountInfo, and NULL

Counts == INSTANCE TwoRefCounts

HasCounts(s) == "info" \in DOMAIN s

OP_None == {Counts!NoOwners, NotLinked}

OP_Type == Counts!OwnType \cup LinkedType

OP_Create(s, n, p, strong) ==
  IF HasCounts(s) THEN Counts!Create(s, n, p, strong) ELSE LinkedCreate(s, n, p, strong)

OP_Share(s, n, rhs, strong) ==
  IF HasCounts(s) THEN Counts!Share(s, n, rhs, strong) ELSE LinkedShare(s, n, rhs, strong)

OP_Release(s, n, strong) ==
  IF HasCounts(s) THEN Counts!Release(s, n, strong) ELSE LinkedRelease(s, n, strong)

OP_HasStrongPointer(s, n) ==
  IF HasCounts(s) THEN Counts!HasStrongPointer(s, n) ELSE LinkedHasStrongPointer(s, n)

OP_Swap(s, a, b) ==
  IF HasCounts(s) THEN Counts!Swap(s, a, b) ELSE LinkedSwap(s, a, b)

OP_SetPointer(s, n, p) ==
  IF HasCounts(s) THEN Counts!SetPointer(s, n, p) ELSE LinkedSetPointer(s, n, p)

OP_ZapPointer(s, n) ==
  IF HasCounts(s) THEN Counts!ZapPointer(s, n) ELSE LinkedZapPointer(s, n)

OP_GetPointer(s, n) ==
  IF HasCounts(s) THEN Counts!GetPointer(s, n) ELSE LinkedGetPointer(s, n)

OP_Forget(s, n) == IF HasCounts(s) THEN Counts!Forget(s, n) ELSE LinkedForget(s, n)
=============================================================================
