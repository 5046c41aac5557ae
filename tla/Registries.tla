----------------------------- MODULE Registries -----------------------------
(***************************************************************************)
(* A program whose modules are ordered static objects: each, when it is    *)
(* created, registers a set of classes with a Factory and a CloneFactory   *)
(* and adds a symmetric callback to an FnDispatcher and a                  *)
(* FunctorDispatcher; its destructor takes them out again.  main adds and  *)
(* removes callbacks between.                                              *)
(***************************************************************************)
EXTENDS OrderedStatics, MultiMethods, Factories

CONSTANTS ClassesOf,    \* the typelist of each module's RegisterOnCreateSet
          CallbackOf,   \* and its callback
          MainFunction, \* main's callbacks
          Typelists,    \* the StaticDispatcher's choices of types
          MaxOps        \* bound: what main adds and removes

Function == {CallbackOf[s] : s \in Static} \cup MainFunction

ASSUME RegistriesAssumption ==
  /\ Static \subseteq ProductCreator
  /\ "main" \notin Static
  /\ \A s \in Static : ClassesOf[s] \in Seq(Class) /\ CallbackOf[s].of = s
  /\ \A f \in MainFunction : f.of = "main"
  /\ \A f \in Function : f.lhs \in Class /\ f.rhs \in Class
  /\ \A t \in Typelists :
       /\ t.lhs \in Seq(Class) \ {<<>>} /\ StaticAsserts(t.lhs)
       /\ t.rhs \in Seq(Class) \ {<<>>} /\ StaticAsserts(t.rhs)

\* No adapter is the absence of one.
ASSUME NoCallbackAssumption ==
  \A f \in Function :
    /\ \A tag \in {"Trampoline", "TrampolineR"} : [tag |-> tag, fun |-> f] # NoCallback
    /\ \A swapArgs \in BOOLEAN : [swapArgs |-> swapArgs, fun |-> f] # NoCallback

VARIABLES types,       \* OriginTypesLhs and OriginTypesRhs; they never change
          factory, clones,
          fnMap,       \* the FnDispatcher's callbackMap_
          functorMap,  \* the FunctorDispatcher's
          ops

registries == <<factory, clones, fnMap, functorMap>>
vars == <<staticVars, types, registries, ops>>

RegistriesInit ==
  /\ Init
  /\ types \in Typelists
  /\ factory = NoAssociations /\ clones = NoAssociations
  /\ fnMap = NoCallbacks /\ functorMap = NoCallbacks
  /\ ops = 0

AddCallback(fun, symmetric) ==
  /\ fnMap' = FnAdd(fnMap, fun, symmetric)
  /\ functorMap' = FunctorAdd(functorMap, fun, symmetric)

RemoveCallback(lhs, rhs) ==
  /\ fnMap' = FnRemove(fnMap, lhs, rhs)
  /\ functorMap' = FunctorRemove(functorMap, lhs, rhs)

\* The constructor of a module.
CreateModule(s) ==
  /\ Create(s)
  /\ factory' = RegisterSet(factory, ClassesOf[s], s)
  /\ clones' = RegisterCloneSet(clones, ClassesOf[s])
  /\ AddCallback(CallbackOf[s], TRUE)
  /\ UNCHANGED <<types, ops>>

\* Its destructor: Remove takes out one direction of a symmetric callback.
DestroyModule(s) ==
  LET f == CallbackOf[s] IN
  /\ AtExitFn(s)
  /\ factory' = UnregisterSet(factory, ClassesOf[s])
  /\ clones' = UnregisterCloneSet(clones, ClassesOf[s])
  /\ fnMap' = FnRemove(FnRemove(fnMap, f.lhs, f.rhs), f.rhs, f.lhs)
  /\ functorMap' = FunctorRemove(FunctorRemove(functorMap, f.lhs, f.rhs), f.rhs, f.lhs)
  /\ UNCHANGED <<types, ops>>

MainAdds ==
  /\ phase = "main" /\ ops < MaxOps
  /\ \E f \in MainFunction, symmetric \in BOOLEAN : AddCallback(f, symmetric)
  /\ ops' = ops + 1
  /\ UNCHANGED <<staticVars, types, factory, clones>>

MainRemoves ==
  /\ phase = "main" /\ ops < MaxOps
  /\ \E a, b \in Class : RemoveCallback(a, b)
  /\ ops' = ops + 1
  /\ UNCHANGED <<staticVars, types, factory, clones>>

Proceeds ==
  \/ \E s \in Static : CreateModule(s)
  \/ /\ (\E s \in Static : Load(s)) \/ Main \/ Pass \/ NextLongevity \/ EndCreation
     /\ UNCHANGED <<types, registries, ops>>

RegistriesNext ==
  \/ Proceeds \/ MainAdds \/ MainRemoves
  \/ Exit /\ UNCHANGED <<types, registries, ops>>
  \/ \E s \in Static : DestroyModule(s)

Spec == RegistriesInit /\ [][RegistriesNext]_vars

\* Loading and createObjects are one thread's, and go on.
FairSpec == Spec /\ WF_vars(Proceeds)

-----------------------------------------------------------------------------
(* Properties *)

\* No creator and no callback of a module outlives it, and the classes that
\* one module alone registers can be made and cloned exactly while it is
\* there (Register.h's sets, Factory, CloneFactory, the dispatchers' Remove).
RegistriesMatchLife ==
  /\ \A c \in Class :
       /\ factory[c] # NoCreator =>
            alive[factory[c]] > 0 /\ Contains(ClassesOf[factory[c]], c)
       /\ (factory[c] = NoCreator) <=> (clones[c] = NoCreator)
       /\ clones[c] \in {c, NoCreator}
  /\ \A s \in Static, c \in Class :
       Contains(ClassesOf[s], c) /\ (\A t \in Static \ {s} : ~Contains(ClassesOf[t], c))
         => (factory[c] = s <=> alive[s] > 0)
  /\ \A k \in Class \X Class :
       fnMap[k] # NoCallback => fnMap[k].fun.of = "main" \/ alive[fnMap[k].fun.of] > 0

\* FnDispatcher and FunctorDispatcher call the same callback with the same
\* objects, whatever was added, overwritten and removed; its parameters get
\* objects of exactly their classes, so that no cast fails with DynamicCaster
\* and none is undefined with StaticCaster.
DispatchersAgree ==
  \A a, b \in Class :
    LET x == [class |-> a, side |-> "lhs"]
        y == [class |-> b, side |-> "rhs"]
        call == FnGo(fnMap, x, y)
    IN  /\ FunctorGo(functorMap, x, y) = call
        /\ call # NoCallback =>
             /\ call.args \in {<<x, y>>, <<y, x>>}
             /\ call.args[1].class = call.fun.lhs /\ call.args[2].class = call.fun.rhs

\* A listed base of class c from which no other listed base of c derives: with
\* several parents there may be more than one such.
IsNearest(list, t, c) ==
  /\ t \in ToSet(list) \cap BasesOf[c]
  /\ \A d \in ToSet(list) \cap BasesOf[c] : t \in BasesOf[d] => d = t

\* StaticDispatcher calls its executor with each object as a base of its
\* class from which no other base in the typelist derives, in whatever order
\* the list names the types and through however many parents they derive;
\* OnError is never reached; with symmetry on one typelist, exchanging the
\* arguments changes nothing but where both are seen as one type.
StaticDispatchNearest ==
  \A a, b \in Class, symmetric \in BOOLEAN :
    LET call == StaticDispatch(types.lhs, types.rhs, symmetric, a, b)
        back == StaticDispatch(types.rhs, types.lhs, symmetric, b, a)
    IN  Base(types.lhs) \in BasesOf[a] /\ Base(types.rhs) \in BasesOf[b] =>
        /\ call # OnError
        /\ \A i \in 1..2 :
             IF call[i].side = "lhs" THEN IsNearest(types.lhs, call[i].type, a)
                                     ELSE IsNearest(types.rhs, call[i].type, b)
        /\ symmetric /\ types.lhs = types.rhs =>
             \A i \in 1..2 :
               /\ call[i].type = back[i].type
               /\ call[1].type # call[2].type => call[i].side # back[i].side

DispatchSound == DispatchersAgree /\ StaticDispatchNearest
=============================================================================
