------------------------------- MODULE StrongPtr -------------------------------
(***************************************************************************)
(* StrongPtr of src/include/loki/StrongPtr.h: strong and weak pointers to  *)
(* shared objects, over any ownership policy OP.  Objects have a StrongPtr *)
(* as a data member, so that deleting one object runs the destructor of a  *)
(* pointer to another, or to the same: destructors nest.  Each destructor  *)
(* that is at work is a frame of the stack.                                *)
(*                                                                         *)
(* One thread at a time uses the pointers.  A client makes a pointer only  *)
(* from an object it holds itself, and does not call ResetAll for a member *)
(* of an object, which it might be deleting.  The destructor of an object  *)
(* does nothing but destroy its member.                                    *)
(***************************************************************************)
EXTENDS OwnershipPolicies, StrongComparisons, Sequences

CONSTANTS
  Strong,         \* those of the places whose type is a strong pointer
  Temp,           \* the places of unnamed temporaries, one strong and one weak
  MemberOf,       \* the StrongPtr that each object has as a data member
  Resettable      \* ResetPolicy: whether OnResetAll allows it with and without
                  \* strong pointers, as the set of the answers it allows it for

ASSUME StrongPtrAssumption ==
  /\ NoObject \notin Object
  /\ Strong \subseteq Node
  /\ Temp \subseteq Node
  /\ \A strong \in BOOLEAN : \E t \in Temp : (t \in Strong) = strong
  /\ MemberOf \in [Object -> Node \ Temp]
  /\ \A o, o2 \in Object : MemberOf[o] = MemberOf[o2] => o = o2
  /\ Resettable \subseteq BOOLEAN

\* There is memory for the records of all pointers and of a temporary: operator new
\* does not throw.
ASSUME InfoAssumption ==
  /\ NoInfo \notin Info
  /\ IsFiniteSet(Info)
  /\ Cardinality(Node \ Temp) < Cardinality(Info)

\* Objects have addresses of their own, and NULL is not one of them.
ASSUME AddressAssumption ==
  /\ Address \in [Object \cup {NoObject} -> Nat]
  /\ \A o, o2 \in Object \cup {NoObject} : Address[o] = Address[o2] => o = o2
  /\ Address[NoObject] = 0

VARIABLES
  own,        \* the state of the ownership policy
  made,       \* the pointers that are constructed
  exists,     \* the objects whose destructor has not begun
  held,       \* of these, the ones the client holds itself
  stack,      \* the destructors of objects at work, innermost first
  undefined   \* an object was deleted that did not exist

vars == <<own, made, exists, held, stack, undefined>>

Pointee(n) == OP_GetPointer(own, n)

\* The client's code runs while no destructor does.
Idle == stack = <<>> /\ ~undefined

IsMember(n) == \E o \in Object : n = MemberOf[o]

Vacant(n) == n \notin made /\ n \notin Temp /\ ~IsMember(n)

TempFor(n) == CHOOSE t \in Temp : t \in Strong <=> n \in Strong

Init ==
  /\ own \in OP_None
  /\ made = {}
  /\ exists = {}
  /\ held = {}
  /\ stack = <<>>
  /\ undefined = FALSE

-----------------------------------------------------------------------------
(* Deletion *)

\* DP::Delete(o): o's destructor begins.  What follows it is a frame: nothing, or
\* that ResetAll leads the copointers of n to an object.
NoReset == [node |-> NoNode, to |-> NoObject]

Delete(o, next) ==
  /\ undefined' = (o \notin exists)
  /\ exists' = exists \ {o}
  /\ stack' = <<[object |-> o, next |-> next]>> \o stack

\* ~StrongPtr, in a state s of the policy: whether n has to delete its object,
\* and which it is, is read before ZapPointer takes it from all copointers.
LetGo_Unzapped(s, n) ==  \* mutant: the object is deleted before it is zapped
  LET released == OP_Release(s, n, n \in Strong) IN
  /\ own' = OP_Forget(released.own, n)
  /\ IF released.last /\ OP_GetPointer(released.own, n) # NoObject
     THEN Delete(OP_GetPointer(released.own, n), NoReset)
     ELSE UNCHANGED <<exists, stack, undefined>>

LetGo(s, n) ==
  LET released == OP_Release(s, n, n \in Strong)
      left == IF released.last THEN OP_ZapPointer(released.own, n) ELSE released.own
  IN /\ own' = OP_Forget(left, n)
     /\ IF released.last /\ OP_GetPointer(released.own, n) # NoObject
        THEN Delete(OP_GetPointer(released.own, n), NoReset)
        ELSE UNCHANGED <<exists, stack, undefined>>

\* The destructor of the innermost object destroys the object's member, ...
DestroyMember ==
  /\ stack # <<>>
  /\ ~undefined
  /\ MemberOf[Head(stack).object] \in made
  /\ LetGo(own, MemberOf[Head(stack).object])
  /\ made' = made \ {MemberOf[Head(stack).object]}
  /\ UNCHANGED held

\* ... and returns to whoever deleted the object.
Return ==
  /\ stack # <<>>
  /\ ~undefined
  /\ MemberOf[Head(stack).object] \notin made
  /\ stack' = Tail(stack)
  /\ own' = IF Head(stack).next = NoReset THEN own
            ELSE OP_SetPointer(own, Head(stack).next.node, Head(stack).next.to)
  /\ UNCHANGED <<made, exists, held, undefined>>

-----------------------------------------------------------------------------
(* The client *)

\* new o, whose member is default-constructed.
NewObject(o) ==
  /\ Idle
  /\ o \notin exists
  /\ exists' = exists \cup {o}
  /\ held' = held \cup {o}
  /\ own' = OP_Create(own, MemberOf[o], NoObject, MemberOf[o] \in Strong)
  /\ made' = made \cup {MemberOf[o]}
  /\ UNCHANGED <<stack, undefined>>

\* StrongPtr(), StrongPtr(p)
Construct(n, o) ==
  /\ Idle
  /\ Vacant(n)
  /\ o \in held \cup {NoObject}
  /\ own' = OP_Create(own, n, o, n \in Strong)
  /\ made' = made \cup {n}
  /\ held' = held \ {o}
  /\ UNCHANGED <<exists, stack, undefined>>

\* StrongPtr(rhs), of the same or of the other strength.
Copy(n, rhs) ==
  /\ Idle
  /\ Vacant(n)
  /\ rhs \in made
  /\ own' = OP_Share(own, n, rhs, n \in Strong)
  /\ made' = made \cup {n}
  /\ UNCHANGED <<exists, held, stack, undefined>>

\* ~StrongPtr
Destroy(n) ==
  /\ Idle
  /\ n \in made
  /\ ~IsMember(n)
  /\ LetGo(own, n)
  /\ made' = made \ {n}
  /\ UNCHANGED held

\* n = rhs: a temporary made from rhs swaps with n and is destroyed.
Assign(n, rhs) ==
  LET t == TempFor(n) IN
  /\ Idle
  /\ {n, rhs} \subseteq made
  /\ Pointee(n) # Pointee(rhs)
  /\ LetGo(OP_Swap(OP_Share(own, t, rhs, n \in Strong), t, n), t)
  /\ UNCHANGED <<made, held>>

\* n = p: likewise, with a temporary made from the object.
AssignPointer(n, o) ==
  LET t == TempFor(n) IN
  /\ Idle
  /\ n \in made
  /\ o \in held \cup {NoObject}
  /\ Pointee(n) # o
  /\ LetGo(OP_Swap(OP_Create(own, t, o, n \in Strong), n, t), t)
  /\ held' = held \ {o}
  /\ UNCHANGED made

\* Swap is between pointers of the same type.
Swap(a, b) ==
  /\ Idle
  /\ {a, b} \subseteq made
  /\ a \in Strong <=> b \in Strong
  /\ own' = OP_Swap(own, a, b)
  /\ UNCHANGED <<made, exists, held, stack, undefined>>

\* OnReleaseAll, OnResetAll: they are told whether n or a copointer is strong.
MayReset(n) == (n \in Strong \/ OP_HasStrongPointer(own, n)) \in Resettable

\* ReleaseAll(n, p): the client takes the object.
ReleaseAll(n) ==
  /\ Idle
  /\ n \in made
  /\ MayReset(n)
  /\ own' = OP_SetPointer(own, n, NoObject)
  /\ held' = held \cup ({Pointee(n)} \ {NoObject})
  /\ UNCHANGED <<made, exists, stack, undefined>>

\* ResetAll(n, p): the object is deleted, and only then are the copointers led to o.
ResetAll(n, o) ==
  /\ Idle
  /\ n \in made
  /\ ~IsMember(n)
  /\ o \in held \cup {NoObject}
  /\ Pointee(n) # o
  /\ MayReset(n)
  /\ held' = held \ {o}
  /\ IF Pointee(n) = NoObject
     THEN own' = OP_SetPointer(own, n, o) /\ UNCHANGED <<exists, stack, undefined>>
     ELSE Delete(Pointee(n), [node |-> n, to |-> o]) /\ UNCHANGED own
  /\ UNCHANGED made

Next ==
  \/ \E o \in Object : NewObject(o)
  \/ \E n \in Node, o \in Object \cup {NoObject} :
       Construct(n, o) \/ AssignPointer(n, o) \/ ResetAll(n, o)
  \/ \E n, m \in Node : Copy(n, m) \/ Assign(n, m) \/ Swap(n, m)
  \/ \E n \in Node : Destroy(n) \/ ReleaseAll(n)
  \/ DestroyMember
  \/ Return

Spec == Init /\ [][Next]_vars
-----------------------------------------------------------------------------
TypeOK ==
  /\ own \in OP_Type
  /\ made \in SUBSET (Node \ Temp)
  /\ exists \in SUBSET Object
  /\ held \in SUBSET exists
  /\ undefined \in BOOLEAN
  /\ \A i \in DOMAIN stack :
       /\ stack[i].object \in Object
       /\ stack[i].next \in [node : made, to : Object \cup {NoObject}] \cup {NoReset}

\* The objects that a ResetAll is deleting.
Resetting == {stack[i].object : i \in {j \in DOMAIN stack : stack[j].next # NoReset}}

(* A pointer leads to an object that exists, or to nothing, even while the  *)
(* destructor of its former object is at work; only ResetAll deletes an     *)
(* object to which pointers still lead.                                     *)
(* (~StrongPtr, StrongPtr.h:994-1008: zap first, then delete.)              *)
NoDangling == ~undefined => \A n \in made : Pointee(n) \in exists \cup Resetting \cup {NoObject}

(* No object is deleted twice, however destructors nest, unless a ResetAll  *)
(* is under way.                                                            *)
DeletedOnceOutsideReset == undefined => Resetting # {}

(* No object is deleted twice: what the comment in ~StrongPtr               *)
(* (StrongPtr.h:997-1001) says that zapping before deleting prevents.       *)
DeletedOnce == ~undefined

-----------------------------------------------------------------------------
(* The data of the policy *)

\* The pointers that share an object with n.
Copointer(n) ==
  IF HasCounts(own) THEN {m \in made : own.m_counts[m] = own.m_counts[n]}
  ELSE Cycle(own.links.next, n)

\* A record of counts is allocated exactly as long as pointers share it, and its
\* two counts are the strong and the weak pointers that do.
CountsExact ==
  /\ own.used = {own.m_counts[n] : n \in made}
  /\ \A n \in made :
       /\ own.info[own.m_counts[n]].strong = Cardinality(Copointer(n) \cap Strong)
       /\ own.info[own.m_counts[n]].weak = Cardinality(Copointer(n) \ Strong)

\* m_prev and m_next are inverse on the pointers that are constructed and lead to
\* no other node, and the nodes of a cycle all have one pointer.
CyclesSound ==
  \A n \in made :
    /\ own.links.next[n] \in made
    /\ own.links.prev[n] \in made
    /\ own.links.prev[own.links.next[n]] = n
    /\ own.links.next[own.links.prev[n]] = n
    /\ own.pointer[own.links.next[n]] = own.pointer[n]

(* Whatever destructors are at work, the data of the policy are those of    *)
(* the pointers that are constructed: counts of exactly those that share    *)
(* them, freed with the last; cycles of exactly those that lead to the same.*)
(* (The assertions of ~TwoRefCountInfo, StrongPtr.h:329-335, which no       *)
(* operator delete runs, and TwoRefLinks::AllNodesHaveSamePointer,          *)
(* HasPrevNode and HasNextNode, as StrongPtr.cpp:135-143 asserts them.)     *)
PolicyDataExact == TypeOK /\ IF HasCounts(own) THEN CountsExact ELSE CyclesSound

(* StrongPtrs compare equal exactly if they share or both lead to nothing,  *)
(* a weak one that saw its object die with the others; and each of the      *)
(* twelve comparison operators, whichever side a plain pointer is on,       *)
(* answers as one order does, in which copointers are not apart.            *)
(* (StrongPtr.h:1141-1285, 1405-1708.)                                      *)
ComparisonsTellWhoShares ==
  /\ \A a, b \in made :
       LET both == Compare(Pointee(a), Pointee(b)) IN
       /\ both.eq <=> Copointer(a) = Copointer(b) \/ (IsNull(Pointee(a)) /\ IsNull(Pointee(b)))
       /\ both.ne = ~both.eq
       /\ both.le = (both.lt \/ both.eq)
       /\ both.ge = (both.gt \/ both.eq)
       /\ both.gt = Less(Pointee(b), Pointee(a))
       /\ ~(both.lt /\ both.gt)
       /\ \A c \in Copointer(a) : Less(Pointee(c), Pointee(b)) = both.lt
  /\ \A a \in made, o \in Object \cup {NoObject} :
       LET s == Pointee(a)
           right == Compare(s, o)    \* as if o were in a StrongPtr
           left == Compare(o, s)
       IN /\ CompareEqual(s, o) = [eq |-> right.eq, ne |-> left.ne]
          /\ CompareLess(s, o) = [left |-> right.lt, right |-> left.lt]
          /\ CompareGreater(s, o) = [left |-> right.gt, right |-> left.gt]
          /\ CompareLessEqual(s, o) = [left |-> right.le, right |-> left.le]
          /\ CompareGreaterEqual(s, o) = [left |-> right.ge, right |-> left.ge]

(* The pointers that share a record of counts, or a cycle, are the groups   *)
(* of Copointers.tla.                                                       *)
Groups == {Copointer(n) : n \in made}

\* The object that each pointer leads to; one whose destructor is at work is none.
Leads ==
  [n \in Node |-> IF n \in made /\ Pointee(n) \in exists THEN Pointee(n) ELSE NoObject]

Abstract == INSTANCE Copointers WITH groups <- Groups, pointee <- Leads

ImplementsCopointers == Abstract!Spec
=============================================================================
