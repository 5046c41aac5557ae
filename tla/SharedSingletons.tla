-------------------------- MODULE SharedSingletons --------------------------
(***************************************************************************)
(* The small-object allocator and the singletons of a program with         *)
(* threads: SingletonHolder::Instance with its unlocked first look, the    *)
(* operators new and delete of SmallObjectBase and AllocatorSingleton's    *)
(* ClearExtraMemory and IsCorrupted, each of which locks and then asks for *)
(* the allocator, and LockingPtr on a singleton's object.  A host is a     *)
(* singleton whose class derives from SmallObject, so that constructing it *)
(* under one mutex takes the allocator's, and perhaps the allocator's      *)
(* MakeInstance's as well.  A thread is a stack of calls; between two      *)
(* steps of one thread any other may run.                                  *)
(*                                                                         *)
(* Loki::Mutex and SingleThreaded lock nothing, so these threads need a    *)
(* ThreadingModel of the program's own.  Two are modelled: "class" derives *)
(* from ClassLevelLockable<Host, std::mutex>; "passed" locks the           *)
(* MutexPolicy it is given with Lock and Unlock, as LockingPtr does.  Both *)
(* need a VolatileType, taken to be std::atomic<Host>.                     *)
(***************************************************************************)
EXTENDS Integers, SequencesExt

CONSTANTS Thread, Host, Allocator, NoThread,
          MaxCalls    \* bound: calls a thread's own code makes

\* The allocator is none of the hosts, and "no thread" is no thread.
ASSUME SharedAssumption ==
  Allocator \notin Host /\ NoThread \notin Thread /\ MaxCalls \in Nat

Holder == Host \cup {Allocator}

VARIABLES
  stack,      \* the calls each thread is in, the innermost last
  owner,      \* the thread that holds each mutex
  there,      \* pInstance_ is not null
  destroyed,  \* destroyed_
  alive,      \* objects a holder has created and not destroyed
  turns,      \* turns to be destroyed that lifetime policies have queued
  blocks,     \* blocks the clients have from operator new
  calls,      \* calls each thread has made
  terminated, \* an exception has left a function that may not throw
  model,      \* the program's ThreadingModel, "class" or "passed"
  handler     \* ClearExtraMemory is installed as the new_handler

vars == <<stack, owner, there, destroyed, alive, turns, blocks, calls, terminated, model, handler>>
fixed == <<model, handler>>
program == <<terminated, fixed>>
data == <<there, destroyed, alive, turns>>

-----------------------------------------------------------------------------
(* Mutexes *)

\* "clear" stands for IsCorrupted too, which locks and calls alike.
Served == {"new", "delete", "clear"}
NoMutex == <<"none", Allocator>>
Mutex == ({"allocator"} \X {Allocator}) \cup ({"make", "object"} \X Holder)

Frame == [fn: Served \cup {"instance", "use"}, on: Holder, guard: BOOLEAN,
          at: {"enter", "lock", "recheck", "construct", "schedule",
               "destroy", "destroyed", "inside", "leave", "unwind"}]

\* Mutant: clients that derive from SmallObject get a mutex per class.
MutexOf_PerClass(f) ==
  CASE f.fn \in {"new", "delete"} -> <<"object", Allocator>>
    [] f.fn = "clear" -> IF model = "class" THEN <<"allocator", Allocator>> ELSE NoMutex
    [] f.fn = "instance" -> IF f.on = Allocator /\ model = "passed" THEN NoMutex ELSE <<"make", f.on>>
    [] f.fn = "use" -> <<"object", f.on>>

\* The mutex that the Lock object of a call holds.  AllocatorSingleton drops
\* MutexPolicy from the typedef of its own type and of its holder, so that
\* ClearExtraMemory, IsCorrupted and MakeInstance lock the default mutex.
MutexOf(f) ==
  CASE f.fn \in {"new", "delete"} -> <<"allocator", Allocator>>
    [] f.fn = "clear" -> IF model = "class" THEN <<"allocator", Allocator>> ELSE NoMutex
    [] f.fn = "instance" -> IF f.on = Allocator /\ model = "passed" THEN NoMutex ELSE <<"make", f.on>>
    [] f.fn = "use" -> <<"object", f.on>>

Top(t) == Last(stack[t])
At(t, fns, at) == stack[t] # <<>> /\ Top(t).fn \in fns /\ Top(t).at = at

Locked(t) ==
  LET m == MutexOf(Top(t)) IN
  /\ m # NoMutex => owner[m] = NoThread
  /\ owner' = IF m = NoMutex THEN owner ELSE [owner EXCEPT ![m] = t]

Unlocked(t) ==
  LET m == MutexOf(Top(t)) IN
  owner' = IF Top(t).guard /\ m # NoMutex THEN [owner EXCEPT ![m] = NoThread] ELSE owner

-----------------------------------------------------------------------------
(* The stack of a thread *)

Enter(fn, h) == [fn |-> fn, on |-> h, at |-> "enter", guard |-> FALSE]

\* The innermost call goes on at "at", having its guard or not.
Goto(t, at, guard) ==
  stack' = [stack EXCEPT ![t] = Append(Front(@), [Last(@) EXCEPT !.at = at, !.guard = guard])]

\* So it does once the call "f" that it makes has returned.
Invoke(t, at, guard, f) ==
  stack' = [stack EXCEPT ![t] = Front(@) \o <<[Last(@) EXCEPT !.at = at, !.guard = guard], f>>]

Return(t) == stack' = [stack EXCEPT ![t] = Front(@)]

\* An exception leaves the innermost call.  The next call out unwinds too; one
\* that was queueing a tracker may have to delete it first; operator delete is
\* declared throw().
Throw(t) ==
  LET n == Len(stack[t]) - 1 IN
  \/ n = 0 /\ Return(t) /\ UNCHANGED terminated
  \/ /\ n > 0
     /\ \E at \in {"unwind"} \cup (IF stack[t][n].at = "schedule" THEN {"destroy"} ELSE {}) :
          stack' = [stack EXCEPT ![t] = [Front(@) EXCEPT ![n].at = at]]
     /\ terminated' = (stack[t][n].fn = "delete")

Init ==
  /\ stack = [t \in Thread |-> <<>>]
  /\ owner = [m \in Mutex |-> NoThread]
  /\ there = [h \in Holder |-> FALSE]
  /\ destroyed = [h \in Holder |-> FALSE]
  /\ alive = [h \in Holder |-> 0]
  /\ turns = [h \in Holder |-> 0]
  /\ blocks = 0
  /\ calls = [t \in Thread |-> 0]
  /\ terminated = FALSE
  /\ model \in {"class", "passed"}
  /\ handler \in BOOLEAN

-----------------------------------------------------------------------------
(* The threads' own code *)

\* A thread calls from outside, or while a LockingPtr of its is in scope.
\* Only what operator new gave is deleted.
Call(t) ==
  /\ ~terminated
  /\ stack[t] = <<>> \/ At(t, {"use"}, "inside")
  /\ calls[t] < MaxCalls
  /\ \E f \in [fn: Served, on: {Allocator}] \cup [fn: {"instance", "use"}, on: Host] :
       /\ stack[t] # <<>> => f.fn \in {"new", "delete"}
       /\ f.fn = "delete" => blocks > 0
       /\ blocks' = IF f.fn = "delete" THEN blocks - 1 ELSE blocks
       /\ stack' = [stack EXCEPT ![t] = Append(@, Enter(f.fn, f.on))]
  /\ calls' = [calls EXCEPT ![t] = @ + 1]
  /\ UNCHANGED <<owner, data, program>>

-----------------------------------------------------------------------------
(* SmallObjectBase, AllocatorSingleton *)

\* Mutant: Instance() first, and no lock.
Serve_Unlocked(t) ==
  /\ At(t, Served, "enter")
  /\ Invoke(t, "inside", FALSE, Enter("instance", Allocator))
  /\ UNCHANGED <<owner, data, blocks, calls, program>>

\* The Lock object; MyAllocatorSingleton::Instance(); and once that returns
\* Allocate, Deallocate, TrimExcessMemory or IsCorrupt.
Serve(t) ==
  /\ At(t, Served, "enter")
  /\ Locked(t)
  /\ Invoke(t, "inside", TRUE, Enter("instance", Allocator))
  /\ UNCHANGED <<data, blocks, calls, program>>

\* The library asks ::operator new for memory where a vector of the
\* allocator's grows or is copied, for the allocator's pool, and for trackers.
Requests(t) ==
  \/ At(t, {"new", "clear"}, "inside") \/ At(t, {"instance"}, "schedule")
  \/ At(t, {"instance"}, "construct") /\ Top(t).on = Allocator

\* Having no memory it calls the new_handler, which the allocator's own
\* documentation says may be ClearExtraMemory.
CallHandler(t) ==
  /\ handler /\ Requests(t)
  /\ calls[t] < MaxCalls
  /\ Invoke(t, Top(t).at, TRUE, Enter("clear", Allocator))
  /\ calls' = [calls EXCEPT ![t] = @ + 1]
  /\ UNCHANGED <<owner, data, blocks, program>>

\* Whether a client called operator new, or new in CreateUsingNew::Create.
ByClient(t) == \A i \in 1..Len(stack[t]) : stack[t][i].fn # "instance"

Served_Returns(t) ==
  /\ At(t, Served, "inside")
  /\ Unlocked(t)
  /\ Return(t)
  /\ \/ blocks' = IF Top(t).fn = "new" /\ ByClient(t) THEN blocks + 1 ELSE blocks
     \/ Top(t).fn = "new" /\ ByClient(t) /\ blocks' = blocks   \* nothrow, and no memory
  /\ UNCHANGED <<data, calls, program>>

\* std::bad_alloc leaves operator new, or ClearExtraMemory from the copy that
\* trimming makes.
ServedThrows(t) ==
  /\ At(t, {"new", "clear"}, "inside")
  /\ Goto(t, "unwind", TRUE)
  /\ UNCHANGED <<owner, data, blocks, calls, program>>

-----------------------------------------------------------------------------
(* SingletonHolder *)

\* if (!pInstance_), outside the lock.
Look(t) ==
  /\ At(t, {"instance"}, "enter")
  /\ IF there[Top(t).on] THEN Return(t) ELSE Goto(t, "lock", FALSE)
  /\ UNCHANGED <<owner, data, blocks, calls, program>>

LockMake(t) ==
  /\ At(t, {"instance"}, "lock")
  /\ Locked(t)
  /\ Goto(t, "recheck", TRUE)
  /\ UNCHANGED <<data, blocks, calls, program>>

\* Mutant: without the second look.
LookAgain_Blindly(t) ==
  LET h == Top(t).on IN
  /\ At(t, {"instance"}, "recheck")
  /\ IF h \in Host THEN Invoke(t, "construct", TRUE, Enter("new", Allocator))
                   ELSE Goto(t, "construct", TRUE)
  /\ UNCHANGED <<owner, data, blocks, calls, program>>

\* if (!pInstance_) again; OnDeadReference throws; else CreationPolicy::Create,
\* CreateStatic for the allocator and CreateUsingNew for a host.
LookAgain(t) ==
  LET h == Top(t).on IN
  /\ At(t, {"instance"}, "recheck")
  /\ \/ there[h] /\ Goto(t, "leave", TRUE) /\ UNCHANGED destroyed
     \/ /\ ~there[h] /\ destroyed[h]
        /\ destroyed' = [destroyed EXCEPT ![h] = FALSE]
        /\ Goto(t, "unwind", TRUE)
     \/ /\ ~there[h] /\ ~destroyed[h]
        /\ IF h \in Host THEN Invoke(t, "construct", TRUE, Enter("new", Allocator))
                         ELSE Goto(t, "construct", TRUE)
        /\ UNCHANGED destroyed
  /\ UNCHANGED <<owner, there, alive, turns, blocks, calls, program>>

Constructed(t) ==
  LET h == Top(t).on IN
  /\ At(t, {"instance"}, "construct")
  /\ there' = [there EXCEPT ![h] = TRUE]
  /\ alive' = [alive EXCEPT ![h] = @ + 1]
  /\ Goto(t, "schedule", TRUE)
  /\ UNCHANGED <<owner, destroyed, turns, blocks, calls, program>>

\* Gives the memory of a host back with operator delete, then unwinds.
Discard(t) ==
  IF Top(t).on \in Host THEN Invoke(t, "unwind", TRUE, Enter("delete", Allocator))
                        ELSE Goto(t, "unwind", TRUE)

ConstructorThrows(t) ==
  /\ At(t, {"instance"}, "construct")
  /\ Discard(t)
  /\ UNCHANGED <<owner, data, blocks, calls, program>>

\* LifetimePolicy::ScheduleDestruction, of a policy that calls SetLongevity.
Scheduled(t) ==
  /\ At(t, {"instance"}, "schedule")
  /\ turns' = [turns EXCEPT ![Top(t).on] = @ + 1]
  /\ Goto(t, "leave", TRUE)
  /\ UNCHANGED <<owner, there, destroyed, alive, blocks, calls, program>>

\* No memory for a tracker: the object stays, and stays without a turn.
NoTracker(t) ==
  /\ At(t, {"instance"}, "schedule")
  /\ Goto(t, "unwind", TRUE)
  /\ UNCHANGED <<owner, data, blocks, calls, program>>

\* No memory to queue the tracker: its unique_ptr deletes the tracker, whose
\* destructor calls DestroySingleton.
NotQueued(t) ==
  /\ At(t, {"instance"}, "schedule")
  /\ Goto(t, "destroy", TRUE)
  /\ UNCHANGED <<owner, data, blocks, calls, program>>

\* CreationPolicy::Destroy: the destructor, then for a host operator delete.
Destroy(t) ==
  LET h == Top(t).on IN
  /\ At(t, {"instance"}, "destroy")
  /\ alive' = [alive EXCEPT ![h] = @ - 1]
  /\ IF h \in Host THEN Invoke(t, "destroyed", TRUE, Enter("delete", Allocator))
                   ELSE Goto(t, "destroyed", TRUE)
  /\ UNCHANGED <<owner, there, destroyed, turns, blocks, calls, program>>

\* The rest of DestroySingleton; the exception goes on.
Destroyed(t) ==
  LET h == Top(t).on IN
  /\ At(t, {"instance"}, "destroyed")
  /\ there' = [there EXCEPT ![h] = FALSE]
  /\ destroyed' = [destroyed EXCEPT ![h] = TRUE]
  /\ Goto(t, "unwind", TRUE)
  /\ UNCHANGED <<owner, alive, turns, blocks, calls, program>>

-----------------------------------------------------------------------------
(* LockingPtr, and guards going out of scope *)

Share(t) ==
  /\ At(t, {"use"}, "enter")
  /\ Invoke(t, "lock", FALSE, Enter("instance", Top(t).on))
  /\ UNCHANGED <<owner, data, blocks, calls, program>>

LockObject(t) ==
  /\ At(t, {"use"}, "lock")
  /\ Locked(t)
  /\ Goto(t, "inside", TRUE)
  /\ UNCHANGED <<data, blocks, calls, program>>

Unlock(t) ==
  /\ At(t, {"instance"}, "leave") \/ At(t, {"use"}, "inside")
  /\ Unlocked(t)
  /\ Return(t)
  /\ UNCHANGED <<data, blocks, calls, program>>

\* Mutant: Lock() and Unlock() instead of a Lock object.
Unwind_KeepsLock(t) ==
  /\ stack[t] # <<>> /\ Top(t).at = "unwind"
  /\ Throw(t)
  /\ UNCHANGED <<owner, data, blocks, calls, fixed>>

Unwind(t) ==
  /\ stack[t] # <<>> /\ Top(t).at = "unwind"
  /\ Unlocked(t)
  /\ Throw(t)
  /\ UNCHANGED <<data, blocks, calls, fixed>>

-----------------------------------------------------------------------------
Step(t) ==
  \/ Serve(t) \/ CallHandler(t) \/ Served_Returns(t) \/ ServedThrows(t)
  \/ Look(t) \/ LockMake(t) \/ LookAgain(t) \/ Constructed(t) \/ ConstructorThrows(t)
  \/ Scheduled(t) \/ NoTracker(t) \/ NotQueued(t) \/ Destroy(t) \/ Destroyed(t)
  \/ Share(t) \/ LockObject(t) \/ Unlock(t) \/ Unwind(t)

\* A thread goes on with its calls, unless the program was terminated.
Proceed(t) == ~terminated /\ Step(t)

Next == \E t \in Thread : Call(t) \/ Proceed(t)

Spec == Init /\ [][Next]_vars

\* The scheduler runs every thread that can go on.  A mutex that is freed may
\* be taken by another thread again, but each thread makes MaxCalls calls.
FairSpec == Spec /\ \A t \in Thread : WF_vars(Proceed(t))

-----------------------------------------------------------------------------
(* Properties *)

\* Every state has its type: stacks of calls, mutexes that a thread or nobody
\* holds (the data of SingletonHolder and the locals of the operators).
TypeOK ==
  /\ stack \in [Thread -> Seq(Frame)]
  /\ owner \in [Mutex -> Thread \cup {NoThread}]
  /\ there \in [Holder -> BOOLEAN] /\ destroyed \in [Holder -> BOOLEAN]
  /\ alive \in [Holder -> Int] /\ turns \in [Holder -> Nat]
  /\ blocks \in Nat /\ calls \in [Thread -> 0..MaxCalls] /\ terminated \in BOOLEAN
  /\ model \in {"class", "passed"} /\ handler \in BOOLEAN

\* The calls that are at "at", each named by thread and depth.
Sections(fns, at) ==
  {c \in UNION {{t} \X (1..Len(stack[t])) : t \in Thread} :
     LET s == stack[c[1]] IN
     /\ s[c[2]].fn \in fns /\ s[c[2]].at = at
     /\ c[2] < Len(s) => s[c[2] + 1].fn # "instance"}

\* Threads that race through Instance's unlocked look make one object and
\* queue at most one turn for it, although constructors and schedules fail
\* and an object destroyed by a failed schedule may be made anew
\* (SingletonHolder::MakeInstance).
OneInstance ==
  /\ TypeOK
  /\ \A h \in Holder :
       h \in Host \/ model = "class" => alive[h] \in 0..1 /\ turns[h] \in 0..alive[h]

\* One call at a time works on the allocator.  ClearExtraMemory and
\* IsCorrupted are outside where the mutex was passed: between operator new
\* and delete only (SmallObjectBase, AllocatorSingleton).
AllocatorOneAtATime ==
  LET fns == IF model = "class" THEN Served ELSE {"new", "delete"} IN
  \A c, d \in Sections(fns, "inside") : c = d

\* While a thread queues the allocator's turn no other queues any, so that
\* the longest lived of all is queued without a race on the one list of
\* trackers that all holders share, each under a mutex of its own
\* (SetLongevity).
TrackersApart ==
  model = "class" =>
    \A c, d \in Sections({"instance"}, "schedule") :
      stack[c[1]][c[2]].on = Allocator => c = d

\* Every thread returns from all its calls, past constructors that throw with
\* two mutexes held, unless the program ends because operator delete throws,
\* or some thread's new_handler waits for the mutex of the operator new that
\* called it.
WaitsForItself(t) ==
  /\ At(t, {"clear"}, "enter") /\ Len(stack[t]) > 1
  /\ MutexOf(Top(t)) \in Mutex /\ owner[MutexOf(Top(t))] = t

CallsReturn ==
  \A t \in Thread : []<>(stack[t] = <<>> \/ terminated \/ \E u \in Thread : WaitsForItself(u))
=============================================================================
