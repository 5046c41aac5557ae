--------------------------- MODULE OrderedStatics ---------------------------
(***************************************************************************)
(* OrderedStaticManagerClass, src/include/OrderedStatic.cpp and            *)
(* src/include/loki/OrderedStatic.h.  The constructors of OrderedStatics   *)
(* run before main, in the order the linker chose, and register them;      *)
(* createObjects, called by main, creates the objects from the greatest    *)
(* longevity down with an unsigned loop variable; SetLongevity queues each *)
(* to be destroyed at exit.  A creator may construct an OrderedStatic that *)
(* is local to a function, which registers it while the loop runs.         *)
(***************************************************************************)
EXTENDS Naturals, SequencesExt

CONSTANTS Static, NoStatic,
          MaxLongevity,   \* the largest unsigned int
          Longevities,    \* the choices of a longevity for each static,
          Locals,         \* and of the local one its creator constructs, if any
          MaxCreations    \* bound: objects a static creates

ASSUME OrderedStaticsAssumption ==
  /\ MaxLongevity \in Nat
  /\ NoStatic \notin Static
  /\ Longevities \subseteq [Static -> 0..MaxLongevity]
  /\ Locals \subseteq [Static -> Static \cup {NoStatic}]

VARIABLES
  longevity, local,  \* the choices; they never change
  objects,           \* staticObjects_
  max, min,          \* max_longevity_, min_longevity_
  loop,              \* createObjects' longevity and i
  created,           \* how many objects each has created
  alive,             \* and how many of them are there
  trackers,          \* pTrackerArray
  phase

choices == <<longevity, local>>
manager == <<objects, max, min>>
queue == <<created, alive, trackers>>
staticVars == <<choices, manager, loop, queue, phase>>

Init ==
  /\ longevity \in Longevities
  /\ local \in Locals
  /\ objects = <<>>
  /\ max = 0 /\ min = MaxLongevity
  /\ loop = [longevity |-> 0, i |-> 0]
  /\ created = [s \in Static |-> 0]
  /\ alive = [s \in Static |-> 0]
  /\ trackers = <<>>
  /\ phase = "load"

\* Constructed by another's creator, not before main.
IsLocal(s) == \E t \in Static : local[t] = s

RegisterObject(s) ==
  /\ objects' = Append(objects, s)
  /\ max' = IF longevity[s] > max THEN longevity[s] ELSE max
  /\ min' = IF longevity[s] < min THEN longevity[s] ELSE min

Load(s) ==
  /\ phase = "load"
  /\ ~IsLocal(s) /\ ~Contains(objects, s)
  /\ RegisterObject(s)
  /\ UNCHANGED <<choices, loop, queue, phase>>

Main ==
  /\ phase = "load"
  /\ \A s \in Static : IsLocal(s) \/ Contains(objects, s)
  /\ phase' = "create"
  /\ loop' = [longevity |-> max, i |-> 0]
  /\ UNCHANGED <<choices, manager, queue>>

-----------------------------------------------------------------------------
(* createObjects *)

\* Mutant: the loop leaves out the smallest longevity.
Looping_Above == phase = "create" /\ loop.longevity > min

Looping == phase = "create" /\ loop.longevity >= min

Current == objects[loop.i + 1]

\* SetLongevity: after those that live as long or longer.
Inserted(s) ==
  LET pos == CHOOSE i \in 0..Len(trackers) :
               /\ \A j \in 1..i : longevity[trackers[j]] >= longevity[s]
               /\ \A j \in (i + 1)..Len(trackers) : longevity[trackers[j]] < longevity[s]
  IN  InsertAt(trackers, pos + 1, s)

Create(s) ==
  /\ Looping /\ loop.i < Len(objects)
  /\ Current = s /\ longevity[s] = loop.longevity
  /\ created[s] < MaxCreations
  /\ created' = [created EXCEPT ![s] = @ + 1]
  /\ alive' = [alive EXCEPT ![s] = @ + 1]
  /\ trackers' = Inserted(s)
  /\ IF local[s] # NoStatic /\ ~Contains(objects, local[s])
     THEN RegisterObject(local[s]) ELSE UNCHANGED manager
  /\ loop' = [loop EXCEPT !.i = @ + 1]
  /\ UNCHANGED <<choices, phase>>

Pass ==
  /\ Looping /\ loop.i < Len(objects)
  /\ longevity[Current] # loop.longevity
  /\ loop' = [loop EXCEPT !.i = @ + 1]
  /\ UNCHANGED <<choices, manager, queue, phase>>

\* longevity-- of an unsigned.
Decrement == (loop.longevity + MaxLongevity) % (MaxLongevity + 1)

NextLongevity ==
  /\ Looping /\ loop.i = Len(objects)
  /\ loop' = [longevity |-> Decrement, i |-> 0]
  /\ UNCHANGED <<choices, manager, queue, phase>>

EndCreation ==
  /\ phase = "create" /\ ~Looping
  /\ phase' = "main"
  /\ loop' = [longevity |-> 0, i |-> 0]
  /\ UNCHANGED <<choices, manager, queue>>

-----------------------------------------------------------------------------
(* exit *)

Exit ==
  /\ phase = "main"
  /\ phase' = "exit"
  /\ UNCHANGED <<choices, manager, loop, queue>>

\* Mutant: the front, not the back of the queue.
AtExitFn_Front(s) ==
  /\ phase = "exit" /\ trackers # <<>>
  /\ s = Head(trackers)
  /\ trackers' = Tail(trackers)
  /\ alive' = [alive EXCEPT ![s] = @ - 1]
  /\ UNCHANGED <<choices, manager, loop, created, phase>>

AtExitFn(s) ==
  /\ phase = "exit" /\ trackers # <<>>
  /\ s = Last(trackers)
  /\ trackers' = Front(trackers)
  /\ alive' = [alive EXCEPT ![s] = @ - 1]
  /\ UNCHANGED <<choices, manager, loop, created, phase>>

-----------------------------------------------------------------------------
(* Properties *)

\* Those that a static may use in its constructor and its destructor.
Needs(s) == {n \in Static : ~IsLocal(n) /\ longevity[n] > longevity[s]}

\* Whatever the order of registration, an object is created and destroyed
\* only while all those there are to outlive it are there, those that
\* createObjects found registered (OrderedStaticManagerClass::createObjects,
\* SetLongevity and AtExitFn).
OutlivedByNeeds ==
  [][\A s \in Static : alive'[s] # alive[s] => \A n \in Needs(s) : alive[n] > 0]_staticVars

\* createObjects ends, having created exactly one object of each static that
\* was registered before main, and of those registered while it ran that are
\* not to live longer than their creator; unless a longevity is 0, for which
\* "longevity >= min_longevity_" always holds (createObjects).
StaticsCreated ==
  phase = "load" /\ (\A s \in Static : longevity[s] > 0) ~>
    /\ phase = "main"
    /\ \A s \in Static :
         created[s] = IF \E t \in Static : local[t] = s /\ longevity[s] > longevity[t] THEN 0 ELSE 1
=============================================================================
