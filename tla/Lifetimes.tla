------------------------------ MODULE Lifetimes ------------------------------
(***************************************************************************)
(* SingletonHolder and its lifetime policies, src/include/loki/Singleton.h *)
(* and src/include/Singleton.cpp, in one thread.  A singleton is made when *)
(* it is first asked for and destroyed by functions registered with        *)
(* atexit.  Constructors and destructors are client code that may ask for  *)
(* other singletons, or delete them, so that calls nest; exit may also     *)
(* register more functions, which run next.                                *)
(*                                                                         *)
(* Clients do not ask for a singleton within its own constructor, catch    *)
(* the exceptions that Instance throws, and call exit from main only.      *)
(***************************************************************************)
EXTENDS Naturals, Sequences, FiniteSets

CONSTANTS
  Default, Phoenix, Deletable,  \* the singletons of each lifetime policy:
  Longevous,                    \* SingletonWithLongevity, SingletonFixedLongevity
  NoDestroy,
  Master,                       \* FollowIntoDeath::With<DefaultLifetime>
  Follower,                     \* FollowIntoDeath::AfterMaster
  Longevity,                    \* how long each of Longevous is to live
  MasterOf,                     \* whom each of Follower follows
  MaxMade,                      \* bounds: how many constructors run in all,
  MaxCalls                      \* and how deep calls nest

Singleton == Default \cup Phoenix \cup Deletable \cup Longevous \cup NoDestroy
             \cup Master \cup Follower

ASSUME LifetimesAssumption ==
  /\ Longevity \in [Longevous -> Nat]
  /\ MasterOf \in [Follower -> Master]
  /\ MaxMade \in Nat /\ MaxCalls \in Nat

ASSUME OnePolicyAssumption ==
  LET policy == <<Default, Phoenix, Deletable, Longevous, NoDestroy, Master, Follower>>
  IN  \A i, j \in DOMAIN policy : i # j => policy[i] \cap policy[j] = {}

VARIABLES
  atexitFixed,    \* whether the build defines ATEXIT_FIXED; it never changes
  pInstance,      \* the singletons whose pInstance_ is not null
  destroyed,      \* those whose destroyed_ is set
  destroyedOnce,  \* PhoenixSingleton::destroyedOnce_
  isDead,         \* DeletableSingleton::isDead
  firstPass,      \* DeletableSingleton's firstPass
  needCallback,   \* DeletableSingleton::needCallback
  trackers,       \* pTrackerArray, or <<>> when it is null
  list,           \* of each master, whether its vector followers_ was made
  followers,      \* and what it holds
  phase,          \* whether main has called exit
  exits,          \* the functions registered with atexit, the next one last
  calls,          \* what runs, innermost last
  broken,         \* whether a deleted vector has been used: anything may happen
  made,           \* how many constructors have run
  births,         \* how many have returned, of the longevous,
  bornAt,         \* and how many had before each
  uses            \* which others each obtained in its constructor, of those
                  \* that should then outlive it

holder == <<pInstance, destroyed, births, bornAt, uses>>
phoenix == <<destroyedOnce>>
deletable == <<isDead, firstPass, needCallback>>
death == <<list, followers>>
vars == <<atexitFixed, holder, phoenix, deletable, trackers, death, phase,
          exits, calls, broken, made>>

Init ==
  /\ atexitFixed \in BOOLEAN
  /\ pInstance = {}
  /\ destroyed = {}
  /\ destroyedOnce = {}
  /\ isDead = Deletable
  /\ firstPass = Deletable
  /\ needCallback = Deletable
  /\ trackers = <<>>
  /\ list = [m \in Master |-> "none"]
  /\ followers = [m \in Master |-> <<>>]
  /\ phase = "main"
  /\ exits = <<>>
  /\ calls = <<>>
  /\ broken = FALSE
  /\ made = 0
  /\ births = 0
  /\ bornAt = [s \in Longevous |-> 0]
  /\ uses = [s \in Singleton |-> {}]

-----------------------------------------------------------------------------
(* Calls and the C library's list of exit functions *)

Frame == [op : {"make", "destroy", "followers"}, of : Singleton, at : Nat]
Call(op, s) == [op |-> op, of |-> s, at |-> 0]
Without(seq) == SubSeq(seq, 1, Len(seq) - 1)
Innermost == calls[Len(calls)]
Runs(op, s) == calls # <<>> /\ Innermost.op = op /\ Innermost.of = s
Has(stack, op, s) == \E i \in DOMAIN stack : stack[i].op = op /\ stack[i].of = s
Within(op, s) == Has(calls, op, s)

\* Client code runs: main, a constructor or a destructor.
ClientRuns ==
  /\ ~broken
  /\ IF calls = <<>> THEN phase = "main" ELSE Innermost.op \in {"make", "destroy"}

DestroySingleton(s) == [call |-> "DestroySingleton", of |-> s]
DestroyFollowers(m) == [call |-> "DestroyFollowers", of |-> m]
AtexitCallback(s) == [call |-> "atexitCallback", of |-> s]
AtExitFn == [call |-> "AtExitFn"]

ExitFn == {DestroySingleton(s) : s \in Default \cup Phoenix \cup Master}
          \cup {AtexitCallback(s) : s \in Deletable}
          \cup {DestroyFollowers(m) : m \in Master} \cup {AtExitFn}

-----------------------------------------------------------------------------
(* ScheduleDestruction, which each policy does in its way *)

\* Where upper_bound finds the place for longevity l: the longest-lived come
\* first, the ones that live as long before, the shorter-lived after.
UpperBound(l) ==
  CHOOSE i \in 0..Len(trackers) :
    /\ \A j \in 1..i : Longevity[trackers[j]] >= l
    /\ \A j \in (i + 1)..Len(trackers) : Longevity[trackers[j]] < l

\* For the mutant below: where lower_bound would find it.
LowerBound(l) ==
  CHOOSE i \in 0..Len(trackers) :
    /\ \A j \in 1..i : Longevity[trackers[j]] > l
    /\ \A j \in (i + 1)..Len(trackers) : Longevity[trackers[j]] <= l

Inserted(s, i) ==
  SubSeq(trackers, 1, i) \o <<s>> \o SubSeq(trackers, i + 1, Len(trackers))

SetLongevity_LowerBound(s) ==  \* mutant: lower_bound instead of upper_bound
  /\ trackers' = Inserted(s, LowerBound(Longevity[s]))
  /\ exits' = Append(exits, AtExitFn)

SetLongevity_NoTurn(s) ==  \* mutant: atexit only for the first tracker
  /\ trackers' = Inserted(s, UpperBound(Longevity[s]))
  /\ exits' = IF trackers = <<>> THEN Append(exits, AtExitFn) ELSE exits

SetLongevity(s) ==
  /\ trackers' = Inserted(s, UpperBound(Longevity[s]))
  /\ exits' = Append(exits, AtExitFn)

ScheduleDefault(s) == exits' = Append(exits, DestroySingleton(s))

SchedulePhoenix(s) ==
  exits' = IF atexitFixed \/ s \notin destroyedOnce
           THEN Append(exits, DestroySingleton(s)) ELSE exits

\* deleter is always DestroySingleton of the same singleton.
ScheduleDeletable_FirstOnly(s) ==  \* mutant: needCallback is not looked at
  /\ isDead' = isDead \ {s}
  /\ firstPass' = firstPass \ {s}
  /\ needCallback' = needCallback \ {s}
  /\ exits' = IF s \in firstPass THEN Append(exits, AtexitCallback(s)) ELSE exits

ScheduleDeletable(s) ==
  /\ isDead' = isDead \ {s}
  /\ firstPass' = firstPass \ {s}
  /\ needCallback' = needCallback \ {s}
  /\ exits' = IF s \in firstPass \cup needCallback
              THEN Append(exits, AtexitCallback(s)) ELSE exits

\* AsMasterLifetime over DefaultLifetime: its followers' turn comes earlier.
ScheduleMaster_FollowersLater(m) ==  \* mutant: as the class comment says
  /\ list' = [list EXCEPT ![m] = IF @ = "none" THEN "there" ELSE @]
  /\ exits' = Append(Append(exits, DestroyFollowers(m)), DestroySingleton(m))

ScheduleMaster(m) ==
  /\ list' = [list EXCEPT ![m] = IF @ = "none" THEN "there" ELSE @]
  /\ exits' = Append(Append(exits, DestroySingleton(m)), DestroyFollowers(m))

\* AddFollower makes the vector only once, and so may push onto a deleted one.
\* While DestroyFollowers walks the vector, the iterator stays valid or not.
AddFollower(f) ==
  LET m == MasterOf[f] IN
  /\ list' = [list EXCEPT ![m] = IF @ = "none" THEN "there" ELSE @]
  /\ followers' = [followers EXCEPT ![m] = Append(@, f)]
  /\ IF list[m] = "deleted" THEN broken' = TRUE
     ELSE IF Within("followers", m) THEN broken' \in BOOLEAN
     ELSE UNCHANGED broken

ScheduleDestruction(s) ==
  \/ /\ s \in Default
     /\ ScheduleDefault(s)
     /\ UNCHANGED <<deletable, trackers, death, broken>>
  \/ /\ s \in Phoenix
     /\ SchedulePhoenix(s)
     /\ UNCHANGED <<deletable, trackers, death, broken>>
  \/ /\ s \in Deletable
     /\ ScheduleDeletable(s)
     /\ UNCHANGED <<trackers, death, broken>>
  \/ /\ s \in Longevous
     /\ SetLongevity(s)
     /\ UNCHANGED <<deletable, death, broken>>
  \/ /\ s \in NoDestroy
     /\ UNCHANGED <<exits, deletable, trackers, death, broken>>
  \/ /\ s \in Master
     /\ ScheduleMaster(s)
     /\ UNCHANGED <<deletable, trackers, followers, broken>>
  \/ /\ s \in Follower
     /\ AddFollower(s)
     /\ UNCHANGED <<exits, deletable, trackers>>

-----------------------------------------------------------------------------
(* SingletonHolder::Instance *)

\* Between default lifetimes the one used is registered first; between
\* longevities the user's must not be the greater.
Outlives(d, s) ==
  \/ s \in Default /\ d \in Default \cup Phoenix \cup NoDestroy
  \/ s \in Longevous /\ d \in Longevous /\ Longevity[d] >= Longevity[s]

\* The caller, if it is a constructor, keeps what it got, unless that was
\* already being destroyed.
Obtained(caller, s) ==
  IF /\ caller # <<>>
     /\ caller[Len(caller)].op = "make"
     /\ Outlives(s, caller[Len(caller)].of)
     /\ ~Within("destroy", s)
  THEN [uses EXCEPT ![caller[Len(caller)].of] = @ \cup {s}] ELSE uses

InstanceThere(s) ==
  /\ ClientRuns
  /\ s \in pInstance
  /\ uses' = Obtained(calls, s)
  /\ UNCHANGED <<atexitFixed, pInstance, destroyed, births, bornAt, phoenix,
                 deletable, trackers, death, phase, exits, calls, broken, made>>

\* OnDeadReference of the other policies lets the singleton be made again.
OnDeadReferenceThrows(s) == s \notin Phoenix \cup Deletable \cup NoDestroy

\* destroyed_ is reset before the policy throws: the next caller makes it again.
DeadReference(s) ==
  /\ ClientRuns
  /\ s \in destroyed \ pInstance
  /\ OnDeadReferenceThrows(s)
  /\ destroyed' = destroyed \ {s}
  /\ UNCHANGED <<atexitFixed, pInstance, births, bornAt, uses, phoenix, deletable,
                 trackers, death, phase, exits, calls, broken, made>>

\* MakeInstance, up to the constructor.
MakeInstance(s) ==
  /\ ClientRuns
  /\ s \notin pInstance
  /\ ~Within("make", s)
  /\ s \in destroyed => ~OnDeadReferenceThrows(s)
  /\ made < MaxMade
  /\ Len(calls) < MaxCalls
  /\ destroyed' = destroyed \ {s}
  /\ destroyedOnce' =
       IF s \in destroyed \cap Phoenix /\ ~atexitFixed
       THEN destroyedOnce \cup {s} ELSE destroyedOnce
  /\ uses' = [uses EXCEPT ![s] = {}]
  /\ calls' = Append(calls, Call("make", s))
  /\ made' = made + 1
  /\ UNCHANGED <<atexitFixed, pInstance, births, bornAt, deletable, trackers,
                 death, phase, exits, broken>>

\* MakeInstance, once the constructor has returned.
InstanceMade(s) ==
  /\ ~broken
  /\ Runs("make", s)
  /\ pInstance' = pInstance \cup {s}
  /\ ScheduleDestruction(s)
  /\ calls' = Without(calls)
  /\ IF s \in Longevous
     THEN /\ bornAt' = [bornAt EXCEPT ![s] = births]
          /\ births' = births + 1
     ELSE UNCHANGED <<births, bornAt>>
  /\ uses' = Obtained(Without(calls), s)
  /\ UNCHANGED <<atexitFixed, destroyed, phoenix, phase, made>>

ConstructorThrows(s) ==
  /\ ~broken
  /\ Runs("make", s)
  /\ calls' = Without(calls)
  /\ uses' = [uses EXCEPT ![s] = {}]
  /\ UNCHANGED <<atexitFixed, pInstance, destroyed, births, bornAt, phoenix,
                 deletable, trackers, death, phase, exits, broken, made>>

-----------------------------------------------------------------------------
(* Destruction *)

InstanceDestroyed_PointerStays(s) ==  \* mutant: pInstance_ is not reset
  /\ ~broken
  /\ Runs("destroy", s)
  /\ destroyed' = destroyed \cup {s}
  /\ calls' = Without(calls)
  /\ UNCHANGED <<atexitFixed, pInstance, births, bornAt, uses, phoenix, deletable,
                 trackers, death, phase, exits, broken, made>>

\* DestroySingleton, once the destructor has returned.
InstanceDestroyed(s) ==
  /\ ~broken
  /\ Runs("destroy", s)
  /\ pInstance' = pInstance \ {s}
  /\ destroyed' = destroyed \cup {s}
  /\ calls' = Without(calls)
  /\ UNCHANGED <<atexitFixed, births, bornAt, uses, phoenix, deletable, trackers,
                 death, phase, exits, broken, made>>

\* GracefulDelete, up to the destructor.
GracefulDelete_Unmarked(s) ==  \* mutant: isDead is not set
  /\ ClientRuns
  /\ s \in Deletable \ isDead
  /\ Len(calls) < MaxCalls
  /\ calls' = Append(calls, Call("destroy", s))
  /\ UNCHANGED <<atexitFixed, holder, phoenix, firstPass, needCallback, isDead,
                 trackers, death, phase, exits, broken, made>>

GracefulDelete(s) ==
  /\ ClientRuns
  /\ s \in Deletable \ isDead
  /\ Len(calls) < MaxCalls
  /\ isDead' = isDead \cup {s}
  /\ calls' = Append(calls, Call("destroy", s))
  /\ UNCHANGED <<atexitFixed, holder, phoenix, firstPass, needCallback,
                 trackers, death, phase, exits, broken, made>>

Exit ==
  /\ ClientRuns
  /\ calls = <<>>
  /\ phase' = "exit"
  /\ UNCHANGED <<atexitFixed, holder, phoenix, deletable, trackers, death,
                 exits, calls, broken, made>>

\* exit takes the function registered last off its list and calls it.
Exiting(f) ==
  /\ ~broken
  /\ phase = "exit"
  /\ calls = <<>>
  /\ exits # <<>>
  /\ f = exits[Len(exits)]
  /\ exits' = Without(exits)
  /\ UNCHANGED <<atexitFixed, holder, phoenix, firstPass, followers, phase, made>>

RunDestroySingleton(s) ==
  /\ Exiting(DestroySingleton(s))
  /\ calls' = <<Call("destroy", s)>>
  /\ UNCHANGED <<isDead, needCallback, trackers, list, broken>>

\* The tracker at the back is taken off the list before its object is deleted.
RunAtExitFn ==
  /\ Exiting(AtExitFn)
  /\ trackers' = Without(trackers)
  /\ calls' = <<Call("destroy", trackers[Len(trackers)])>>
  /\ UNCHANGED <<isDead, needCallback, list, broken>>

RunAtexitCallback(s) ==
  /\ Exiting(AtexitCallback(s))
  /\ needCallback' = IF atexitFixed THEN needCallback \cup {s} ELSE needCallback \ {s}
  /\ isDead' = isDead \cup {s}
  /\ calls' = IF s \in isDead THEN <<>> ELSE <<Call("destroy", s)>>
  /\ UNCHANGED <<trackers, list, broken>>

RunDestroyFollowers(m) ==
  /\ Exiting(DestroyFollowers(m))
  /\ broken' = (list[m] = "deleted")
  /\ calls' = <<Call("followers", m)>>
  /\ UNCHANGED <<isDead, needCallback, trackers, list>>

\* The loop of DestroyFollowers calls the next follower's DestroySingleton ...
NextFollower(m) ==
  /\ ~broken
  /\ Runs("followers", m)
  /\ Innermost.at < Len(followers[m])
  /\ LET i == Innermost.at + 1 IN
       calls' = Append(Append(Without(calls), [Innermost EXCEPT !.at = i]),
                       Call("destroy", followers[m][i]))
  /\ UNCHANGED <<atexitFixed, holder, phoenix, deletable, trackers, death,
                 phase, exits, broken, made>>

\* ... and deletes the vector after the last, which leaves followers_ dangling.
FollowersDone(m) ==
  /\ ~broken
  /\ Runs("followers", m)
  /\ Innermost.at = Len(followers[m])
  /\ calls' = Without(calls)
  /\ list' = [list EXCEPT ![m] = "deleted"]
  /\ UNCHANGED <<atexitFixed, holder, phoenix, deletable, trackers, followers,
                 phase, exits, broken, made>>

-----------------------------------------------------------------------------

Turn ==
  \/ \E s \in Singleton : RunDestroySingleton(s) \/ RunAtexitCallback(s)
  \/ \E m \in Master : RunDestroyFollowers(m)
  \/ RunAtExitFn

Return ==
  \/ \E s \in Singleton : InstanceMade(s) \/ ConstructorThrows(s) \/ InstanceDestroyed(s)
  \/ \E m \in Master : NextFollower(m) \/ FollowersDone(m)

Next ==
  \/ \E s \in Singleton : InstanceThere(s) \/ DeadReference(s) \/ MakeInstance(s)
                          \/ GracefulDelete(s)
  \/ Exit
  \/ Turn
  \/ Return

Spec == Init /\ [][Next]_vars

\* exit goes on calling, and constructors and destructors return.
FairSpec == Spec /\ WF_vars(Turn) /\ WF_vars(Return)

-----------------------------------------------------------------------------
(* Properties *)

CountOf(seq, e) == Cardinality({i \in DOMAIN seq : seq[i] = e})
Dying(s) == Within("destroy", s)
Lives(s) == s \in pInstance /\ ~Dying(s)
Times(f) == CountOf(exits, f)

\* Every variable has a value of its type; no singleton is both there and
\* destroyed.
TypeOK ==
  /\ atexitFixed \in BOOLEAN /\ broken \in BOOLEAN
  /\ pInstance \subseteq Singleton /\ destroyed \subseteq Singleton \ pInstance
  /\ destroyedOnce \subseteq Phoenix
  /\ isDead \subseteq Deletable /\ firstPass \subseteq Deletable
  /\ needCallback \subseteq Deletable
  /\ trackers \in Seq(Longevous)
  /\ list \in [Master -> {"none", "there", "deleted"}]
  /\ followers \in [Master -> Seq(Follower)]
  /\ phase \in {"main", "exit"}
  /\ exits \in Seq(ExitFn)
  /\ calls \in Seq(Frame)
  /\ made \in 0..MaxMade
  /\ births \in Nat /\ bornAt \in [Longevous -> Nat]
  /\ uses \in [Singleton -> SUBSET Singleton]

\* DestroySingleton is never called for a singleton that is not there, was
\* destroyed already, or is being destroyed by a call further out: what its
\* assertion of destroyed_ is there for.
DestroysOnlyTheLiving ==
  \A i \in DOMAIN calls : calls[i].op = "destroy" =>
    /\ calls[i].of \in pInstance \ destroyed
    /\ \A j \in DOMAIN calls :
         calls[j].op = "destroy" /\ calls[j].of = calls[i].of => j = i

\* Every singleton that exit must destroy has one turn among the exit functions:
\* AtExitFn finds a tracker whenever it is called, as it asserts, and none is
\* left behind; a default singleton's function never runs without an instance.
OneTurnEach ==
  /\ Times(AtExitFn) = Len(trackers)
  /\ \A s \in Longevous :
       CountOf(trackers, s) = IF Lives(s) THEN 1 ELSE 0
  /\ \A s \in Default : Times(DestroySingleton(s)) = IF Lives(s) THEN 1 ELSE 0
  /\ \A s \in Deletable : Lives(s) = (s \notin isDead)

\* Whichever of the registered AtExitFn runs, the object it destroys is the one
\* with the least longevity, and the youngest of those.
ShorterLivedFirst ==
  [][\A s \in Longevous : Lives(s) /\ Dying(s)' =>
       \A u \in Longevous \ {s} : Lives(u) =>
         \/ Longevity[s] < Longevity[u]
         \/ Longevity[s] = Longevity[u] /\ bornAt[u] < bornAt[s]]_vars

\* What a constructor obtained is there, and not being destroyed, as long as the
\* singleton it made, whose destructor may use it.
UsedOutlivesUser == \A s \in pInstance : \A d \in uses[s] : Lives(d)

\* When a master's destructor runs, all of its followers are gone: the exit
\* functions run in the reverse of the order in which AsMasterLifetime registers
\* them.  Once a deleted vector has been used nothing is claimed.
FollowersDieFirst ==
  broken \/ \A f \in Follower : Dying(MasterOf[f]) => f \notin pInstance

\* "Followers will die after the master dies" (Singleton.h:604).
FollowersDieAfterMasters ==
  \A f \in Follower : Dying(f) => MasterOf[f] \notin pInstance

\* Once exit has begun, what lives is destroyed, even if it was made by a
\* destructor meanwhile; except that without ATEXIT_FIXED phoenixes and
\* deletable singletons are left when made again after their turn, and
\* followers of a master that was never made.  Where a deleted vector of
\* followers is used nothing is claimed.
MustDie(s) ==
  \/ s \in Default \cup Longevous \cup Master
  \/ s \in Phoenix /\ (atexitFixed \/ s \notin destroyedOnce)
  \/ s \in Deletable /\ (atexitFixed \/ Times(AtexitCallback(s)) > 0)
  \/ s \in Follower /\ MasterOf[s] \in pInstance \cup destroyed

DiesAtExit ==
  \A s \in Singleton :
    (phase = "exit" /\ s \in pInstance /\ MustDie(s)) ~> (s \notin pInstance \/ broken)
=============================================================================
