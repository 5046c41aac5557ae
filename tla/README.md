# Loki11 in TLA+

Loki11 is a C++20 edition of the Loki library: small-object allocation, smart
pointers built from policies, singletons with managed lifetimes, factories,
multimethods and visitors. This directory holds TLA+ models of the parts of it
that keep state, TLC configurations that check them on small instances, and
theorems that the TLA+ proof system checks for all values of the constants.

Paths below are relative to the repository; `SmallObj.cpp` stands for
`src/include/SmallObj.cpp`, `SmallObj.h` for `src/include/loki/SmallObj.h`, and
so on.

## 1. Inventory

### Small-object allocator (`SmallObj.cpp`, `SmallObj.h`)

* **State.** `Chunk`: memory cut into up to 255 equal blocks; the first byte of
  every free block is the index of the next free one (a *stealth index*), so
  the free list lives in the memory it manages. `FixedAllocator`: a vector of
  chunks of one block size and three raw pointers into the vector's storage,
  `allocChunk_`, `deallocChunk_` and `emptyChunk_`. `SmallObjAllocator`: an array
  of fixed allocators, one per multiple of the alignment.
* **Operations.** `Allocate`, `Deallocate` with and without a size,
  `TrimExcessMemory` (through `ClearExtraMemory` and on failure), `IsCorrupt`.
* **Interactions.** `malloc`, `std::vector::reserve` and the copy of the vector
  that trimming makes, each of which can fail at each call; clients, who own the
  bytes of their blocks; `RefCounted`, `TwoRefCounts` and the small-object base
  classes, which allocate through it.
* **Hard.** Pointers into a vector that grows, swaps, pops and is replaced; one
  allocation that fails half way, trims every pool and starts again; a trim that
  throws when it has trimmed some of the pools; a free list in memory that
  clients overwrite; one-byte arithmetic.
* **Correct when** a block handed out is one nobody holds and big enough; no
  memory leaks or is released under a client; `emptyChunk_` is the only empty
  chunk; the three pointers lead into the container.

### SmartPtr (`SmartPtr.h`, `SmartPtr.cpp`)

* **State.** A stored pointer and what the ownership policy keeps: a shared
  count (`RefCounted`, `RefCountedAtomic`), links to co-owners (`RefLinked`), or
  nothing (`Unique`, `NoCopy`, `DeepCopy`).
* **Operations.** Construction, copy, move, move assignment, `Swap`, `Reset`,
  `Release`, `Merge` (of `RefLinked`), destruction. In this edition the same-type
  copy assignment is deleted (a move assignment is declared), and the
  converting constructors of `RefLinked` pointers do not compile.
* **Hard.** The case analysis of `RefLinkedBase::Swap` and `Merge`; move
  assignment, which returns a temporary and assigns nothing; checking policies
  that throw after the count is allocated; destructors of several threads that
  decrement one `RefCountedAtomic` count, of which one has to find itself last.
* **Correct when** an object lives exactly as long as it has owners.

### StrongPtr (`StrongPtr.h`, `StrongPtr.cpp`)

* **State.** `TwoRefCounts` (one record with strong and weak counts and the
  pointer), `TwoRefLinks` (a cycle of nodes, strong or weak), and
  `LockableTwoRefCounts`, which does not compile: `StrongPtr.h` includes no
  `ThreadModel.h`, the `ClassLevelLockable` there has no `VolatileType`, and it
  calls `lock` of a mutex whose function is `Lock`.
* **Operations.** Construction, assignment, `Swap`, `Merge`, `ReleaseAll`,
  `ResetAll`, destruction, twelve comparisons; weak pointers are nulled when the
  last strong one goes.
* **Hard.** An object whose members are copointers of itself, or own an object
  that leads back to it: destructors nest, and each must find the ownership
  policy in order; the order in `ResetAll`; `Merge`, which splices as
  `RefLinkedBase::Merge` does.
* **Correct when** the object dies with its last strong owner, the record with
  its last owner of any kind, each once, and no weak pointer leads to a dead
  object.

### Singletons (`Singleton.h`, `Singleton.cpp`)

* **State.** `pInstance_` and `destroyed_` per singleton, the queue of lifetime
  trackers, the C library's list of exit functions, followers.
* **Operations.** `Instance`, `MakeInstance`, `DestroySingleton`,
  `SetLongevity`, `AtExitFn`, and the lifetime policies' `ScheduleDestruction`
  and `OnDeadReference`.
* **Hard.** Objects created while others are destroyed; the double-checked
  `Instance`; `FollowIntoDeath`, which forgets that its vector is gone.
* **Correct when** singletons die once, in the order of their longevity, and no
  reference to a dead one is handed out unless the policy allows it.

### Threads (`ThreadModel.h`, `Threads.h`, `LockingPtr.h`)

* **State.** One mutex for each class that is lockable, of a type that the
  program may choose; locks that are held as long as an object is in scope.
* **Operations.** `Lock` objects in `MakeInstance`, `SmallObjectBase::operator new`
  and `delete`, `ClearExtraMemory` and `IsCorrupted`; `LockingPtr` on an object
  that threads share.
* **Hard.** Locks taken within locks, through constructors that allocate;
  exceptions that leave with two of them held; functions that lock *another*
  mutex than the one the program named; a handler that is called with the lock
  held and takes it again.
* **Correct when** one object is made, one thread at a time uses what is not made
  for several, and every call returns.

### Ordered statics, registries and dispatchers (`OrderedStatic.*`, `Factory.h`, `Register.h`, `MultiMethods.h`)

* **State.** The registered creators with their longevity; maps from a class to a
  creator and from a pair of classes to a callback.
* **Operations.** `registerObject`, `createObjects`; `Register`, `Unregister`,
  `CreateObject`; `Add`, `Remove`, `Go`.
* **Hard.** A descending loop over an unsigned longevity, into which creators
  register more; two modules that register the same class; symmetric callbacks
  that are added, overwritten and removed in either direction; the order in
  which a typelist names bases and derived classes.
* **Correct when** each static is created once, after all it needs and destroyed
  before them; what is found in a registry is there and is what was asked for;
  dispatch finds the nearest classes and passes the arguments the right way
  round.

### Values (`SafeBits.h`, `CheckReturn.h`)

* **State.** Words of flags whose kind the compiler checks; the duty to look at a
  returned value, handed from copy to copy.
* **Hard.** Which of the operators compile across kinds; shifts past both ends;
  who has the duty after many copies, and what its breach does.
* **Correct when** a word holds the labels of its own kind that were put there,
  and exactly the last copy has the duty.

### Without state of their own

`AbstractFactory`, `Visitor`, `HierarchyGenerators`, `ConstPolicy`, `EmptyType`,
`priority_tag`: composition and conversions that the compiler does. `Pimpl`: an
owning pointer. `Allocator`, `scopeguard`, `flex_string`: vendored or thin. The
tests have a thread pool (`test/LevelMutex`), for a header that the repository
does not contain.

`PROJECT.json` lists, under `hazards`, every place where this code is hard to
test, with the properties that cover it.

## 2. Modules

### Allocator

| Module | What it is |
| --- | --- |
| `Chunk` | operators: one chunk as a record; its constructor, `Allocate`, `Deallocate`, the walks of `IsCorrupt` and `IsBlockAvailable` |
| `FixedAllocator` | operators: a pool as a record `fa`; an operation takes `fa`, the heap and the memory system's answer, and gives what it leaves |
| `SmallObjAllocator` | the state machine: pools, heap, what clients hold; one action per outcome of a public operation |
| `BlockPool` | the abstract specification: blocks are handed out once, big enough, in memory that stays put |
| `ChunkCheck` | a state machine on one chunk whose clients also write out of bounds |
| `MCSmallObjAllocator` | symmetry for TLC |
| `MCParts` | the run of the allocator, of `ChunkCheck` and of `CheckedFields` |
| `OperatorLemmas` | lemmas about `Chunk`, about sequences, and about the links of `RefLinks` |
| `SmallObjAllocatorProofs` | the theorems, those about `ChunkCheck` at its end |

How the code is represented:

* An address is a pair of the memory area (`pData_`) and a block index. Byte
  offsets inside a chunk are the index times the block size and are left out;
  sizes in bytes are kept where they choose the pool.
* `std::swap` of two chunk headers is the exchange of two records: the header
  and the bytes `pData_` leads to move together.
* A pointer into the vector is 0 for `NULL`, an element's position, or `Freed`
  when the storage it led into is given back. `pop_back` leaves a pointer to
  the last element one past the end, and so does the model.
* `malloc` and `reserve` succeed or fail by choice, at every call
  (`MemoryAnswer`). `reserve` fails only where the code does call it for more
  than the capacity. So does the copy in `TrimChunkList`, where there is
  something to copy (`TrimCopies`): if it throws at a pool, all pools have
  released their empty chunks and the pools before it have their lists trimmed
  (`Trim`, with how many), and the exception leaves `ClearExtraMemory`, or
  `Allocate` without a second attempt (`AllocateThrows`).
* While a client holds a block its first byte is `Client`, a value the type
  invariant forbids as an index: using it is an error in every state in which a
  real client *may* have written something.
* Where the code dereferences a pointer that does not lead to an element, the
  step goes to a state with `undefined` set and there it ends. This is why the
  runs do not check deadlock. `trimmed` (a trim has found something to trim) and
  `thrown` (an exception has left `TrimExcessMemory`) are history variables.
* `DeallocateSized` without an owner does nothing, as in a build without
  assertions; `HeldBlockIsFound` says that this never happens while
  `deallocChunk_` is sound.

### Linked smart pointers

| Module | What it is |
| --- | --- |
| `RefLinks` | operators: `prev_` and `next_` of all nodes; construction, `Release`, `Swap`, `Merge` and the counting walks of `RefLinkedBase` |
| `LinkedPtr` | the state machine: `SmartPtr<T, RefLinked>` as clients use it |
| `CoOwners` | the abstract specification of shared ownership: parties of co-owners; the last to leave destroys the object |
| `MCLinkedPtr` | symmetry for TLC |
| `LinkedPtrProofs` | the theorems; what they need of links is in `OperatorLemmas` |

`RefLinks` translates the pointer assignments with the aliasing they have in
the code: each operator reads the fields that the statements read at that
point. `Reset` and move assignment go through an unnamed temporary, as in the
code; it lives at the place `Temp`. Moving a `RefLinked` pointer copies it,
since the policy has only a copy constructor; move assignment makes a temporary
and returns it, so the left side is unchanged, and `MoveAssign` models exactly
that. Clients observe what such pointers require: pointers made apart from the
same object are merged before any of them is destroyed or reset, and an object
is taken back (`Release`) only from its only owner. When the assertion that
ends `Merge` fails, the program ends (`aborted`).

### Counted smart pointers

| Module | What it is |
| --- | --- |
| `CountedPtr` | the state machine: `SmartPtr<T, RefCountedAtomic>` used by several threads, and so `SmartPtr<T, RefCounted>` used by one |
| `CoOwners` | the same abstract specification; here a party is what shares a count |
| `CountedPtrProofs` | the theorems |

Threads are not named: a smart pointer is used by one thread at a time, so what
interleaves is what happens to different smart pointers. `stage` says how far
each is. The destructor is three actions, because two threads meet in it:
`Decrement` (`--*pCount_` and the test of its result, one atomic operation),
`FreeCount` (`delete pCount_`) and `DeleteObject` (`SP::Destroy`). Everything
else an operation does is done to places no other thread sees before the one
atomic step on a count, and is one action. `Reset` and move assignment leave a
temporary behind (`leaving`), whose destructor runs like any other. The memory
of a count is a `Cell`, which can be given out again as soon as `FreeCount` has
run. A smart pointer of `Strict` has the checking policy `RejectNullStrict`:
its constructors from null throw, and the count they made is `leaked`.

### Strong and weak pointers

| Module | What it is |
| --- | --- |
| `TwoRefCounts`, `TwoRefLinks` | operators: the two ownership policies, as records (`Counted...`, `Linked...`) |
| `OwnershipPolicies` | operators `OP_...`: the functions that `StrongPtr` calls, each with the policy whose record it is given |
| `StrongPtr` | the state machine, over `OwnershipPolicies`; what the policy's own data must be, and the refinement of `Copointers` |
| `StrongComparisons` | operators: the comparisons with `StrongPtr` and with plain pointers, and the conversion to `bool` |
| `Copointers` | the abstract specification: groups of strong and weak pointers; the object dies with the last strong one, and in that step no weak one leads to it any more |
| `MCStrong` | the objects, members and addresses of the runs |
| `StrongPtrProofs` | the theorems |

A behaviour begins with the initial record of one policy or the other and keeps
it, so that every run and every theorem is about both.

Every object has one `StrongPtr` as a data member. `delete` of an object runs
that member's destructor, which may delete another object, and so on: `stack`
holds the destructors at work, innermost first, and the client's code goes on
when it is empty. Assignment goes through a temporary, as in the code, at a
place of `Temp`. `Resettable` gives the answers of `OnResetAll` for which the
reset policy allows a reset; `undefined` is set when an object is deleted that
does not exist. Every comparison is written in the code with three member
functions, `Equals`, `LessThan` and `GreaterThan`, and so it is in the model,
each with the side that the code asks.

### Singletons and their lifetimes

| Module | What it is |
| --- | --- |
| `Lifetimes` | the state machine: `SingletonHolder` with each lifetime policy of `Singleton.h`, in one thread |
| `MCLifetimes` | the singletons, longevities and followers of the runs |
| `LifetimesProofs` | the theorems |

* A singleton is a value; the sets `Default`, `Phoenix`, ... say which policy it
  has. `Longevous` are those of `SingletonWithLongevity` and of the fixed
  longevities, `Master` and `Follower` those of `FollowIntoDeath`.
* Constructors and destructors are client code that may ask for any other
  singleton, delete a deletable one, or (a constructor) throw. `calls` is the
  stack of what runs: `make` is a constructor, with the rest of `MakeInstance`
  still to come (`InstanceMade`), `destroy` a destructor, with the rest of
  `DestroySingleton` still to come (`InstanceDestroyed`), and `followers` the loop
  of `DestroyFollowers`, with how far it has come.
* `exits` is the C library's list: `exit` calls the function registered last,
  also one registered since, until none is left.
* `trackers` is the array that `SetLongevity` keeps sorted; `AtExitFn` destroys
  the last of it.
* `atexitFixed` says whether the build defines `ATEXIT_FIXED`: both builds are
  checked.
* `AddFollower` makes the vector of followers when there was none, but once it was
  made and deleted, its pointer dangles; the first use of the deleted vector
  sets `broken`, and there the behaviour ends. Pushing onto the vector while
  `DestroyFollowers` walks it may or may not invalidate the iterator.
* `births`, `bornAt` and `uses` are history: in which order the longevous
  singletons were made, and what each constructor obtained that its singleton
  may rely on until it dies.

### Singletons and the allocator among threads

| Module | What it is |
| --- | --- |
| `SharedSingletons` | the state machine: threads in `Instance`, in the allocator's functions and in `LockingPtr`s, each a stack of calls |
| `MCSharedSingletons` | the threads and singletons of the run |
| `SharedSingletonsProofs` | the theorems |

* `stack` holds for each thread the calls it is in, with the statement each is at
  (`at`) and whether its `Lock` object is constructed (`guard`). Every step of a
  thread is one lock, one unlocked read, one critical section's change or one
  return; the others run between any two.
* A `Host` is a singleton whose class derives from `SmallObject`: making it takes
  the mutex of its holder, then the allocator's, and where the allocator does
  not exist yet, that of the allocator's holder. Constructors, `operator new`,
  `ClearExtraMemory` (by the copy that trimming makes) and `ScheduleDestruction`
  may throw; `Unwind` takes an exception out through every frame, releasing what
  the frame's guard holds. `operator delete` is `throw()`: an exception that
  would leave it ends the program (`terminated`).
* Where a tracker was made and cannot be queued, its destructor calls
  `DestroySingleton`, in two steps: `Destroy`, with the `operator delete` of a host
  as a call of its own, then `Destroyed`, which resets `pInstance_`.
* The repository's own `Mutex` locks nothing (its `Lock` and `Unlock` are empty),
  so that a program with threads brings a threading model of its own. `model`
  is one of two: `"class"` is a `ClassLevelLockable` over `std::mutex`; in
  `"passed"` the program passes the mutex as `MutexPolicy`. With `"passed"`,
  `AllocatorSingleton` drops it (`SmallObj.h:220`, `SmallObj.h:432`): what it locks
  itself is then the mutex that locks nothing, and `MutexOf` says so.
* `handler` says whether the client made `ClearExtraMemory` the `new_handler`, as
  `SmallObj.h:241` suggests. It is called wherever the library asks
  `::operator new` for memory within these calls (`Requests`): for the vectors of
  the allocator, which grow and are copied, for its pool, and for trackers.

### Ordered statics, registries and dispatchers

| Module | What it is |
| --- | --- |
| `Loops` | operators: a loop of a fixed number of passes, as a function on the passes made |
| `OrderedStatics` | registration before main and from creators, `createObjects`, the queue of `SetLongevity`, exit; operators on variables that `Registries` composes |
| `Classes` | a class hierarchy without cycles, in which a class may have several parents; the bases of a class are the least set with it that goes upward |
| `Factories` | operators: `Factory`, `CloneFactory` and the sets of `Register.h` |
| `MultiMethods` | operators: `StaticDispatcher` with its sorted typelists; the callback map of `BasicDispatcher` as `FnDispatcher` and `FunctorDispatcher` fill and use it |
| `Registries` | the composition: modules are ordered statics that register classes and a callback when created and take them out when destroyed; main adds and removes callbacks between |
| `MCRegistries` | the classes, modules and typelists of the run |
| `RegistriesAndFieldsProofs` | the theorems, with those about the next component |

The order in which the linker runs constructors is a choice; so is which static
constructs another that is local to a function. `Decrement` is the unsigned
`longevity--`. A dispatcher's result is the callback with its arguments by side
(`"lhs"`, `"rhs"`), so that a wrong exchange shows. `MpSort` is the sort of the
typelist, whose predicate is no strict weak order where classes are unrelated;
`Kept` is one pass of `mp_partition`. A typelist compiles when it has no class
that its last one, once sorted (`Base`), is not a base of (`StaticAsserts`).
With several parents the nearest base need not be one: what `StaticDispatcher`
finds is *a* listed base from which no other listed base derives (`IsNearest`).
Casts to a base succeed: bases are public and shared ones virtual. The
associations of `Factory` map a class to the module that registered it
(`ProductCreator`). Recursion over lists, bits and passes is by recursive
functions and by `Loops`, so that it can be reasoned about.

### Bit fields and checked returns

| Module | What it is |
| --- | --- |
| `SafeBits` | operators: constants and fields as words, and which operators compile between kinds |
| `CheckedFields` | the state machine: fields that a program combines in every way that compiles, and hands on as `CheckReturn`s |
| `MCCheckedFields` | kinds; `MCParts` is the module of the run |
| `RegistriesAndFieldsProofs` | the theorems |

A field has a word and, beside it, the set of labels that the client means
(`flags`). The copies of a returned value are a chain; `fate` tells whether any
of them was looked at or complained. `onError` is TRUE for the policies that end
the program: one asserts, and two throw out of a destructor, which is
`noexcept`.

## 3. Runs

| Run | Module, instance | Shows |
| --- | --- | --- |
| `parts` | `MCParts`, the allocator: 3 areas; pools of 2- and 4-byte blocks with 2 and 1 blocks per chunk; requests of 2, 3 and 5 bytes (5 is large); first reserve 1 chunk | the type invariant, `FreeListsExact`, `EmptyChunkExact`, `HeapAccounted`, `HeldBlockIsFound`, `SoundUntilTrimmed` (nothing undefined happens, the two pointers lead into the container and `IsCorrupt` is silent), `ClearReleasesUnused`, and that the allocator implements `BlockPool` |
| | `ChunkCheck`: 3 blocks, one overrun | `IsCorruptExact`, `AvailableIsUnheld`: `IsCorrupt` reports exactly the damaged lists; `IsBlockAvailable` exactly the free blocks |
| | `CheckedFields`: a field of each of two kinds, words of 2 bits, 3 places for returned values, 1 chain | `FieldsAreSets`, `OneCarriesTheDuty` |
| `smallobj_trim` | `MCSmallObjAllocator`, the same allocator, requests of 2 bytes | fails as it should: `PointersInContainer` after `ClearExtraMemory` |
| `smallobj_throws` | the same | fails as it should: `TrimNeverThrows` |
| `linkedptr` | `MCLinkedPtr`: 5 smart pointers and a temporary, 2 objects | `LinksInverse`, `ExistsIffOwned`, and that linked pointers implement `CoOwners` |
| `linkedptr_merge` | the same, 1 object | fails as it should: the assertion at the end of `Merge` |
| `counted` | `CountedPtr`: 5 smart pointers, one of them `Strict`; 1 object, 2 cells; no symmetry, for the liveness | `CountExact`, `ExistsIffOwned`, `OrphansDie`, and that counted pointers implement `CoOwners` |
| `strong` | `MCStrong`: a strong and a weak pointer, two temporaries, 2 objects, one with a weak member and one with a strong one; over `TwoRefCounts` and over `TwoRefLinks`; any reset allowed, which includes what stricter policies allow | `PolicyDataExact`, `ComparisonsTellWhoShares`, `NoDangling`, `DeletedOnceOutsideReset`, and that both policies implement `Copointers` |
| `strong_reset` | the same, reset only where no pointer is strong, as by default | fails as it should: `ResetAll` deletes an object twice |
| `lifetimes` | `MCLifetimes`: two default singletons, a phoenix, a deletable one, three longevous ones of which two are to live as long, one that is never destroyed, a master and its follower; 3 constructors in all, calls 3 deep; both builds | `DestroysOnlyTheLiving`, `OneTurnEach`, `ShorterLivedFirst`, `UsedOutlivesUser`, `FollowersDieFirst`, and that what lives at exit dies (`DiesAtExit`) |
| `followers` | `MCLifetimes`: a master and its follower | fails as it should: `FollowersDieAfterMasters` |
| `threads` | `MCSharedSingletons`: 2 threads, 1 host and the allocator, 2 calls from each thread's own code; both threading models, with and without the `new_handler` | `OneInstance`, `AllocatorOneAtATime`, `TrackersApart`, and that calls return (`CallsReturn`) |
| `registries` | `MCRegistries`: 4 classes, one with two parents that share a base; 3 modules, longevities up to 3, 2 operations of main; 6 choices of typelists | `RegistriesMatchLife`, `DispatchSound`, `OutlivedByNeeds`, and that creation ends, complete (`StaticsCreated`) |

**`parts`** is one run of three parts that share nothing. A program of it uses one
of them, and what it does not use stays as it began, so that the states of the
parts add up and do not multiply.

**Are the bounds enough?** Three areas let a pool have three chunks, so that an
empty chunk can be released from the front, the middle and the back, the last
one be moved into a gap, and a chunk of another pool or a large block compete
for memory; with a reserve that starts at 2 chunks and doubles, the vector grows
and has room to spare. Chunks of 1 block go from full to empty in one step,
chunks of 2 have every partial state; the loops in `Chunk` are over free blocks,
of which `ChunkCheck` has 3, and damage of every kind fits in (an index out of
the chunk, to itself, to an earlier or later block). Five pointers are what
`Swap` and `Merge` need for every case of theirs: a cycle of three beside one of
two, neighbours in cycles of two, three and more, and nodes apart in one cycle
(at least four). In `counted`, two pointers can be at different steps of their
destructors while a third is copied to a fourth and a fifth is refused, and two
cells let one be lost, be shared, or be given out again while the object it
counted still exists; parties of null pointers stand beside the one of the
object, and the theorems below hold for any number of objects. In the runs of
`StrongPtr` two objects with a member each are what nesting needs: an object
that owns another, two that own each other, and one that leads to itself; five
records of counts are one for each pointer that can exist at once, and so never
run out. In `lifetimes`, three constructors are what the longevity queue needs
for an insertion before, between and after, with equal longevities beside
different ones; what a master made again after its death needs (the master, its
follower, one of them again); and one singleton made by the destructor of
another that a constructor used. The theorems hold for any number of singletons,
constructors and nested calls. In `threads`, one call each races the first
`Instance` against itself and against the allocator's; a second lets a thread
call while it holds a `LockingPtr`, delete what another thread allocated, ask
again after a constructor threw, and lets a `new_handler` run in any of them. A
stack grows to five frames. In `registries`, three modules can be longer lived
than each other in a row or equal, one local to another's creator, two share a
class and a pair of parameters; of four classes two are unrelated, with one
base, and the fourth derives from both, so that lists have chains, several
nearest bases and bases that come by two ways; two operations of main overwrite
and then remove. Each static is created at most twice, which tells once from
more often; it matters only where a longevity is 0, since the loop then does not
end. Words of two bits are shifted past either end by one, and of three places
one can be copied twice; several chains do not meet; what a second field of one
kind adds is in the theorem, which is about any number of them. What is proved
of `threads` holds for any number of threads, hosts and calls.

**Fairness.** Four runs assume any. In `counted`, a thread that has begun to
destroy a smart pointer goes on to the end (weak fairness of `Destroying(n)`,
for each pointer). Nothing in a destructor waits, so this asks no more than a
scheduler that lets every thread run. A client may keep a smart pointer for
ever. All other operations run to their end in their caller. In `lifetimes`,
`exit` goes on calling the registered functions (weak fairness of `Turn`), and
constructors and destructors return (weak fairness of `Return`): clients whose
code at exit never returns have a program that never ends. Destructors may go on
making singletons during exit, up to the bound on constructors; without it
nothing says that exit ends. In `threads`, the scheduler runs each thread that
can go on (weak fairness of `Proceed(t)`); a mutex makes no promise of order,
but since a thread's calls are bounded nobody is overtaken for ever.
`CallsReturn` excepts the one wait that does not end: a `new_handler` that is
`ClearExtraMemory`, called by `operator new` with the mutex held that it takes
first. That wait is one more disagreement with the documentation, which
recommends the use (`SmallObj.h:244`), for threading models whose mutex is not
recursive; with the library's own, which locks nothing, there is none. It also
excepts the end of the program by an exception in `operator delete`. In
`registries`, loading and `createObjects`, in one thread and without waiting, go
on (weak fairness of `Proceeds`).

**What the failing runs say.**

* `SmallObj.cpp:157-159` says that `allocChunk_` and `deallocChunk_` are NULL or
  lead into the container. After `TrimExcessMemory` they need not:
  `TrimEmptyChunk` pops the chunk one of them leads to, and `TrimChunkList`
  replaces the vector's storage and repairs neither. One allocation followed by
  `ClearExtraMemory` is enough. The properties that survive trimming
  (`FreeListsExact`, `EmptyChunkExact`, `HeapAccounted`, `ImplementsBlockPool`)
  are checked over those states too; those that speak of the two pointers are
  stated for programs that have not trimmed.
* `SmallObj.h:157` says that `TrimExcessMemory` "will never throw", `SmallObj.h:243`
  that `ClearExtraMemory` "never throws". `TrimChunkList` copies the vector
  (`SmallObj.cpp:726`), and a copy that finds no memory throws out of both, and
  out of an `Allocate` that is not to throw: most likely just when memory has run
  out. The properties above are checked over the states this leaves, and so is
  `ClearReleasesUnused`. It can also leave the two pointers dangling in a program
  that never clears memory: a `reserve` that moves the vector, a `malloc` that then
  fails, and the throwing trim. That is why `SoundUntilTrimmed` speaks of programs
  in which no trim has thrown; that the failures by themselves do no harm is what
  it says.
* `SmartPtr.cpp:305` asserts that a merged cycle has as many nodes backwards as
  forwards. For a cycle of three or more merged with one of two or more it has
  not: the splice takes this's forward link for the end of its own cycle and
  drops what lay between. `TwoRefLinks::Merge` has the same statements.
* `StrongPtr.h:997` explains why the destructor takes the pointer from all
  copointers before it deletes the object. `ResetAll` (`StrongPtr.h:1033`)
  deletes first. If the object has a weak pointer to itself as a member and
  nothing strong leads to it, the member's destructor deletes the object again.
  `DeletedOnceOutsideReset`, which the passing runs check, says that nothing but
  `ResetAll` ever does that.
* `Singleton.h:604`, the class comment of `FollowIntoDeath`, says "Followers will die
  after the master dies". `ScheduleDestruction` (`Singleton.h:671`) registers
  `DestroyFollowers` after the master's own `DestroySingleton`, and exit functions
  run last registered first: the followers die before. `FollowersDieFirst`, which
  `lifetimes` checks, says that they always do.

## 4. Proofs

Every theorem holds for all values of the constants that the named assumptions
allow; TLC evaluates the assumptions in every run. The two builds, policies or
threading models that a module chooses between in its initial state are all
covered. Safety theorems come as in Lamport's tutorials: `Init => IInv`,
`IInv /\ [Next]_vars => IInv'`, one lemma per action, then what `IInv` implies.
`OperatorLemmas` has the lemmas that several proofs share: about `Chunk`, about
sequences, and about the links of `RefLinks` with the partition into cycles that
they make. As it extends both operator modules, the theorems of the allocator
carry the constants `Node` and `NoNode` of `RefLinks` too, which they do not use.

### The allocator

`SmallObjAllocatorProofs`, for every set of areas, alignment, sizes, page size
and limits:

| Theorem | Statement |
| --- | --- |
| `Invariance` | `Spec => []IInv` |
| `TypeCorrect` | `Spec => []TypeOK` |
| `FreeListsAreExact` | `Spec => []FreeListsExact` |
| `EmptyChunkIsExact` | `Spec => []EmptyChunkExact` |
| `HeapIsAccounted` | `Spec => []HeapAccounted` |
| `HeldBlocksAreFound` | `Spec => []HeldBlockIsFound` |
| `AllocatorImplementsBlockPool` | `Spec => ImplementsBlockPool` |
| `ClearingReleasesUnused` | `Spec => ClearReleasesUnused` |
| `SoundUntilMemoryIsTrimmed` | `Spec => []SoundUntilTrimmed` |
| `DefinedUntilMemoryIsTrimmed` | until trimming, all that `Allocate` and `Deallocate` read is there |

Assumptions: `SizesAssumption`, `EnvironmentAssumption` and
`MinReserveAssumption`: the sizes are naturals, alignment, first reserve and
largest small size are positive, limits on blocks per chunk are between 1 and
255 and the least is at most the greatest, and the two failures are not
addresses.

None of the properties is inductive alone: that a free list is exact after
`Deallocate` needs that the block given back was not on it, for which the block
must be held, in that chunk and in no other; that releasing a chunk frees unheld
memory needs that an empty chunk has no held block, which is `FreeListsExact`
again. `IInv` has three parts:

1. the types, of pools, chunks and of what clients hold;
2. `PoolOK` of every pool: free lists list exactly the unheld blocks, areas of
   different chunks differ, `emptyChunk_` is the one empty chunk or NULL;
3. ownership: an area of the heap belongs to exactly one chunk of one pool or
   to one large block, and a held small block lies in a chunk of the pool its
   size selects.

`OperatorLemmas` shows what one `Allocate` or `Deallocate` does to a list, by
giving the new order explicitly from the old (drop the head; put a new one in
front). `SmallObjAllocatorProofs` shows that each operation of a pool keeps
`PoolOK` and changes the set of areas as it should, with one lemma per branch
(growth that fails, growth that succeeds, the swap and pop of a second empty
chunk, trimming), and lifts that to all pools, one lemma per action. Nowhere is
it *assumed* that the two pointers are sound: the invariant holds after
trimming, up to the step that follows a dangling pointer. That they are sound,
and that nothing undefined has happened, until a trim has found something or has
thrown is a second invariant, `Tracked`. Its point is the failed allocation
(`NothingTried`): if a trim found nothing to do, no list has spare capacity, so
that the attempt before it cannot have moved the vector either, and everything
is as it was. `smallobj_trim` shows that the condition is needed. The refinement
rests on two facts: a step gives one block, takes one or does neither
(`OneBlockAtATime`), and the size that the area of a held block is cut to is
read off the block (`BytesUnderHeld`), so that it cannot change while the block
is held. That `ClearExtraMemory` leaves no unused area, whether it returns or
throws, is an argument by counting: without an empty chunk each list is shorter
than its chunk, so a client holds one of the blocks.

At its end, about `ChunkCheck`, for chunks of any number of blocks up to 255
(`NAssumption`) and any number of overruns (`MaxOverrunsAssumption`):

| Theorem | Statement |
| --- | --- |
| `ChunkInvariance` | `ChunkSpec => []ChunkInv` |
| `CorruptionIsFound` | `ChunkSpec => []IsCorruptExact` |
| `AvailabilityIsKnown` | `ChunkSpec => []AvailableIsUnheld` |

`ChunkInv` says that until there is an overrun the chunk, with the bytes of held
blocks put aside (`Masked`), is a free list of the blocks that are not held. The
walk of `IsCorrupt` is a recursive function on the steps it has made; one lemma
shows that it follows a list to its end without an alarm, another that a walk
without an alarm has met `blocksAvailable_` different blocks, which then are a
list. Both are about the shortest walk for which they would be false, since the
prover has no induction over data.

### Linked smart pointers

`LinkedPtrProofs`, for any finite set of places and any objects:

| Theorem | Statement |
| --- | --- |
| `LinkedInvariance` | `Spec => []IInv` |
| `LinksAreCycles` | `Spec => []LinksInverse` |
| `LinkedObjectsLiveAsOwned` | `Spec => []ExistsIffOwned` |
| `LinkedImplementsCoOwners` | `Spec => ImplementsCoOwners` |

Assumptions: `NodeAssumption` (the places are finitely many, and null is not one)
and `ObjectAssumption` (null is not an object, the temporary has a place).

`IInv` is the types, `Mutual` (`prev_` and `next_` are inverse on the pointers
there are), `Alike` (neighbours lead to one object) and `ExistsIffOwned`. `Swap`
has six cases, by who is alone and who is whose neighbour; each is shown to give
`Exchanged`, the links with the two places exchanged, and everything else about
`Swap`, and about `Reset`, which swaps with a temporary, follows from that. The
cycle of a pointer is what a walk along the links finds in as many steps as
there are places; the lemmas replace it by the least set that the links do not
lead out of. In `Merge`, the splice of a cycle of three or more with one of two or
more leaves out what lay between; the walk along `prev_` then meets a pointer that
the walk along `next_` has lost, so the counts differ and the assertion ends the
program before the links are used. What
it lets through are the splices that unite two cycles (`RingMerged`). For the
refinement, lemmas about partitions say what becomes of the classes when one is
founded, joined, left, when two are united and when two members are exchanged,
and each action is one of these, or two in a row.

### Counted smart pointers

`CountedPtrProofs`, for any finite set of smart pointers and any sets of objects
and cells:

| Theorem | Statement |
| --- | --- |
| `CountedInvariance` | `Spec => []IInv` |
| `CountedTypeCorrect` | `Spec => []TypeOK` |
| `CountsAreExact` | `Spec => []CountExact` |
| `ObjectsLiveAsOwned` | `Spec => []ExistsIffOwned` |
| `CountedImplementsCoOwners` | `Spec => ImplementsCoOwners` |

Assumptions: `PlacesAssumption` (the smart pointers are finitely many, so that
they can be counted) and `NullAssumption` (null is not an object).

That the last owner is alone does not follow from the counts: it needs that
pointers to one object share one count (`Grouped`), and that needs in turn that
an object a client holds is led to by nobody (`Accounted`), or `Construct` would
make a second count for it, and that a cell given out again is nobody's
(`CellsUsed`). Exactness of the counts (`CountsAgree`) closes the circle: who
takes a count from 1 to 0 was its only sharer. With these, each action maps to a
step of `CoOwners` or to none (`Decrement_Last`, `FreeCount` and
`ConstructThrows` change no party); further lemmas compute the new parties from
the old ones.

### Strong and weak pointers

`StrongPtrProofs`, over `TwoRefCounts` and over `TwoRefLinks`, for any finite set
of pointers and any objects, members and addresses:

| Theorem | Statement |
| --- | --- |
| `StrongInvariance` | `Spec => []IInv` |
| `StrongPtrsDoNotDangle` | `Spec => []NoDangling` |
| `DoubleDeletionTakesAReset` | `Spec => []DeletedOnceOutsideReset` |
| `PolicyKnowsWhoShares` | `Spec => []PolicyDataExact` |
| `ComparisonsTell` | `Spec => []ComparisonsTellWhoShares` |
| `StrongImplementsCopointers` | `Spec => ImplementsCopointers` |

Assumptions: `StrongPtrAssumption` (null is not an object, there is a temporary of
either strength, every object has a member of its own, which is no temporary),
`InfoAssumption` (records of counts do not run out: there is one more than
pointers other than temporaries), `AddressAssumption` (different objects have
different addresses, and NULL is 0) and `NodeAssumption`.

The proof has two storeys. The lower one states what `StrongPtr` needs of its
policy as a contract on states before and after a call: `Created`, `Shared`,
`Swapped`, `Led` (`SetPointer`) and `Gone` (`Release`), each over the sets of
`Mates` of a pointer, which are those with the same record of counts or in the
same cycle. Both policies are proved to meet it. They differ in one point, and
the contract allows both (`StayOrPart`): when the last strong pointer goes, the
weak ones that are left stay together under `TwoRefCounts`, and each is on its own
under `TwoRefLinks`. The upper storey uses the contract only.

`IInv` is `Sound`, `MembersLive`, and that temporaries do not outlive their
statement. `Sound` says of the states in which destructors are at work what the
client finds otherwise (`Quiet`): pointers lead to objects that exist, or to
nothing. Each of its parts is needed for another. That the last strong pointer
of a group may delete the object needs that nobody outside the group leads to it
(`Apart`), which needs that no pointer leads to an object the client still holds.
That the object exists at that point needs that a `ResetAll` is never but the
outermost deletion at work (`FramesOK`); while it waits, its own object is the
only one that pointers may still lead to without its existing. `MembersLive` says
that a member is destroyed with its object and not before, so that the destructor
of an object finds its member made, once.

The refinement takes the groups to be the classes of `Mates`, and an object whose
destructor is at work to be none. `ResetAll` is then two steps of `Copointers`: its
pointers lead to nothing, and when the destructor has returned they lead to the
new object. Assignment is one step, though in the code a temporary is made, swapped
and destroyed: it takes the place of the pointer, which joins its new group, and
`TempLeaves` shows that what its release does to the old group is what
`Copointers` lets a pointer that leaves do.

`ComparisonsTell` follows from the invariant by way of addresses: two pointers
that lead to one object share it, so the operators that compare objects and the
one that asks the policy give one answer.

### Singletons

`LifetimesProofs`, for any sets of singletons, any longevities and followers and
any bounds:

| Theorem | Statement |
| --- | --- |
| `Invariance` | `Spec => []IInv` |
| `TypeCorrect` | `Spec => []TypeOK` |
| `AssertionHolds` | `Spec => []DestroysOnlyTheLiving` |
| `OneTurn` | `Spec => []OneTurnEach` |
| `LongevityOrder` | `Spec => ShorterLivedFirst` |
| `UsedOutliveUsers` | `Spec => []UsedOutlivesUser` |
| `FollowersDieBeforeMasters` | `Spec => []FollowersDieFirst` |

Assumptions: `LifetimesAssumption` (longevities and bounds are naturals, every
follower has a master) and `OnePolicyAssumption` (no singleton has two
policies).

That a destructor is never called twice needs that every source of a call knows
only singletons that live. There are four, and `IInv` has a part for each:
registered functions (`TurnsFit`: a default singleton has one turn exactly while
it lives, a phoenix at most one), `GracefulDelete` and the callback of
deletable singletons (`isDead` is exact), the queue of trackers (`TrackersFit`:
it holds exactly the longevous singletons that live, sorted, with as many
`AtExitFn` registered as it is long) and the vector of followers
(`FollowersFit`: those the loop has still to call live, are listed once, and
follow this master). `FramesFit` says that the calls in progress are of
singletons in the state the call is for. That `SetLongevity` keeps the queue
sorted (`TrackerInserted`) rests on a lemma about insertion and on one that
`upper_bound` finds a place (`UpperBoundFound`), for which the least element of a
set of naturals is taken. `OnlyAtExitFn` shows that no other step begins to
destroy a longevous singleton; the order is then that of the queue.

`UsedOutlivesUser` is about the past: who was obtained by whose constructor.
`UsesFit` turns it into facts about what is to come. Among default singletons the
turn of the one that is used lies below its user's, so that the user's is taken
first; among longevous ones it was born before. `FollowersDieFirst` needs
`DeathsFit`: `DestroyFollowers` runs only on an empty stack (`FramesFirst`), a
follower that lives is in its master's vector or has been passed to the loop
(`FollowersListed`), and a master's own turn lies below that of
`DestroyFollowers` as long as its vector is there (`MastersLater`). All three hold
until a deleted vector is used, and the property says no more.

### Singletons and the allocator among threads

`SharedSingletonsProofs`, for any threads and hosts and any number of calls:

| Theorem | Statement |
| --- | --- |
| `Invariance` | `Spec => []IInv` |
| `OneInstanceEach` | `Spec => []OneInstance` |
| `AllocatorAlone` | `Spec => []AllocatorOneAtATime` |
| `TrackersStayApart` | `Spec => []TrackersApart` |

Assumption: `SharedAssumption` (the allocator is none of the hosts, `NoThread` is no
thread, the bound on calls is a natural).

`IInv` has three parts. `FramesFit`: a call that is past its lock has its guard.
`LocksFit`: the thread that owns a mutex is the one with a call whose guard is
to release it, and no mutex is to be released twice; it is this that survives
exceptions and calls that nest. `InstancesFit`: while a call constructs, there
is no object yet; while it schedules, there is one without a turn; and when the
object of a failed schedule was destroyed and `pInstance_` not yet reset, there
is none. The second follows from the first where a mutex is real (`OneMaker`:
two calls that make the instance of one holder are one call), and not for the
allocator's own holder when the mutex was passed, which the property leaves out
for that reason. What a step does to the stacks is one of three things, `Topped`
(the innermost call goes on, and may make a call), `Popped` and `Pushed`; each
keeps the locks in order by one lemma, and of the actions only `LookAgain`,
`Constructed`, `Scheduled`, `Destroy` and `Destroyed` say more.

`TrackersApart` needs two more (`ApartInv`), since each host locks a mutex of its
own and no lock keeps their turns apart from the allocator's. `CallsFit` says
which call makes which, frame by frame. `GivenFit` says that a call which has been
given the allocator (a host at `schedule`, an `operator new` inside the allocator)
came by one that is there and that nobody is making (`Settled`); and what is
settled stays so, because a thread that would make the allocator again finds it
there after its lock.

### Ordered statics, registries and dispatchers

`RegistriesAndFieldsProofs`, for any modules, longevities, locals, class
hierarchy, sets to register, callbacks and typelists, and any number of
operations of main:

| Theorem | Statement |
| --- | --- |
| `NeedsOutlive` | `Spec => OutlivedByNeeds` |
| `RegistriesAlwaysMatchLife` | `Spec => []RegistriesMatchLife` |
| `DispatchAlwaysSound` | `Spec => []DispatchSound` |

Assumptions: `OrderedStaticsAssumption` (longevities fit in an unsigned, a local
is a static or none), `ClassesAssumption` (the parents of a class are classes)
and `NoneItsOwnParent` (no class is derived from itself), with which classes may
have any number of parents and share bases, `CreatorsAssumption` and
`NoCallbackAssumption` (what stands for the absence of a creator or of an
adapter is none), and `RegistriesAssumption`: what modules and main register is
of classes that exist, a callback names who added it, and the typelists are not
empty and pass their `static_assert`s.

`StaticsInv` is about life alone. What `createObjects` has passed is there
(`Passing`), where `Passed` compares with both loop variables, since creators
register more while the loop runs and what they register may lie before it, and
is then never made; where the least longevity is 0 the unsigned variable
wraps, the loop never ends and exit is not reached. The queue is
sorted (`Sorted`), and that alone does not say that a static dies before what
outlives it, unless those were all made (`Leaving`, with `Registered`: loading is
over). `NeedsOutlive` follows at a creation from `Passing`, at a destruction from
`Leaving`.

`RegistriesInv` relates the registries to `alive`. `Associated` is per class: a
creator is that of a module that is there and registers the class; since
`try_emplace` keeps the first, and a set unregisters whatever it finds, nothing
stronger than *some* module holds where two share a class, and the exact
statement is for classes that one module alone registers. That it survives the
destruction of a module needs from `StaticsInv` that a module is there at most
once by then. `Entry` is per pair of classes, and says of both dispatchers
together that they have adapters of one callback, the same way round, of
somebody who is there. Removal in the destructor takes out both directions of
the module's callback, so it is enough for `Entry` that no other pair can hold it.

`DispatchersAgree` follows from `Entry`. `StaticDispatchNearest` is about
`MpSort`, for which the prover has no induction: a lemma shows that two
functions which satisfy its equation agree on every list, by the shortest list
on which they would not (`SortsAgree`), and that there is one (`SortsExist`), so
that the definition is what it says (`MpSortIs`). That no type comes before one
that is derived from it (`MpSortSorts`) is again about the shortest list: the
types on the left of the head are no bases of it, those on its right are, and a
base of one of these would be a base of the head. So the first type in the
sorted list that is a base of an object's class has no other such type derived
from it (`FirstBaseNearest`); were there one, it would come first. That the two
are not bases of each other (`NotEachOthersBase`) is where the hierarchy must
have no cycle. The `static_assert` on the last type then gives every object of
it a type to be found, and the exchange under `symmetric` is a comparison of two
positions (`DispatchedMirrored`).

### Bit fields and checked returns

In `RegistriesAndFieldsProofs` too, though neither component says anything of the
other (as with `Node` above, the theorems of each carry the other's constants),
for words of any width and any number of fields, kinds, places and values:

| Theorem | Statement |
| --- | --- |
| `FieldsAreSetsAlways` | `CheckedSpec => []FieldsAreSets` |
| `OneAlwaysCarriesTheDuty` | `CheckedSpec => []OneCarriesTheDuty` |

Assumptions: `WidthAssumption` (a word has a bit), `KindAssumption` (no field's kind
is that of conditions) and, for the duty, nothing.

`FieldsAreSets` needs only that words and labels agree in fields (`FieldInv`) and
in values on their way (`ReturnInv`), with their kinds; the work is in the
operators. `Number` reads a set from the senior bit on; lemmas about its passes
show that it is less than the word's limit, that shifting it right drops the
junior labels and shifting left moves all up and drops those past the end, and
that `BitsOf` reads it back. From there `|`, `&`, `^`, `~`, equality and order are
those of sets.

That at most one copy has the duty is not inductive: that a copy of the
unchecked object leaves one unchecked needs that no other object of the chain
could have been the one that was copied. `DutyInv` says so of objects that were
not copied, which in a chain that did not fork are one; that what was copied was
looked at makes the two agree.

### Only model-checked

* Liveness, which is out of the prover's reach: `OrphansDie`, `DiesAtExit`,
  `CallsReturn`, `StaticsCreated`.
* That the failing runs fail: a counterexample is its own proof.

## 5. Not modelled, and why

* The allocator's destructor: it runs when the program ends and clients are
  gone. Array operators of the small-object classes, which do not compile.
* What a `new_handler` that calls `ClearExtraMemory` from within the vector's own
  `reserve` trims: the pool that allocates then has neither an empty chunk nor
  spare capacity, so that only other pools change, as they also do between
  operations. The locks it takes are in `SharedSingletons`.
* In `SharedSingletons`, what the allocator does inside its critical section:
  `AllocatorOneAtATime` says that it is one, and `SmallObjAllocator` has its
  operations as single steps. Under the repository's own `Mutex`, which locks
  nothing, neither holds, nor does anything else about threads.
* Checking policies of `SmartPtr` other than `RejectNullStrict`, storage
  policies other than the default, conversions between pointer types, output.
  `Unique`, `NoCopy` and `DeepCopy` pointers share nothing, `COMRefCounted`
  leaves the count to the object. Most of `RefCountedMT` is commented out.
* A count that cannot be allocated: the constructor of the ownership policy
  throws before anything has changed.
* Two threads that use one smart pointer, which is a data race in the client.
* `Merge` of `StrongPtr`, the statements of `RefLinkedBase::Merge` again;
  checking policies of `StrongPtr` that throw; `LockableTwoRefCounts`, which
  cannot be instantiated; `ResetAll` called for a pointer that is a member of
  an object, or from within an object's destructor. A weak `StrongPtr` used as a
  key in an ordered container changes its place when its object dies.
* `exit` while other threads run, or called from within a constructor or
  destructor; a constructor that asks for its own singleton, which recurses
  without end (or, with a real mutex, waits for itself); `SetLongevity` of
  objects that are not singletons; `FollowIntoDeath` over lifetimes other than
  the default one; a `malloc` of `CreateUsingMalloc` or an `atexit` that fails;
  a reference that another thread obtained before `ScheduleDestruction` failed
  and took the object back.
* `SetLongevity` has one list of trackers for all holders, and each holder locks
  its own mutex: two hosts queued at once race for it. `TrackersApart` says only
  what does hold, of the allocator's own turn.
* In a build without `ATEXIT_FIXED` a phoenix, and a deletable singleton, made
  again after their turn are left alive at exit, since `ScheduleDestruction`
  does not call `atexit` for them any more; `DiesAtExit` excepts them. The class
  comment of `DeletableSingleton` (`Singleton.h:413-416`) promises automatic
  deletion without that exception.
* What happens after a follower is made when its master's followers have had their
  turn: it is pushed onto a deleted vector (`Singleton.h:646` deletes it, and `Init`
  does not make another), and the model follows behaviours up to there.
* `OrderedStatic` with constructor arguments, which does not compile. With a
  longevity of 0 `createObjects` does not end (the unsigned variable wraps);
  `StaticsCreated` excepts it.
* `AbstractFactory` and `Visitor`: composition at compile time and virtual calls,
  without state. `FnDispatcher::Remove` takes out one direction of a symmetric
  callback, which the modules of `Registries` know; a symmetric `Add` of a
  callback whose parameters have one class stores it with its arguments
  exchanged, which `DispatchersAgree` allows, since the classes are the same.
* Of `SafeBits`, what compiles across kinds although it looks as if it should not
  (conditions made from fields, integers on the left of a comparison) changes no
  field, and `FieldsAreSets` says so. A chain `(a |= x) |= y` leaves `y` out: the
  first operator returns a copy, which `CompoundAssign` has beside the field.
* `CheckReturn.h:61` says that `ThrowTheValue` throws the value; out of a
  destructor, it ends the program, and that is modelled.
* Class hierarchies with ambiguous or private bases, where a cast to a base that
  `std::is_base_of` admits fails or does not compile.
* Everything else the inventory lists under types and templates, and the thread
  pool of the tests, which cannot be built here.

## 6. Plan

Every safety property, action property and refinement that the passing runs
check is proved. The order in which the project was built is that of section 2.
What would extend it:

1. `Merge` of `StrongPtr`, and `StrongPtr`s with checking policies that throw.
2. The race of two hosts for the one list of trackers (`SetLongevity`), as a
   model of what `AtExitFn` then finds.
3. `Visitor` and `HierarchyGenerators` keep no state; a definition of their
   lookup over `Classes` could be checked against the typelists as
   `StaticDispatcher` is.
