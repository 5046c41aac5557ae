--------------------------- MODULE LifetimesProofs ---------------------------
(***************************************************************************)
(* Theorems about Lifetimes.tla, for any singletons, longevities, followers *)
(* and bounds.                                                              *)
(***************************************************************************)
EXTENDS Lifetimes, FiniteSetTheorems, SequenceTheorems, WellFoundedInduction, TLAPS

-----------------------------------------------------------------------------
(* The inductive invariant *)

FramesUnique(stack) ==
  \A i, j \in DOMAIN stack :
    stack[i].op = stack[j].op /\ stack[i].of = stack[j].of => i = j

\* Calls on the stack are of singletons in the state the call is for.
FramesFit ==
  /\ FramesUnique(calls)
  /\ \A s \in Singleton : Within("make", s) => s \notin pInstance /\ s \notin destroyed
  /\ \A s \in Singleton : Within("destroy", s) => s \in pInstance

\* Outside of SetLongevity and FollowIntoDeath.
TurnsFit ==
  /\ \A s \in Default \cup Master :
       Times(DestroySingleton(s)) = IF Lives(s) THEN 1 ELSE 0
  /\ \A s \in Phoenix :
       Times(DestroySingleton(s)) <= IF Lives(s) THEN 1 ELSE 0
  /\ \A s \in Deletable : Lives(s) <=> s \notin isDead

Before(born, s, u) ==
  \/ Longevity[s] > Longevity[u]
  \/ Longevity[s] = Longevity[u] /\ born[s] < born[u]

TrackersFit ==
  /\ Times(AtExitFn) = Len(trackers)
  /\ \A s \in Longevous : Lives(s) <=> \E i \in DOMAIN trackers : trackers[i] = s
  /\ \A s \in Longevous : Lives(s) => bornAt[s] < births
  /\ \A i, j \in DOMAIN trackers : i < j => Before(bornAt, trackers[i], trackers[j])

\* Lives, of given instances and calls.
LivesAt(there, stack, s) == s \in there /\ ~Has(stack, "destroy", s)

\* The followers that DestroyFollowers has still to call.
Ahead(stack, m, i) ==
  \A k \in DOMAIN stack : stack[k].op = "followers" /\ stack[k].of = m => stack[k].at < i

FollowersFit ==
  ~broken =>
    \A m \in Master :
      /\ Within("followers", m) => list[m] # "deleted"
      /\ \A i \in DOMAIN followers[m] : MasterOf[followers[m][i]] = m
      /\ list[m] # "deleted" =>
           \A i \in DOMAIN followers[m] : Ahead(calls, m, i) =>
             /\ Lives(followers[m][i])
             /\ \A j \in DOMAIN followers[m] :
                  Ahead(calls, m, j) /\ followers[m][i] = followers[m][j] => i = j

IInv == TypeOK /\ FramesFit /\ TurnsFit /\ TrackersFit /\ FollowersFit

-----------------------------------------------------------------------------
(* Lemmas about policies, stacks, and sequences *)

LEMMA PoliciesDisjoint ==
  /\ Default \cap Phoenix = {} /\ Default \cap Deletable = {}
  /\ Default \cap Longevous = {} /\ Default \cap NoDestroy = {}
  /\ Default \cap Master = {} /\ Default \cap Follower = {}
  /\ Phoenix \cap Deletable = {} /\ Phoenix \cap Longevous = {}
  /\ Phoenix \cap NoDestroy = {} /\ Phoenix \cap Master = {}
  /\ Phoenix \cap Follower = {} /\ Deletable \cap Longevous = {}
  /\ Deletable \cap NoDestroy = {} /\ Deletable \cap Master = {}
  /\ Deletable \cap Follower = {} /\ Longevous \cap NoDestroy = {}
  /\ Longevous \cap Master = {} /\ Longevous \cap Follower = {}
  /\ NoDestroy \cap Master = {} /\ NoDestroy \cap Follower = {}
  /\ Master \cap Follower = {}
<1> DEFINE P == <<Default, Phoenix, Deletable, Longevous, NoDestroy, Master, Follower>>
<1>1. DOMAIN P = 1..7
  OBVIOUS
<1>2. \A i, j \in 1..7 : i # j => P[i] \cap P[j] = {}
  BY <1>1, OnePolicyAssumption
<1>3. /\ P[1] = Default /\ P[2] = Phoenix /\ P[3] = Deletable /\ P[4] = Longevous
      /\ P[5] = NoDestroy /\ P[6] = Master /\ P[7] = Follower
  OBVIOUS
<1> HIDE DEF P
<1>4. \A i, j \in 1..7 : i < j => P[i] \cap P[j] = {}
  BY <1>2
<1> QED
  BY <1>3, <1>4

\* Every set of naturals that is not empty has a least element.
LEMMA LeastNatural ==
  ASSUME NEW T, T \subseteq Nat, T # {}
  PROVE  \E x \in T : \A y \in T : x <= y
<1> DEFINE R == OpToRel(<, Nat)
<1>1. IsWellFoundedOn(R, Nat)
  BY NatLessThanWellFounded
<1>2. \A x, y \in Nat : x < y => <<x, y>> \in R
  BY DEF OpToRel
<1> HIDE DEF R
<1>3. PICK x \in T : \A y \in T : ~(<<y, x>> \in R)
  BY <1>1, WFMin
<1>4. ASSUME NEW y \in T PROVE x <= y
  <2>1. x \in Nat /\ y \in Nat
    OBVIOUS
  <2>2. ~(y < x)
    BY <1>2, <1>3, <2>1, Zenon
  <2> QED
    BY <2>1, <2>2
<1> QED
  BY <1>4

LEMMA WithoutLast ==
  ASSUME NEW S, NEW seq \in Seq(S), seq # <<>>
  PROVE  /\ Len(seq) \in Nat \ {0}
         /\ seq[Len(seq)] \in S
         /\ Without(seq) \in Seq(S)
         /\ Len(Without(seq)) = Len(seq) - 1
         /\ DOMAIN Without(seq) = 1..(Len(seq) - 1)
         /\ \A i \in 1..(Len(seq) - 1) : Without(seq)[i] = seq[i]
<1>1. Len(seq) \in Nat /\ Len(seq) # 0 /\ DOMAIN seq = 1..Len(seq)
  OBVIOUS
<1>2. Len(seq) \in DOMAIN seq
  BY <1>1
<1>3. seq[Len(seq)] \in S
  BY <1>2, ElementOfSeq
<1>4. \A i \in 1..(Len(seq) - 1) : seq[i] \in S
  BY <1>1, ElementOfSeq
<1>5. /\ Without(seq) \in Seq(S)
      /\ Len(Without(seq)) = Len(seq) - 1
      /\ \A i \in 1..(Len(seq) - 1) : Without(seq)[i] = seq[i]
  BY <1>1, <1>4 DEF Without
<1>6. DOMAIN Without(seq) = 1..Len(Without(seq))
  BY <1>5, LenProperties
<1> QED
  BY <1>1, <1>3, <1>5, <1>6

LEMMA CountIsNat ==
  ASSUME NEW S, NEW seq \in Seq(S), NEW e
  PROVE  /\ IsFiniteSet({i \in DOMAIN seq : seq[i] = e})
         /\ CountOf(seq, e) \in Nat
<1>1. DOMAIN seq = 1..Len(seq) /\ Len(seq) \in Nat
  OBVIOUS
<1>2. IsFiniteSet(1..Len(seq))
  BY <1>1, FS_Interval
<1>3. IsFiniteSet({i \in DOMAIN seq : seq[i] = e})
  BY <1>1, <1>2, FS_Subset
<1> QED
  BY <1>3, FS_CardinalityType DEF CountOf

LEMMA CountAppend ==
  ASSUME NEW S, NEW seq \in Seq(S), NEW d \in S, NEW e
  PROVE  CountOf(Append(seq, d), e) = CountOf(seq, e) + IF d = e THEN 1 ELSE 0
<1> DEFINE I == {i \in DOMAIN seq : seq[i] = e}
           J == {i \in DOMAIN Append(seq, d) : Append(seq, d)[i] = e}
           n == Len(seq) + 1
<1>1. IsFiniteSet(I) /\ CountOf(seq, e) \in Nat
  BY CountIsNat
<1>2. CountOf(seq, e) = Cardinality(I) /\ CountOf(Append(seq, d), e) = Cardinality(J)
  BY DEF CountOf
<1>3. n \notin I
  OBVIOUS
<1>4. J = IF d = e THEN I \cup {n} ELSE I
  OBVIOUS
<1>5. IsFiniteSet(I) => Cardinality(I \cup {n}) = IF n \in I THEN Cardinality(I) ELSE Cardinality(I) + 1
  BY FS_AddElement
<1> HIDE DEF I, J, n
<1> QED
  BY <1>1, <1>2, <1>3, <1>4, <1>5

LEMMA CountWithout ==
  ASSUME NEW S, NEW seq \in Seq(S), seq # <<>>, NEW e
  PROVE  CountOf(Without(seq), e) =
           CountOf(seq, e) - IF seq[Len(seq)] = e THEN 1 ELSE 0
<1> DEFINE d == seq[Len(seq)]
<1>1. Without(seq) \in Seq(S) /\ d \in S
  BY WithoutLast
<1>2. seq = Append(Without(seq), d)
  BY DEF Without
<1> HIDE DEF d
<1>3. CountOf(Append(Without(seq), d), e) =
        CountOf(Without(seq), e) + IF d = e THEN 1 ELSE 0
  BY <1>1, CountAppend
<1>4. CountOf(Without(seq), e) \in Nat
  BY <1>1, CountIsNat
<1>5. CountOf(seq, e) = CountOf(Without(seq), e) + IF d = e THEN 1 ELSE 0
  BY <1>2, <1>3
<1>6. CountOf(Without(seq), e) = CountOf(seq, e) - IF d = e THEN 1 ELSE 0
  BY <1>4, <1>5
<1> QED
  BY <1>6 DEF d

LEMMA CountPositive ==
  ASSUME NEW S, NEW seq \in Seq(S), NEW i \in DOMAIN seq
  PROVE  CountOf(seq, seq[i]) >= 1
<1> DEFINE I == {j \in DOMAIN seq : seq[j] = seq[i]}
<1>1. IsFiniteSet(I) /\ CountOf(seq, seq[i]) \in Nat
  BY CountIsNat
<1>2. i \in I /\ CountOf(seq, seq[i]) = Cardinality(I)
  BY DEF CountOf
<1> HIDE DEF I
<1>3. Cardinality(I) # 0
  BY <1>1, <1>2, FS_EmptySet
<1> QED
  BY <1>1, <1>2, <1>3

\* A sequence without repetition has each of its elements once.
LEMMA CountDistinct ==
  ASSUME NEW S, NEW seq \in Seq(S), NEW e,
         \A i, j \in DOMAIN seq : seq[i] = seq[j] => i = j
  PROVE  CountOf(seq, e) = IF \E i \in DOMAIN seq : seq[i] = e THEN 1 ELSE 0
<1> DEFINE I == {i \in DOMAIN seq : seq[i] = e}
<1>1. CASE \E i \in DOMAIN seq : seq[i] = e
  <2>1. PICK i \in DOMAIN seq : seq[i] = e
    BY <1>1
  <2>2. I = {i}
    BY <2>1
  <2>3. Cardinality({i}) = 1
    BY FS_Singleton
  <2> QED
    BY <1>1, <2>2, <2>3 DEF CountOf
<1>2. CASE ~\E i \in DOMAIN seq : seq[i] = e
  <2>1. I = {}
    BY <1>2
  <2> QED
    BY <1>2, <2>1, FS_EmptySet DEF CountOf
<1> QED
  BY <1>1, <1>2

LEMMA Push ==
  ASSUME NEW stack \in Seq(Frame), NEW c \in Frame, FramesUnique(stack),
         ~Has(stack, c.op, c.of)
  PROVE  /\ Append(stack, c) \in Seq(Frame)
         /\ FramesUnique(Append(stack, c))
         /\ \A op, s : Has(Append(stack, c), op, s) <=>
                         Has(stack, op, s) \/ (c.op = op /\ c.of = s)
         /\ \A m, i : Ahead(Append(stack, c), m, i) <=>
              /\ Ahead(stack, m, i)
              /\ c.op = "followers" /\ c.of = m => c.at < i
<1> DEFINE n == Len(stack) + 1
           new == Append(stack, c)
<1>1. /\ new \in Seq(Frame)
      /\ DOMAIN new = DOMAIN stack \cup {n}
      /\ n \notin DOMAIN stack
      /\ new[n] = c
      /\ \A i \in DOMAIN stack : new[i] = stack[i]
  OBVIOUS
<1> HIDE DEF n, new
<1>2. FramesUnique(new)
  BY <1>1 DEF FramesUnique, Has
<1>3. \A op, s : Has(new, op, s) <=> Has(stack, op, s) \/ (c.op = op /\ c.of = s)
  BY <1>1 DEF Has
<1>4. \A m, i : Ahead(new, m, i) <=>
        Ahead(stack, m, i) /\ (c.op = "followers" /\ c.of = m => c.at < i)
  BY <1>1 DEF Ahead
<1> QED
  BY <1>1, <1>2, <1>3, <1>4 DEF new

LEMMA Pop ==
  ASSUME NEW stack \in Seq(Frame), stack # <<>>, FramesUnique(stack)
  PROVE  /\ Without(stack) \in Seq(Frame)
         /\ FramesUnique(Without(stack))
         /\ \A op, s : Has(Without(stack), op, s) <=>
              /\ Has(stack, op, s)
              /\ ~(stack[Len(stack)].op = op /\ stack[Len(stack)].of = s)
         /\ \A m, i : Ahead(stack, m, i) <=>
              /\ Ahead(Without(stack), m, i)
              /\ stack[Len(stack)].op = "followers" /\ stack[Len(stack)].of = m
                   => stack[Len(stack)].at < i
<1> DEFINE n == Len(stack)
           old == Without(stack)
<1>1. /\ n \in Nat \ {0}
      /\ old \in Seq(Frame)
      /\ DOMAIN old = 1..(n - 1)
      /\ \A i \in 1..(n - 1) : old[i] = stack[i]
  BY WithoutLast
<1>2. DOMAIN stack = 1..n
  OBVIOUS
<1> HIDE DEF n, old
<1>3. /\ DOMAIN stack = DOMAIN old \cup {n}
      /\ n \in DOMAIN stack
      /\ n \notin DOMAIN old
      /\ \A i \in DOMAIN old : old[i] = stack[i]
  BY <1>1, <1>2
<1>4. FramesUnique(old)
  BY <1>3 DEF FramesUnique
<1>5. \A op, s : Has(old, op, s) <=>
        Has(stack, op, s) /\ ~(stack[n].op = op /\ stack[n].of = s)
  BY <1>3 DEF FramesUnique, Has
<1>6. \A m, i : Ahead(stack, m, i) <=>
        /\ Ahead(old, m, i)
        /\ stack[n].op = "followers" /\ stack[n].of = m => stack[n].at < i
  BY <1>3 DEF Ahead
<1> QED
  BY <1>1, <1>4, <1>5, <1>6 DEF n, old

LEMMA EmptyStack ==
  /\ <<>> \in Seq(Frame)
  /\ FramesUnique(<<>>)
  /\ \A op, s : ~Has(<<>>, op, s)
  /\ \A m, i : Ahead(<<>>, m, i)
BY DEF FramesUnique, Has, Ahead

LEMMA FirstCall ==
  ASSUME NEW c \in Frame
  PROVE  /\ <<c>> \in Seq(Frame)
         /\ FramesUnique(<<c>>)
         /\ \A op, s : Has(<<c>>, op, s) <=> c.op = op /\ c.of = s
         /\ \A m, i : Ahead(<<c>>, m, i) <=>
                        (c.op = "followers" /\ c.of = m => c.at < i)
<1>1. <<c>> = Append(<<>>, c)
  OBVIOUS
<1>2. /\ Append(<<>>, c) \in Seq(Frame)
      /\ FramesUnique(Append(<<>>, c))
      /\ \A op, s : Has(Append(<<>>, c), op, s) <=>
                      Has(<<>>, op, s) \/ (c.op = op /\ c.of = s)
      /\ \A m, i : Ahead(Append(<<>>, c), m, i) <=>
           Ahead(<<>>, m, i) /\ (c.op = "followers" /\ c.of = m => c.at < i)
  BY EmptyStack, Push
<1> QED
  BY <1>1, <1>2, EmptyStack

LEMMA CallIsFrame ==
  ASSUME NEW op \in {"make", "destroy", "followers"}, NEW s \in Singleton
  PROVE  /\ Call(op, s) \in Frame
         /\ Call(op, s).op = op /\ Call(op, s).of = s /\ Call(op, s).at = 0
BY DEF Call, Frame

\* What it means for a call to be the innermost.
LEMMA RunsFacts ==
  ASSUME calls \in Seq(Frame), NEW op, NEW s, Runs(op, s)
  PROVE  /\ calls # <<>>
         /\ Innermost \in Frame /\ Innermost = calls[Len(calls)]
         /\ Innermost.op = op /\ Innermost.of = s
         /\ Has(calls, op, s)
<1>1. calls # <<>> /\ Innermost.op = op /\ Innermost.of = s
  BY DEF Runs
<1>2. Innermost \in Frame /\ Len(calls) \in Nat \ {0}
  BY <1>1, WithoutLast DEF Innermost
<1>3. Len(calls) \in DOMAIN calls
  BY <1>2
<1> QED
  BY <1>1, <1>2, <1>3 DEF Innermost, Has

-----------------------------------------------------------------------------
(* The queue of trackers *)

LEMMA InsertedAt ==
  ASSUME trackers \in Seq(Longevous), NEW s \in Longevous, NEW i \in 0..Len(trackers)
  PROVE  /\ Inserted(s, i) \in Seq(Longevous)
         /\ Len(Inserted(s, i)) = Len(trackers) + 1
         /\ DOMAIN Inserted(s, i) = 1..(Len(trackers) + 1)
         /\ \A j \in 1..i : Inserted(s, i)[j] = trackers[j]
         /\ Inserted(s, i)[i + 1] = s
         /\ \A j \in (i + 2)..(Len(trackers) + 1) : Inserted(s, i)[j] = trackers[j - 1]
<1> DEFINE n == Len(trackers)
           front == SubSeq(trackers, 1, i)
           back == SubSeq(trackers, i + 1, n)
<1>1. n \in Nat /\ i \in Nat /\ i <= n
  OBVIOUS
<1>2. \A j \in 1..n : trackers[j] \in Longevous
  BY ElementOfSeq
<1>3. /\ front \in Seq(Longevous)
      /\ Len(front) = i
      /\ \A j \in 1..i : front[j] = trackers[j]
  BY <1>1, <1>2
<1>4. /\ back \in Seq(Longevous)
      /\ Len(back) = n - i
      /\ \A j \in 1..(n - i) : back[j] = trackers[i + j]
  BY <1>1, <1>2
<1>5. Inserted(s, i) = front \o <<s>> \o back
  BY DEF Inserted
<1> HIDE DEF n, front, back
<1>6. /\ front \o <<s>> \in Seq(Longevous)
      /\ Len(front \o <<s>>) = i + 1
      /\ \A j \in 1..i : (front \o <<s>>)[j] = trackers[j]
      /\ (front \o <<s>>)[i + 1] = s
  BY <1>1, <1>3
<1> DEFINE start == front \o <<s>>
<1> HIDE DEF start
<1>7. /\ start \o back \in Seq(Longevous)
      /\ Len(start \o back) = n + 1
      /\ \A j \in 1..(i + 1) : (start \o back)[j] = start[j]
      /\ \A j \in (i + 2)..(n + 1) : (start \o back)[j] = back[j - (i + 1)]
  BY <1>1, <1>4, <1>6 DEF start
<1>8. \A j \in (i + 2)..(n + 1) : back[j - (i + 1)] = trackers[j - 1]
  BY <1>1, <1>4
<1> QED
  BY <1>1, <1>5, <1>6, <1>7, <1>8 DEF start, n

\* While the queue is sorted, the search in it finds a place.
LEMMA UpperBoundFound ==
  ASSUME trackers \in Seq(Longevous), NEW l \in Nat,
         \A i, j \in DOMAIN trackers :
           i < j => Longevity[trackers[i]] >= Longevity[trackers[j]]
  PROVE  /\ UpperBound(l) \in 0..Len(trackers)
         /\ \A j \in 1..UpperBound(l) : Longevity[trackers[j]] >= l
         /\ \A j \in (UpperBound(l) + 1)..Len(trackers) : Longevity[trackers[j]] < l
<1> DEFINE n == Len(trackers)
           Long(j) == Longevity[trackers[j]]
           Place(i) == /\ \A j \in 1..i : Long(j) >= l
                       /\ \A j \in (i + 1)..n : Long(j) < l
           T == {j \in 1..n : Long(j) < l}
<1>1. n \in Nat /\ DOMAIN trackers = 1..n
  OBVIOUS
<1>2. \A j \in 1..n : Long(j) \in Nat
  <2>1. \A j \in 1..n : trackers[j] \in Longevous
    BY ElementOfSeq
  <2> QED
    BY <2>1, LifetimesAssumption
<1>3. \A i, j \in 1..n : i < j => Long(i) >= Long(j)
  BY <1>1
<1> HIDE DEF n, Long
<1>4. \E i \in 0..n : Place(i)
  <2>1. CASE T = {}
    <3>1. \A j \in 1..n : Long(j) >= l
      BY <1>2, <2>1
    <3>2. Place(n)
      BY <1>1, <3>1
    <3> QED
      BY <1>1, <3>2
  <2>2. CASE T # {}
    <3>1. PICK k \in T : \A y \in T : k <= y
      <4>1. T \subseteq Nat
        OBVIOUS
      <4> QED
        BY <2>2, <4>1, LeastNatural
    <3>2. k \in 1..n /\ Long(k) < l
      BY <3>1
    <3>3. \A j \in 1..(k - 1) : Long(j) >= l
      BY <1>1, <1>2, <3>1, <3>2
    <3>4. \A j \in k..n : Long(j) < l
      BY <1>1, <1>2, <1>3, <3>2
    <3>5. Place(k - 1)
      BY <3>2, <3>3, <3>4
    <3>6. k - 1 \in 0..n
      BY <1>1, <3>2
    <3> HIDE DEF Place
    <3> QED
      BY <3>5, <3>6
  <2> QED
    BY <2>1, <2>2
<1>5. UpperBound(l) = CHOOSE i \in 0..n : Place(i)
  BY DEF UpperBound, n, Long
<1> HIDE DEF Place
<1>6. UpperBound(l) \in 0..n /\ Place(UpperBound(l))
  BY <1>4, <1>5
<1> QED
  BY <1>6 DEF Place, Long, n

-----------------------------------------------------------------------------
(* What each action does to the invariant *)

LEMMA InitIInv == Init => IInv
<1> SUFFICES ASSUME Init PROVE IInv
  OBVIOUS
<1> USE DEF Init
<1>1. TypeOK
  <2>1. trackers \in Seq(Longevous) /\ exits \in Seq(ExitFn) /\ calls \in Seq(Frame)
    OBVIOUS
  <2>2. followers \in [Master -> Seq(Follower)]
    OBVIOUS
  <2>3. made \in 0..MaxMade /\ births \in Nat /\ bornAt \in [Longevous -> Nat]
    BY LifetimesAssumption
  <2>4. /\ list \in [Master -> {"none", "there", "deleted"}]
        /\ uses \in [Singleton -> SUBSET Singleton]
    OBVIOUS
  <2> QED
    BY <2>1, <2>2, <2>3, <2>4 DEF TypeOK
<1>2. \A op, s : ~Has(calls, op, s)
  BY EmptyStack
<1>3. FramesFit
  BY <1>2, EmptyStack DEF FramesFit, Within
<1>4. \A s : ~Lives(s)
  BY DEF Lives
<1>5. \A f : Times(f) = 0
  BY FS_EmptySet DEF Times, CountOf
<1>6. TurnsFit
  BY <1>4, <1>5 DEF TurnsFit
<1>7. TrackersFit
  BY <1>4, <1>5 DEF TrackersFit
<1>8. FollowersFit
  BY <1>2 DEF FollowersFit, Within
<1> QED
  BY <1>1, <1>3, <1>6, <1>7, <1>8 DEF IInv

\* A step that changes neither what lives nor what is scheduled.
LEMMA Unscheduled ==
  ASSUME IInv,
         UNCHANGED <<isDead, trackers, births, bornAt, death, exits, broken>>,
         \A s \in Singleton : s \in pInstance' /\ ~Has(calls', "destroy", s) <=>
                              s \in pInstance /\ ~Has(calls, "destroy", s),
         \A m \in Master : Has(calls', "followers", m) <=> Has(calls, "followers", m),
         \A m, i : Ahead(calls', m, i) <=> Ahead(calls, m, i)
  PROVE  TurnsFit' /\ TrackersFit' /\ FollowersFit'
<1> USE DEF IInv
<1>1. TurnsFit'
  BY DEF TurnsFit, Lives, Dying, Within, Times, Singleton
<1>2. TrackersFit'
  BY DEF TrackersFit, Lives, Dying, Within, Times, Singleton, Before
<1>3. FollowersFit'
  <2>1. \A m \in Master : \A i \in DOMAIN followers[m] : followers[m][i] \in Singleton
    BY ElementOfSeq DEF TypeOK, Singleton
  <2>2. death' = death => list' = list /\ followers' = followers
    BY DEF death
  <2> QED
    BY <2>1, <2>2 DEF FollowersFit, Lives, Dying, Within
<1> QED
  BY <1>1, <1>2, <1>3

LEMMA InstanceThereStep ==
  ASSUME IInv, NEW s \in Singleton, InstanceThere(s)
  PROVE  IInv'
<1> USE DEF IInv
<1>1. TypeOK'
  <2>1. uses' \in [Singleton -> SUBSET Singleton]
    BY DEF InstanceThere, Obtained, TypeOK
  <2> QED
    BY <2>1 DEF InstanceThere, TypeOK, phoenix, deletable, death
<1>2. FramesFit'
  BY DEF InstanceThere, FramesFit, Within
<1>3. TurnsFit' /\ TrackersFit' /\ FollowersFit'
  BY Unscheduled DEF InstanceThere, deletable
<1> QED
  BY <1>1, <1>2, <1>3

LEMMA DeadReferenceStep ==
  ASSUME IInv, NEW s \in Singleton, DeadReference(s)
  PROVE  IInv'
<1> USE DEF IInv
<1>1. TypeOK'
  BY DEF DeadReference, TypeOK, phoenix, deletable, death
<1>2. FramesFit'
  BY DEF DeadReference, FramesFit, Within
<1>3. TurnsFit' /\ TrackersFit' /\ FollowersFit'
  BY Unscheduled DEF DeadReference, deletable
<1> QED
  BY <1>1, <1>2, <1>3

LEMMA ExitStep == IInv /\ Exit => IInv'
<1> SUFFICES ASSUME IInv, Exit PROVE IInv'
  OBVIOUS
<1> USE DEF IInv
<1>1. TypeOK'
  BY DEF Exit, TypeOK, holder, phoenix, deletable, death
<1>2. FramesFit'
  BY DEF Exit, FramesFit, Within, holder
<1>3. TurnsFit' /\ TrackersFit' /\ FollowersFit'
  BY Unscheduled DEF Exit, deletable, holder
<1> QED
  BY <1>1, <1>2, <1>3

LEMMA MakeInstanceStep ==
  ASSUME IInv, NEW s \in Singleton, MakeInstance(s)
  PROVE  IInv'
<1> USE DEF IInv
<1> DEFINE c == Call("make", s)
<1>1. /\ c \in Frame /\ c.op = "make" /\ c.of = s
  BY CallIsFrame
<1>2. calls \in Seq(Frame) /\ FramesUnique(calls) /\ ~Has(calls, "make", s)
  BY DEF MakeInstance, TypeOK, FramesFit, Within
<1>3. calls' = Append(calls, c)
  BY DEF MakeInstance
<1> HIDE DEF c
<1>4. /\ calls' \in Seq(Frame)
      /\ FramesUnique(calls')
      /\ \A op, u : Has(calls', op, u) <=> Has(calls, op, u) \/ (op = "make" /\ u = s)
      /\ \A m, i : Ahead(calls', m, i) <=> Ahead(calls, m, i)
  BY <1>1, <1>2, <1>3, Push
<1>5. TypeOK'
  BY <1>4, LifetimesAssumption DEF MakeInstance, TypeOK, deletable, death
<1>6. FramesFit'
  BY <1>4 DEF MakeInstance, FramesFit, Within
<1>7. TurnsFit' /\ TrackersFit' /\ FollowersFit'
  BY <1>4, Unscheduled DEF MakeInstance, deletable
<1> QED
  BY <1>5, <1>6, <1>7

LEMMA ConstructorThrowsStep ==
  ASSUME IInv, NEW s \in Singleton, ConstructorThrows(s)
  PROVE  IInv'
<1> USE DEF IInv
<1>1. calls \in Seq(Frame) /\ FramesUnique(calls)
  BY DEF TypeOK, FramesFit
<1>2. /\ calls # <<>> /\ calls[Len(calls)].op = "make" /\ calls[Len(calls)].of = s
  BY <1>1, RunsFacts DEF ConstructorThrows
<1>3. calls' = Without(calls)
  BY DEF ConstructorThrows
<1>4. /\ calls' \in Seq(Frame)
      /\ FramesUnique(calls')
      /\ \A op, u : Has(calls', op, u) <=> Has(calls, op, u) /\ ~(op = "make" /\ u = s)
      /\ \A m, i : Ahead(calls', m, i) <=> Ahead(calls, m, i)
  BY <1>1, <1>2, <1>3, Pop
<1>5. TypeOK'
  BY <1>4 DEF ConstructorThrows, TypeOK, phoenix, deletable, death
<1>6. FramesFit'
  BY <1>4 DEF ConstructorThrows, FramesFit, Within
<1>7. TurnsFit' /\ TrackersFit' /\ FollowersFit'
  BY <1>4, Unscheduled DEF ConstructorThrows, deletable
<1> QED
  BY <1>5, <1>6, <1>7

LEMMA InstanceDestroyedStep ==
  ASSUME IInv, NEW s \in Singleton, InstanceDestroyed(s)
  PROVE  IInv'
<1> USE DEF IInv
<1>1. calls \in Seq(Frame) /\ FramesUnique(calls)
  BY DEF TypeOK, FramesFit
<1>2. /\ calls # <<>> /\ calls[Len(calls)].op = "destroy" /\ calls[Len(calls)].of = s
      /\ Has(calls, "destroy", s)
  BY <1>1, RunsFacts DEF InstanceDestroyed
<1>3. calls' = Without(calls)
  BY DEF InstanceDestroyed
<1>4. /\ calls' \in Seq(Frame)
      /\ FramesUnique(calls')
      /\ \A op, u : Has(calls', op, u) <=> Has(calls, op, u) /\ ~(op = "destroy" /\ u = s)
      /\ \A m, i : Ahead(calls', m, i) <=> Ahead(calls, m, i)
  BY <1>1, <1>2, <1>3, Pop
<1>5. TypeOK'
  BY <1>4 DEF InstanceDestroyed, TypeOK, phoenix, deletable, death
<1>6. FramesFit'
  BY <1>2, <1>4 DEF InstanceDestroyed, FramesFit, Within
<1>7. TurnsFit' /\ TrackersFit' /\ FollowersFit'
  BY <1>2, <1>4, Unscheduled DEF InstanceDestroyed, deletable
<1> QED
  BY <1>5, <1>6, <1>7

LEMMA ExitFnsDiffer ==
  /\ \A s, u : DestroySingleton(s) = DestroySingleton(u) => s = u
  /\ \A s, u : DestroySingleton(s) # DestroyFollowers(u)
  /\ \A s, u : DestroySingleton(s) # AtexitCallback(u)
  /\ \A s : DestroySingleton(s) # AtExitFn
  /\ \A s : DestroyFollowers(s) # AtExitFn
  /\ \A s : AtexitCallback(s) # AtExitFn
  /\ \A s : DestroySingleton(s) \in ExitFn => s \in Default \cup Phoenix \cup Master
  /\ \A s : AtexitCallback(s) \in ExitFn => s \in Deletable
  /\ \A m : DestroyFollowers(m) \in ExitFn => m \in Master
<1>1. /\ \A s, u : DestroySingleton(s) = DestroySingleton(u) => s = u
      /\ \A s, u : DestroyFollowers(s) = DestroyFollowers(u) => s = u
      /\ \A s, u : AtexitCallback(s) = AtexitCallback(u) => s = u
  <2>1. /\ \A s : DestroySingleton(s).of = s
        /\ \A s : DestroyFollowers(s).of = s
        /\ \A s : AtexitCallback(s).of = s
    BY DEF DestroySingleton, DestroyFollowers, AtexitCallback
  <2> QED
    BY <2>1
<1>2. /\ \A s, u : DestroySingleton(s) # DestroyFollowers(u)
      /\ \A s, u : DestroySingleton(s) # AtexitCallback(u)
      /\ \A s, u : DestroyFollowers(s) # AtexitCallback(u)
      /\ \A s : DestroySingleton(s) # AtExitFn
      /\ \A s : DestroyFollowers(s) # AtExitFn
      /\ \A s : AtexitCallback(s) # AtExitFn
  <2>1. /\ \A s : DestroySingleton(s).call = "DestroySingleton"
        /\ \A s : DestroyFollowers(s).call = "DestroyFollowers"
        /\ \A s : AtexitCallback(s).call = "atexitCallback"
        /\ AtExitFn.call = "AtExitFn"
    BY DEF DestroySingleton, DestroyFollowers, AtexitCallback, AtExitFn
  <2> QED
    BY <2>1
<1> QED
  BY <1>1, <1>2 DEF ExitFn

LEMMA ExitTurn ==
  ASSUME IInv, NEW f, Exiting(f)
  PROVE  /\ calls = <<>> /\ f \in ExitFn
         /\ exits' \in Seq(ExitFn)
         /\ Times(f) >= 1
         /\ \A e : CountOf(exits, e) \in Nat
         /\ \A e : CountOf(exits', e) = CountOf(exits, e) - IF f = e THEN 1 ELSE 0
<1>1. exits \in Seq(ExitFn)
  BY DEF IInv, TypeOK
<1>2. /\ calls = <<>> /\ exits # <<>> /\ f = exits[Len(exits)]
      /\ exits' = Without(exits)
  BY DEF Exiting
<1>3. f \in ExitFn /\ exits' \in Seq(ExitFn)
  BY <1>1, <1>2, WithoutLast
<1>4. \A e : CountOf(exits', e) = CountOf(exits, e) - IF f = e THEN 1 ELSE 0
  BY <1>1, <1>2, CountWithout
<1>5. Len(exits) \in DOMAIN exits
  BY <1>1, <1>2
<1>6. Times(f) >= 1
  BY <1>1, <1>2, <1>5, CountPositive DEF Times
<1>7. \A e : CountOf(exits, e) \in Nat
  BY <1>1, CountIsNat
<1> QED
  BY <1>2, <1>3, <1>4, <1>6, <1>7

\* The destructor of s, which lives, is called next.
LEMMA Doomed ==
  ASSUME IInv, NEW s \in Singleton, Lives(s), UNCHANGED <<pInstance, destroyed>>,
         FramesUnique(calls'),
         \A op, u : Has(calls', op, u) <=>
                      Has(calls, op, u) \/ (op = "destroy" /\ u = s)
  PROVE  /\ FramesFit'
         /\ \A u : Lives(u)' <=> Lives(u) /\ u # s
<1>1. FramesFit'
  BY DEF IInv, FramesFit, Within, Lives
<1>2. \A u : Lives(u)' <=> Lives(u) /\ u # s
  BY DEF Lives, Dying, Within
<1> QED
  BY <1>1, <1>2

\* What this leaves alone, when s is no follower and the vectors stay.
LEMMA DoomedFollowers ==
  ASSUME IInv, NEW s \in Singleton \ Follower,
         UNCHANGED <<list, followers, broken>>,
         \A u : Lives(u)' <=> Lives(u) /\ u # s,
         \A m : Has(calls', "followers", m) <=> Has(calls, "followers", m),
         \A m, i : Ahead(calls', m, i) <=> Ahead(calls, m, i)
  PROVE  FollowersFit'
<1>1. \A m \in Master : \A i \in DOMAIN followers[m] : followers[m][i] \in Follower
  BY ElementOfSeq DEF IInv, TypeOK
<1>2. \A m \in Master : \A i \in DOMAIN followers[m] : followers[m][i] # s
  BY <1>1
<1> QED
  BY <1>2 DEF IInv, FollowersFit, Within

LEMMA GracefulDeleteStep ==
  ASSUME IInv, NEW s \in Singleton, GracefulDelete(s)
  PROVE  IInv'
<1> USE DEF IInv
<1> DEFINE c == Call("destroy", s)
<1>1. /\ c \in Frame /\ c.op = "destroy" /\ c.of = s
  BY CallIsFrame
<1>2. s \in Deletable \ isDead /\ Lives(s)
  BY DEF GracefulDelete, TurnsFit
<1>3. calls \in Seq(Frame) /\ FramesUnique(calls) /\ ~Has(calls, "destroy", s)
  BY <1>2 DEF TypeOK, FramesFit, Lives, Dying, Within
<1>4. calls' = Append(calls, c)
  BY DEF GracefulDelete
<1> HIDE DEF c
<1>5. /\ calls' \in Seq(Frame)
      /\ FramesUnique(calls')
      /\ \A op, u : Has(calls', op, u) <=> Has(calls, op, u) \/ (op = "destroy" /\ u = s)
      /\ \A m, i : Ahead(calls', m, i) <=> Ahead(calls, m, i)
  BY <1>1, <1>3, <1>4, Push
<1>6. TypeOK'
  BY <1>2, <1>5 DEF GracefulDelete, TypeOK, holder, phoenix, death
<1>7. /\ FramesFit'
      /\ \A u : Lives(u)' <=> Lives(u) /\ u # s
  BY <1>2, <1>5, Doomed DEF GracefulDelete, holder
<1>8. TurnsFit'
  BY <1>2, <1>7, PoliciesDisjoint DEF GracefulDelete, TurnsFit, Times
<1>9. TrackersFit'
  BY <1>2, <1>7, PoliciesDisjoint
     DEF GracefulDelete, TrackersFit, Times, Before, holder
<1>10. FollowersFit'
  BY <1>2, <1>5, <1>7, DoomedFollowers, PoliciesDisjoint DEF GracefulDelete, death
<1> QED
  BY <1>6, <1>7, <1>8, <1>9, <1>10

LEMMA RunDestroySingletonStep ==
  ASSUME IInv, NEW s \in Singleton, RunDestroySingleton(s)
  PROVE  IInv'
<1> USE DEF IInv
<1> DEFINE c == Call("destroy", s)
<1>1. /\ c \in Frame /\ c.op = "destroy" /\ c.of = s
  BY CallIsFrame
<1>2. Exiting(DestroySingleton(s)) /\ calls' = <<c>>
  BY DEF RunDestroySingleton
<1> HIDE DEF c
<1>3. /\ calls = <<>> /\ DestroySingleton(s) \in ExitFn
      /\ exits' \in Seq(ExitFn)
      /\ Times(DestroySingleton(s)) >= 1
      /\ \A e : CountOf(exits, e) \in Nat
      /\ \A e : CountOf(exits', e) =
                  CountOf(exits, e) - IF DestroySingleton(s) = e THEN 1 ELSE 0
  BY <1>2, ExitTurn
<1>4. s \in Default \cup Phoenix \cup Master
  BY <1>3, ExitFnsDiffer
<1>5. Lives(s) /\ Times(DestroySingleton(s)) = 1
  BY <1>3, <1>4 DEF TurnsFit, Times
<1>6. /\ calls' \in Seq(Frame)
      /\ FramesUnique(calls')
      /\ \A op, u : Has(calls', op, u) <=> Has(calls, op, u) \/ (op = "destroy" /\ u = s)
      /\ \A m, i : Ahead(calls', m, i) <=> Ahead(calls, m, i)
  BY <1>1, <1>2, <1>3, FirstCall, EmptyStack
<1>7. TypeOK'
  BY <1>3, <1>6 DEF RunDestroySingleton, Exiting, TypeOK, holder, phoenix
<1>8. /\ FramesFit'
      /\ \A u : Lives(u)' <=> Lives(u) /\ u # s
  BY <1>2, <1>5, <1>6, Doomed DEF Exiting, holder
<1>9. TurnsFit'
  <2>1. isDead' = isDead
    BY DEF RunDestroySingleton
  <2>2. \A u : CountOf(exits', DestroySingleton(u)) =
               CountOf(exits, DestroySingleton(u)) - IF u = s THEN 1 ELSE 0
    BY <1>3, ExitFnsDiffer
  <2> QED
    BY <1>3, <1>4, <1>5, <1>8, <2>1, <2>2, PoliciesDisjoint DEF TurnsFit, Times
<1>10. TrackersFit'
  <2>1. CountOf(exits', AtExitFn) = CountOf(exits, AtExitFn)
    BY <1>3, ExitFnsDiffer
  <2> QED
    BY <1>2, <1>4, <1>8, <2>1, PoliciesDisjoint
       DEF TrackersFit, Times, Before, RunDestroySingleton, Exiting, holder
<1>11. FollowersFit'
  BY <1>2, <1>4, <1>6, <1>8, DoomedFollowers, PoliciesDisjoint
     DEF RunDestroySingleton, Exiting
<1> QED
  BY <1>7, <1>8, <1>9, <1>10, <1>11

LEMMA RunAtexitCallbackStep ==
  ASSUME IInv, NEW s \in Singleton, RunAtexitCallback(s)
  PROVE  IInv'
<1> USE DEF IInv
<1> DEFINE c == Call("destroy", s)
<1>1. /\ c \in Frame /\ c.op = "destroy" /\ c.of = s
  BY CallIsFrame
<1>2. Exiting(AtexitCallback(s)) /\ calls' = IF s \in isDead THEN <<>> ELSE <<c>>
  BY DEF RunAtexitCallback
<1> HIDE DEF c
<1>3. /\ calls = <<>> /\ AtexitCallback(s) \in ExitFn
      /\ exits' \in Seq(ExitFn)
      /\ \A e : CountOf(exits, e) \in Nat
      /\ \A e : CountOf(exits', e) =
                  CountOf(exits, e) - IF AtexitCallback(s) = e THEN 1 ELSE 0
  BY <1>2, ExitTurn
<1>4. s \in Deletable
  BY <1>3, ExitFnsDiffer
<1>5. /\ \A u : CountOf(exits', DestroySingleton(u)) = CountOf(exits, DestroySingleton(u))
      /\ CountOf(exits', AtExitFn) = CountOf(exits, AtExitFn)
  BY <1>3, ExitFnsDiffer
<1>6. calls' \in Seq(Frame)
  BY <1>1, <1>2, FirstCall, EmptyStack
<1>7. TypeOK'
  BY <1>3, <1>4, <1>6 DEF RunAtexitCallback, Exiting, TypeOK, holder, phoenix
<1>8. CASE s \in isDead
  <2>1. calls' = calls
    BY <1>2, <1>3, <1>8
  <2>2. isDead' = isDead
    BY <1>8 DEF RunAtexitCallback
  <2>3. FramesFit'
    BY <2>1 DEF FramesFit, Within, RunAtexitCallback, Exiting, holder
  <2>4. \A u : Lives(u)' <=> Lives(u)
    BY <2>1 DEF Lives, Dying, Within, RunAtexitCallback, Exiting, holder
  <2>5. TurnsFit'
    BY <1>5, <2>2, <2>4 DEF TurnsFit, Times
  <2>6. TrackersFit'
    BY <1>5, <2>4
       DEF TrackersFit, Times, Before, RunAtexitCallback, Exiting, holder
  <2>7. FollowersFit'
    BY <2>1, <2>4 DEF FollowersFit, Within, RunAtexitCallback, Exiting
  <2> QED
    BY <1>7, <2>3, <2>5, <2>6, <2>7
<1>9. CASE s \notin isDead
  <2>1. Lives(s)
    BY <1>4, <1>9 DEF TurnsFit
  <2>2. calls' = <<c>>
    BY <1>2, <1>9
  <2>3. /\ FramesUnique(calls')
        /\ \A op, u : Has(calls', op, u) <=> Has(calls, op, u) \/ (op = "destroy" /\ u = s)
        /\ \A m, i : Ahead(calls', m, i) <=> Ahead(calls, m, i)
    BY <1>1, <1>3, <2>2, FirstCall, EmptyStack
  <2>4. /\ FramesFit'
        /\ \A u : Lives(u)' <=> Lives(u) /\ u # s
    BY <1>2, <2>1, <2>3, Doomed DEF Exiting, holder
  <2>5. TurnsFit'
    <3>1. isDead' = isDead \cup {s}
      BY DEF RunAtexitCallback
    <3> QED
      BY <1>4, <1>5, <2>1, <2>4, <3>1, PoliciesDisjoint DEF TurnsFit, Times
  <2>6. TrackersFit'
    BY <1>4, <1>5, <2>4, PoliciesDisjoint
       DEF TrackersFit, Times, Before, RunAtexitCallback, Exiting, holder
  <2>7. FollowersFit'
    BY <1>4, <2>3, <2>4, DoomedFollowers, PoliciesDisjoint
       DEF RunAtexitCallback, Exiting
  <2> QED
    BY <1>7, <2>4, <2>5, <2>6, <2>7
<1> QED
  BY <1>8, <1>9

LEMMA TrackersDistinct ==
  ASSUME IInv
  PROVE  /\ \A i \in DOMAIN trackers : trackers[i] \in Longevous
         /\ \A i, j \in DOMAIN trackers : trackers[i] = trackers[j] => i = j
<1>1. \A i \in DOMAIN trackers : trackers[i] \in Longevous
  BY ElementOfSeq DEF IInv, TypeOK
<1>2. \A s \in Longevous : Longevity[s] \in Nat /\ bornAt[s] \in Nat
  BY LifetimesAssumption DEF IInv, TypeOK
<1>3. \A s \in Longevous : ~Before(bornAt, s, s)
  BY <1>2 DEF Before
<1>4. \A i, j \in DOMAIN trackers : i < j => Before(bornAt, trackers[i], trackers[j])
  BY DEF IInv, TrackersFit
<1>5. \A i \in DOMAIN trackers : i \in Nat
  BY DEF IInv, TypeOK
<1>6. ASSUME NEW i \in DOMAIN trackers, NEW j \in DOMAIN trackers,
             trackers[i] = trackers[j], i # j
      PROVE  FALSE
  <2>1. i < j \/ j < i
    BY <1>5, <1>6
  <2>2. Before(bornAt, trackers[i], trackers[i])
    BY <1>4, <1>6, <2>1
  <2> QED
    BY <1>1, <1>3, <2>2
<1> QED
  BY <1>1, <1>6

\* AtExitFn is called only while there is a tracker, as it asserts.
LEMMA TrackerWaits ==
  ASSUME IInv, Exiting(AtExitFn)
  PROVE  /\ trackers # <<>>
         /\ Len(trackers) \in DOMAIN trackers
         /\ trackers[Len(trackers)] \in Longevous
         /\ Lives(trackers[Len(trackers)])
<1>1. Times(AtExitFn) >= 1
  BY ExitTurn
<1>2. Len(trackers) >= 1 /\ trackers \in Seq(Longevous)
  BY <1>1 DEF IInv, TypeOK, TrackersFit
<1>3. trackers # <<>> /\ Len(trackers) \in DOMAIN trackers
  BY <1>2
<1>4. trackers[Len(trackers)] \in Longevous
  BY <1>3, TrackersDistinct
<1> QED
  BY <1>3, <1>4 DEF IInv, TrackersFit

LEMMA RunAtExitFnStep == IInv /\ RunAtExitFn => IInv'
<1> SUFFICES ASSUME IInv, RunAtExitFn PROVE IInv'
  OBVIOUS
<1> USE DEF IInv
<1> DEFINE n == Len(trackers)
           s == trackers[n]
           c == Call("destroy", s)
<1>1. Exiting(AtExitFn) /\ calls' = <<c>> /\ trackers' = Without(trackers)
  BY DEF RunAtExitFn
<1>2. /\ trackers # <<>> /\ n \in DOMAIN trackers /\ s \in Longevous /\ Lives(s)
  BY <1>1, TrackerWaits
<1>3. s \in Singleton
  BY <1>2 DEF Singleton
<1>4. /\ c \in Frame /\ c.op = "destroy" /\ c.of = s
  BY <1>3, CallIsFrame
<1>5. /\ n \in Nat \ {0}
      /\ trackers' \in Seq(Longevous)
      /\ Len(trackers') = n - 1
      /\ DOMAIN trackers' = 1..(n - 1)
      /\ \A i \in 1..(n - 1) : trackers'[i] = trackers[i]
  BY <1>1, <1>2, WithoutLast DEF TypeOK
<1>6. DOMAIN trackers = 1..n
  BY DEF TypeOK
<1> HIDE DEF n, c
<1>7. /\ calls = <<>>
      /\ exits' \in Seq(ExitFn)
      /\ \A e : CountOf(exits, e) \in Nat
      /\ \A e : CountOf(exits', e) = CountOf(exits, e) - IF AtExitFn = e THEN 1 ELSE 0
  BY <1>1, ExitTurn
<1>8. /\ calls' \in Seq(Frame)
      /\ FramesUnique(calls')
      /\ \A op, u : Has(calls', op, u) <=> Has(calls, op, u) \/ (op = "destroy" /\ u = s)
      /\ \A m, i : Ahead(calls', m, i) <=> Ahead(calls, m, i)
  BY <1>1, <1>4, <1>7, FirstCall, EmptyStack
<1>9. TypeOK'
  BY <1>5, <1>7, <1>8 DEF RunAtExitFn, Exiting, TypeOK, holder, phoenix
<1>10. /\ FramesFit'
       /\ \A u : Lives(u)' <=> Lives(u) /\ u # s
  BY <1>1, <1>2, <1>3, <1>8, Doomed DEF Exiting, holder
<1>11. TurnsFit'
  <2>1. isDead' = isDead
    BY DEF RunAtExitFn
  <2>2. \A u : CountOf(exits', DestroySingleton(u)) = CountOf(exits, DestroySingleton(u))
    BY <1>7, ExitFnsDiffer
  <2> QED
    BY <1>2, <1>10, <2>1, <2>2, PoliciesDisjoint DEF TurnsFit, Times
<1>12. TrackersFit'
  <2>1. CountOf(exits', AtExitFn) = Len(trackers')
    BY <1>5, <1>7 DEF TrackersFit, Times, n
  <2>2. bornAt' = bornAt /\ births' = births
    BY DEF RunAtExitFn, Exiting, holder
  <2>3. \A u \in Longevous : Lives(u)' <=> \E i \in DOMAIN trackers' : trackers'[i] = u
    <3>1. \A u \in Longevous : Lives(u) <=> \E i \in DOMAIN trackers : trackers[i] = u
      BY DEF TrackersFit
    <3>2. \A i \in DOMAIN trackers : trackers[i] = s <=> i = n
      BY <1>2, TrackersDistinct
    <3> HIDE DEF s
    <3> QED
      BY <1>5, <1>6, <1>10, <3>1, <3>2
  <2>4. \A i, j \in DOMAIN trackers' : i < j => Before(bornAt', trackers'[i], trackers'[j])
    BY <1>5, <1>6, <2>2 DEF TrackersFit, Before
  <2> QED
    BY <1>10, <2>1, <2>2, <2>3, <2>4 DEF TrackersFit, Times
<1>13. FollowersFit'
  <2>1. s \in Singleton \ Follower
    BY <1>2, <1>3, PoliciesDisjoint
  <2> HIDE DEF s
  <2> QED
    BY <1>8, <1>10, <2>1, DoomedFollowers DEF RunAtExitFn, Exiting
<1> QED
  BY <1>9, <1>10, <1>11, <1>12, <1>13

LEMMA RunDestroyFollowersStep ==
  ASSUME IInv, NEW m \in Master, RunDestroyFollowers(m)
  PROVE  IInv'
<1> USE DEF IInv
<1> DEFINE c == Call("followers", m)
<1>1. m \in Singleton
  BY DEF Singleton
<1>2. c \in Frame /\ c.op = "followers" /\ c.of = m
  BY <1>1, CallIsFrame
<1>3. Exiting(DestroyFollowers(m)) /\ calls' = <<c>>
  BY DEF RunDestroyFollowers
<1> HIDE DEF c
<1>4. /\ calls = <<>>
      /\ exits' \in Seq(ExitFn)
      /\ \A e : CountOf(exits, e) \in Nat
      /\ \A e : CountOf(exits', e) =
                  CountOf(exits, e) - IF DestroyFollowers(m) = e THEN 1 ELSE 0
  BY <1>3, ExitTurn
<1>5. /\ \A u : CountOf(exits', DestroySingleton(u)) = CountOf(exits, DestroySingleton(u))
      /\ CountOf(exits', AtExitFn) = CountOf(exits, AtExitFn)
  BY <1>4, ExitFnsDiffer
<1>6. /\ calls' \in Seq(Frame)
      /\ FramesUnique(calls')
      /\ \A op, u : Has(calls', op, u) <=> op = "followers" /\ u = m
      /\ \A op, u : ~Has(calls, op, u)
      /\ \A u, i : Ahead(calls, u, i)
  BY <1>2, <1>3, <1>4, FirstCall, EmptyStack
<1>7. TypeOK'
  BY <1>4, <1>6 DEF RunDestroyFollowers, Exiting, TypeOK, holder, phoenix
<1>8. FramesFit'
  BY <1>6 DEF FramesFit, Within, Exiting, RunDestroyFollowers, holder
<1>9. \A u : Lives(u)' <=> Lives(u)
  BY <1>3, <1>6 DEF Lives, Dying, Within, Exiting, holder
<1>10. TurnsFit'
  BY <1>5, <1>9 DEF TurnsFit, Times, RunDestroyFollowers
<1>11. TrackersFit'
  BY <1>5, <1>9 DEF TrackersFit, Times, Before, RunDestroyFollowers, Exiting, holder
<1>12. FollowersFit'
  <2>1. /\ followers' = followers /\ list' = list
        /\ ~broken' => ~broken /\ list[m] # "deleted"
    BY DEF RunDestroyFollowers, Exiting
  <2> QED
    BY <1>6, <1>9, <2>1 DEF FollowersFit, Within
<1> QED
  BY <1>7, <1>8, <1>10, <1>11, <1>12

LEMMA FollowersDoneStep ==
  ASSUME IInv, NEW m \in Master, FollowersDone(m)
  PROVE  IInv'
<1> USE DEF IInv
<1>1. calls \in Seq(Frame) /\ FramesUnique(calls)
  BY DEF TypeOK, FramesFit
<1>2. /\ calls # <<>> /\ calls[Len(calls)].op = "followers" /\ calls[Len(calls)].of = m
  BY <1>1, RunsFacts DEF FollowersDone
<1>3. calls' = Without(calls)
  BY DEF FollowersDone
<1>4. /\ calls' \in Seq(Frame)
      /\ FramesUnique(calls')
      /\ \A op, u : Has(calls', op, u) <=> Has(calls, op, u) /\ ~(op = "followers" /\ u = m)
      /\ \A u, i : u # m => (Ahead(calls', u, i) <=> Ahead(calls, u, i))
  BY <1>1, <1>2, <1>3, Pop
<1>5. TypeOK'
  BY <1>4 DEF FollowersDone, TypeOK, holder, phoenix, deletable
<1>6. FramesFit'
  BY <1>4 DEF FollowersDone, FramesFit, Within, holder
<1>7. \A u : Lives(u)' <=> Lives(u)
  BY <1>4 DEF Lives, Dying, Within, FollowersDone, holder
<1>8. TurnsFit'
  BY <1>7 DEF TurnsFit, Times, FollowersDone, deletable
<1>9. TrackersFit'
  BY <1>7 DEF TrackersFit, Times, Before, FollowersDone, holder
<1>10. FollowersFit'
  <2>1. /\ followers' = followers /\ broken' = broken
        /\ list'[m] = "deleted"
        /\ \A u \in Master \ {m} : list'[u] = list[u]
    BY DEF FollowersDone, TypeOK
  <2>2. ~Has(calls', "followers", m)
    BY <1>4
  <2>3. \A u : u # m => (Has(calls', "followers", u) <=> Has(calls, "followers", u))
    BY <1>4
  <2> QED
    BY <1>4, <1>7, <2>1, <2>2, <2>3 DEF FollowersFit, Within
<1> QED
  BY <1>5, <1>6, <1>8, <1>9, <1>10

LEMMA NextFollowerStep ==
  ASSUME IInv, NEW m \in Master, NextFollower(m)
  PROVE  IInv'
<1> USE DEF IInv
<1> DEFINE i == Innermost.at + 1
           old == Without(calls)
           walk == [Innermost EXCEPT !.at = i]
           f == followers[m][i]
           c == Call("destroy", f)
<1>1. calls \in Seq(Frame) /\ FramesUnique(calls) /\ ~broken
  BY DEF TypeOK, FramesFit, NextFollower
<1>2. /\ calls # <<>>
      /\ Innermost \in Frame /\ Innermost = calls[Len(calls)]
      /\ Innermost.op = "followers" /\ Innermost.of = m
      /\ Has(calls, "followers", m)
  BY <1>1, RunsFacts DEF NextFollower
<1>3. /\ i \in Nat /\ i \in DOMAIN followers[m]
      /\ f \in Follower /\ f \in Singleton
  <2>1. Innermost.at \in Nat /\ followers[m] \in Seq(Follower)
    BY <1>2 DEF Frame, TypeOK
  <2>2. Innermost.at < Len(followers[m])
    BY DEF NextFollower
  <2>3. i \in Nat /\ i \in DOMAIN followers[m]
    BY <2>1, <2>2
  <2> HIDE DEF i
  <2>4. f \in Follower
    BY <2>1, <2>3, ElementOfSeq
  <2> QED
    BY <2>3, <2>4 DEF Singleton
<1>4. /\ walk \in Frame
      /\ walk.op = "followers" /\ walk.of = m /\ walk.at = i
  <2> HIDE DEF i
  <2> QED
    BY <1>2, <1>3 DEF Frame
<1>5. /\ c \in Frame /\ c.op = "destroy" /\ c.of = f
  <2> HIDE DEF f
  <2> QED
    BY <1>3, CallIsFrame
<1>6. calls' = Append(Append(old, walk), c)
  BY DEF NextFollower
<1>7. Innermost.at \in Nat /\ Innermost.at < i
  BY <1>2 DEF Frame
<1> HIDE DEF i, old, walk, f, c
<1>8. /\ old \in Seq(Frame)
      /\ FramesUnique(old)
      /\ \A op, u : Has(old, op, u) <=> Has(calls, op, u) /\ ~(op = "followers" /\ u = m)
      /\ \A u, k : Ahead(calls, u, k) <=>
                     Ahead(old, u, k) /\ (u = m => Innermost.at < k)
  BY <1>1, <1>2, Pop DEF old
<1>9. /\ Append(old, walk) \in Seq(Frame)
      /\ FramesUnique(Append(old, walk))
      /\ \A op, u : Has(Append(old, walk), op, u) <=> Has(calls, op, u)
      /\ \A u, k : Ahead(Append(old, walk), u, k) <=>
                     Ahead(old, u, k) /\ (u = m => i < k)
  <2>1. ~Has(old, walk.op, walk.of)
    BY <1>4, <1>8
  <2>2. /\ Append(old, walk) \in Seq(Frame)
        /\ FramesUnique(Append(old, walk))
        /\ \A op, u : Has(Append(old, walk), op, u) <=>
                        Has(old, op, u) \/ (walk.op = op /\ walk.of = u)
        /\ \A u, k : Ahead(Append(old, walk), u, k) <=>
             Ahead(old, u, k) /\ (walk.op = "followers" /\ walk.of = u => walk.at < k)
    BY <1>4, <1>8, <2>1, Push
  <2> QED
    BY <1>2, <1>4, <1>8, <2>2
<1>10. Ahead(calls, m, i)
  <2>1. ~Has(old, "followers", m)
    BY <1>8
  <2>2. Ahead(old, m, i)
    BY <2>1 DEF Has, Ahead
  <2> QED
    BY <1>7, <1>8, <2>2
<1>11. list[m] # "deleted"
  BY <1>1, <1>2 DEF FollowersFit, Within
<1>12. Lives(f) /\ MasterOf[f] = m
  BY <1>1, <1>3, <1>10, <1>11 DEF FollowersFit, f
<1>13. /\ calls' \in Seq(Frame)
       /\ FramesUnique(calls')
       /\ \A op, u : Has(calls', op, u) <=> Has(calls, op, u) \/ (op = "destroy" /\ u = f)
       /\ \A u, k : Ahead(calls', u, k) <=> Ahead(Append(old, walk), u, k)
  <2>1. ~Has(Append(old, walk), c.op, c.of)
    BY <1>5, <1>9, <1>12 DEF Lives, Dying, Within
  <2> DEFINE s == Append(old, walk)
             a == Append(s, c)
  <2>2. s \in Seq(Frame) /\ FramesUnique(s) /\ ~Has(s, c.op, c.of)
    BY <1>9, <2>1
  <2> HIDE DEF s
  <2>3. /\ a \in Seq(Frame)
        /\ FramesUnique(a)
        /\ \A op, u : Has(a, op, u) <=> Has(s, op, u) \/ (c.op = op /\ c.of = u)
        /\ \A u, k : Ahead(a, u, k) <=>
             Ahead(s, u, k) /\ (c.op = "followers" /\ c.of = u => c.at < k)
    BY <1>5, <2>2, Push
  <2>4. \A op, u : Has(s, op, u) <=> Has(calls, op, u)
    BY <1>9 DEF s
  <2>5. calls' = a /\ c.op = "destroy" /\ c.of = f
    BY <1>5, <1>6 DEF s
  <2> HIDE DEF a
  <2>6. /\ \A op, u : Has(a, op, u) <=> Has(calls, op, u) \/ (op = "destroy" /\ u = f)
        /\ \A u, k : Ahead(a, u, k) <=> Ahead(s, u, k)
    BY <2>3, <2>4, <2>5
  <2> QED
    BY <2>3, <2>5, <2>6 DEF s
<1>14. TypeOK'
  BY <1>13 DEF NextFollower, TypeOK, holder, phoenix, deletable, death
<1>15. /\ FramesFit'
       /\ \A u : Lives(u)' <=> Lives(u) /\ u # f
  BY <1>3, <1>12, <1>13, Doomed DEF NextFollower, holder
<1>16. TurnsFit'
  BY <1>3, <1>15, PoliciesDisjoint DEF NextFollower, TurnsFit, Times, deletable
<1>17. TrackersFit'
  <2>1. /\ trackers' = trackers /\ bornAt' = bornAt /\ births' = births
        /\ exits' = exits
    BY DEF NextFollower, holder
  <2>2. f \notin Longevous
    BY <1>3, PoliciesDisjoint
  <2> QED
    BY <1>15, <2>1, <2>2 DEF TrackersFit, Times, Before
<1>18. FollowersFit'
  <2>1. /\ followers' = followers /\ list' = list /\ broken' = broken
    BY DEF NextFollower, death
  <2>2. \A u : Has(calls', "followers", u) <=> Has(calls, "followers", u)
    BY <1>13
  <2>3. \A u, k : Ahead(calls', u, k) <=> Ahead(old, u, k) /\ (u = m => i < k)
    BY <1>9, <1>13
  <2>4. ASSUME NEW u \in Master, list[u] # "deleted",
               NEW k \in DOMAIN followers[u], Ahead(calls', u, k)
        PROVE  Ahead(calls, u, k) /\ followers[u][k] # f
    <3>1. k \in Nat
      BY DEF TypeOK
    <3>2. Ahead(calls, u, k)
      BY <1>3, <1>7, <1>8, <2>3, <2>4, <3>1
    <3>3. CASE u = m
      <4>1. i # k
        BY <1>3, <2>3, <2>4, <3>1, <3>3
      <4> QED
        BY <1>1, <1>3, <1>10, <1>11, <3>2, <3>3, <4>1 DEF FollowersFit, f
    <3>4. CASE u # m
      <4>1. MasterOf[followers[u][k]] = u
        BY <1>1 DEF FollowersFit
      <4> QED
        BY <1>12, <3>2, <3>4, <4>1
    <3> QED
      BY <3>3, <3>4
  <2> QED
    BY <1>15, <2>1, <2>2, <2>4 DEF FollowersFit, Within
<1> QED
  BY <1>14, <1>15, <1>16, <1>17, <1>18

\* Whatever its policy, s lives from now on.
LEMMA Born ==
  ASSUME IInv, NEW s \in Singleton, InstanceMade(s)
  PROVE  /\ ~broken
         /\ calls' \in Seq(Frame)
         /\ uses' \in [Singleton -> SUBSET Singleton]
         /\ FramesFit'
         /\ ~Lives(s) /\ s \notin destroyed
         /\ \A u : Lives(u)' <=> Lives(u) \/ u = s
         /\ \A m : Has(calls', "followers", m) <=> Has(calls, "followers", m)
         /\ \A m, i : Ahead(calls', m, i) <=> Ahead(calls, m, i)
<1> USE DEF IInv
<1>1. calls \in Seq(Frame) /\ FramesUnique(calls) /\ ~broken
  BY DEF TypeOK, FramesFit, InstanceMade
<1>2. /\ calls # <<>> /\ calls[Len(calls)].op = "make" /\ calls[Len(calls)].of = s
      /\ Has(calls, "make", s)
  BY <1>1, RunsFacts DEF InstanceMade
<1>3. calls' = Without(calls)
  BY DEF InstanceMade
<1>4. /\ calls' \in Seq(Frame)
      /\ FramesUnique(calls')
      /\ \A op, u : Has(calls', op, u) <=> Has(calls, op, u) /\ ~(op = "make" /\ u = s)
      /\ \A m, i : Ahead(calls', m, i) <=> Ahead(calls, m, i)
  BY <1>1, <1>2, <1>3, Pop
<1>5. s \notin pInstance /\ s \notin destroyed /\ ~Has(calls, "destroy", s)
  BY <1>2 DEF FramesFit, Within
<1>6. pInstance' = pInstance \cup {s} /\ destroyed' = destroyed
  BY DEF InstanceMade
<1>7. FramesFit'
  BY <1>4, <1>5, <1>6 DEF FramesFit, Within
<1>8. \A u : Lives(u)' <=> Lives(u) \/ u = s
  BY <1>4, <1>5, <1>6 DEF Lives, Dying, Within
<1>9. uses' \in [Singleton -> SUBSET Singleton]
  BY DEF InstanceMade, Obtained, TypeOK
<1> QED
  BY <1>1, <1>4, <1>5, <1>7, <1>8, <1>9 DEF Lives

LEMMA BornTrackers ==
  ASSUME IInv, NEW s \in Singleton \ Longevous,
         UNCHANGED <<trackers, bornAt, births>>,
         \A u : Lives(u)' <=> Lives(u) \/ u = s,
         CountOf(exits', AtExitFn) = CountOf(exits, AtExitFn)
  PROVE  TrackersFit'
BY DEF IInv, TrackersFit, Times

LEMMA BornFollowers ==
  ASSUME IInv, NEW s \in Singleton,
         UNCHANGED <<followers, broken>>,
         \A m \in Master : list'[m] = "deleted" <=> list[m] = "deleted",
         \A u : Lives(u)' <=> Lives(u) \/ u = s,
         \A m : Has(calls', "followers", m) <=> Has(calls, "followers", m),
         \A m, i : Ahead(calls', m, i) <=> Ahead(calls, m, i)
  PROVE  FollowersFit'
BY DEF IInv, FollowersFit, Within

LEMMA BornTurns ==
  ASSUME IInv, NEW s \in Longevous \cup NoDestroy \cup Follower,
         UNCHANGED isDead,
         \A u : Lives(u)' <=> Lives(u) \/ u = s,
         \A u : CountOf(exits', DestroySingleton(u)) = CountOf(exits, DestroySingleton(u))
  PROVE  TurnsFit'
BY PoliciesDisjoint DEF IInv, TurnsFit, Times

\* One more function on a list.
LEMMA Registered ==
  ASSUME NEW fns \in Seq(ExitFn), NEW g \in ExitFn
  PROVE  /\ Append(fns, g) \in Seq(ExitFn)
         /\ \A e : CountOf(Append(fns, g), e) = CountOf(fns, e) + IF g = e THEN 1 ELSE 0
         /\ \A e : CountOf(fns, e) \in Nat
<1>1. Append(fns, g) \in Seq(ExitFn)
  OBVIOUS
<1>2. \A e : CountOf(Append(fns, g), e) = CountOf(fns, e) + IF g = e THEN 1 ELSE 0
  BY CountAppend
<1>3. \A e : CountOf(fns, e) \in Nat
  BY CountIsNat
<1> QED
  BY <1>1, <1>2, <1>3

\* DestroySingleton(s) is registered.
LEMMA TurnAdded ==
  ASSUME NEW fns \in Seq(ExitFn), NEW s \in Default \cup Phoenix \cup Master
  PROVE  /\ Append(fns, DestroySingleton(s)) \in Seq(ExitFn)
         /\ \A u : CountOf(Append(fns, DestroySingleton(s)), DestroySingleton(u)) =
                   CountOf(fns, DestroySingleton(u)) + IF u = s THEN 1 ELSE 0
         /\ CountOf(Append(fns, DestroySingleton(s)), AtExitFn) = CountOf(fns, AtExitFn)
<1> DEFINE g == DestroySingleton(s)
<1>1. g \in ExitFn
  BY DEF ExitFn
<1>2. \A u : g = DestroySingleton(u) <=> u = s
  BY ExitFnsDiffer
<1>3. g # AtExitFn
  BY ExitFnsDiffer
<1> HIDE DEF g
<1>4. /\ Append(fns, g) \in Seq(ExitFn)
      /\ \A e : CountOf(Append(fns, g), e) = CountOf(fns, e) + IF g = e THEN 1 ELSE 0
      /\ \A e : CountOf(fns, e) \in Nat
  BY <1>1, Registered
<1>5. \A u : CountOf(Append(fns, g), DestroySingleton(u)) =
             CountOf(fns, DestroySingleton(u)) + IF u = s THEN 1 ELSE 0
  BY <1>2, <1>4
<1>6. CountOf(Append(fns, g), AtExitFn) = CountOf(fns, AtExitFn)
  BY <1>3, <1>4
<1> QED
  BY <1>4, <1>5, <1>6 DEF g

LEMMA BornWithTurn ==
  ASSUME IInv, NEW s \in Default \cup Phoenix \cup Master, ~Lives(s),
         UNCHANGED isDead,
         \A u : Lives(u)' <=> Lives(u) \/ u = s,
         \A u : CountOf(exits', DestroySingleton(u)) =
                CountOf(exits, DestroySingleton(u)) + IF u = s THEN 1 ELSE 0
  PROVE  TurnsFit'
<1>1. \A u : CountOf(exits, DestroySingleton(u)) \in Nat
  BY CountIsNat DEF IInv, TypeOK
<1> QED
  BY <1>1, PoliciesDisjoint DEF IInv, TurnsFit, Times

\* SetLongevity keeps the queue sorted, and the queue of all that live.
LEMMA TrackerInserted ==
  ASSUME IInv, NEW s \in Longevous, ~Lives(s),
         trackers' = Inserted(s, UpperBound(Longevity[s])),
         bornAt' = [bornAt EXCEPT ![s] = births],
         \A u : Lives(u)' <=> Lives(u) \/ u = s
  PROVE  /\ trackers' \in Seq(Longevous)
         /\ Len(trackers') = Len(trackers) + 1
         /\ \A u \in Longevous : Lives(u)' <=> \E i \in DOMAIN trackers' : trackers'[i] = u
         /\ \A i, j \in DOMAIN trackers' : i < j => Before(bornAt', trackers'[i], trackers'[j])
<1> DEFINE n == Len(trackers)
           l == Longevity[s]
           p == UpperBound(l)
<1>1. /\ trackers \in Seq(Longevous) /\ n \in Nat /\ DOMAIN trackers = 1..n
      /\ bornAt \in [Longevous -> Nat] /\ births \in Nat
  BY DEF IInv, TypeOK
<1>2. \A u \in Longevous : Longevity[u] \in Nat
  BY LifetimesAssumption
<1>3. /\ \A i \in 1..n : trackers[i] \in Longevous
      /\ \A i, j \in 1..n : i < j => Before(bornAt, trackers[i], trackers[j])
      /\ \A u \in Longevous : Lives(u) <=> \E i \in 1..n : trackers[i] = u
      /\ \A u \in Longevous : Lives(u) => bornAt[u] < births
  BY <1>1, TrackersDistinct DEF IInv, TrackersFit
<1>4. ASSUME NEW i \in DOMAIN trackers, NEW j \in DOMAIN trackers, i < j
      PROVE  Longevity[trackers[i]] >= Longevity[trackers[j]]
  <2>1. trackers[i] \in Longevous /\ trackers[j] \in Longevous
    BY <1>1, <1>3
  <2>2. Before(bornAt, trackers[i], trackers[j])
    BY <1>1, <1>3, <1>4
  <2> QED
    BY <1>2, <2>1, <2>2 DEF Before
<1>5. l \in Nat
  BY <1>2
<1>6. /\ p \in 0..n
      /\ \A j \in 1..p : Longevity[trackers[j]] >= l
      /\ \A j \in (p + 1)..n : Longevity[trackers[j]] < l
  BY <1>1, <1>4, <1>5, UpperBoundFound
<1>7. trackers' = Inserted(s, p)
  OBVIOUS
<1> HIDE DEF n, p
<1>8. /\ trackers' \in Seq(Longevous)
      /\ Len(trackers') = n + 1
      /\ DOMAIN trackers' = 1..(n + 1)
      /\ \A j \in 1..p : trackers'[j] = trackers[j]
      /\ trackers'[p + 1] = s
      /\ \A j \in (p + 2)..(n + 1) : trackers'[j] = trackers[j - 1]
  <2>1. p \in 0..Len(trackers)
    BY <1>6 DEF n
  <2>2. /\ Inserted(s, p) \in Seq(Longevous)
        /\ Len(Inserted(s, p)) = Len(trackers) + 1
        /\ DOMAIN Inserted(s, p) = 1..(Len(trackers) + 1)
        /\ \A j \in 1..p : Inserted(s, p)[j] = trackers[j]
        /\ Inserted(s, p)[p + 1] = s
        /\ \A j \in (p + 2)..(Len(trackers) + 1) : Inserted(s, p)[j] = trackers[j - 1]
    BY <1>1, <2>1, InsertedAt
  <2> QED
    BY <1>7, <2>2 DEF n
\* Where the trackers that were there before are now.
<1>9. \A j \in 1..(n + 1) :
        \/ j = p + 1
        \/ j \in 1..p /\ j \in 1..n /\ trackers'[j] = trackers[j]
        \/ j \in (p + 2)..(n + 1) /\ j - 1 \in (p + 1)..n /\ j - 1 \in 1..n
             /\ trackers'[j] = trackers[j - 1]
  <2>1. TAKE j \in 1..(n + 1)
  <2>2. p \in Nat /\ p <= n
    BY <1>1, <1>6
  <2>3. CASE j <= p
    <3>1. j \in 1..p /\ j \in 1..n
      BY <1>1, <2>2, <2>3
    <3> QED
      BY <1>8, <3>1
  <2>4. CASE j > p + 1
    <3>1. j \in (p + 2)..(n + 1) /\ j - 1 \in (p + 1)..n /\ j - 1 \in 1..n
      BY <1>1, <2>2, <2>4
    <3> QED
      BY <1>8, <3>1
  <2> QED
    BY <1>1, <2>2, <2>3, <2>4
<1>10. \A i \in 1..n : trackers[i] # s /\ bornAt[trackers[i]] < births
  BY <1>3
<1>11. \A u \in Longevous : bornAt'[u] = IF u = s THEN births ELSE bornAt[u]
  BY <1>1
<1>12. \A u \in Longevous : Lives(u)' <=> \E i \in DOMAIN trackers' : trackers'[i] = u
  <2>1. p + 1 \in 1..(n + 1)
    BY <1>1, <1>6
  <2>2. \A i \in 1..n : \E j \in 1..(n + 1) : trackers'[j] = trackers[i]
    <3>1. TAKE i \in 1..n
    <3>2. CASE i <= p
      <4>1. i \in 1..p /\ i \in 1..(n + 1)
        BY <1>1, <1>6, <3>2
      <4> QED
        BY <1>8, <4>1
    <3>3. CASE i > p
      <4>1. i + 1 \in (p + 2)..(n + 1) /\ i + 1 \in 1..(n + 1) /\ (i + 1) - 1 = i
        BY <1>1, <1>6, <3>3
      <4> QED
        BY <1>8, <4>1
    <3> QED
      BY <1>1, <1>6, <3>2, <3>3
  <2>3. \A j \in 1..(n + 1) : trackers'[j] = s \/ \E i \in 1..n : trackers'[j] = trackers[i]
    BY <1>8, <1>9
  <2>4. DOMAIN trackers' = 1..(n + 1) /\ trackers'[p + 1] = s
    BY <1>8
  <2>5. TAKE u \in Longevous
  <2>6. Lives(u)' <=> Lives(u) \/ u = s
    OBVIOUS
  <2>7. Lives(u) <=> \E i \in 1..n : trackers[i] = u
    BY <1>3
  <2> QED
    BY <2>1, <2>2, <2>3, <2>4, <2>6, <2>7
<1>13. ASSUME NEW i \in 1..(n + 1), NEW j \in 1..(n + 1), i < j
       PROVE  Before(bornAt', trackers'[i], trackers'[j])
  <2>1. CASE i = p + 1
    <3>1. j - 1 \in (p + 1)..n /\ j - 1 \in 1..n /\ trackers'[j] = trackers[j - 1]
      <4>1. j # p + 1 /\ ~(j \in 1..p)
        BY <1>1, <1>6, <1>13, <2>1
      <4> QED
        BY <1>9, <4>1
    <3>2. Longevity[trackers[j - 1]] < l /\ l \in Nat /\ trackers[j - 1] \in Longevous
      BY <1>3, <1>5, <1>6, <3>1
    <3>3. trackers'[i] = s
      BY <1>8, <2>1
    <3>4. Longevity[s] > Longevity[trackers[j - 1]]
      BY <1>2, <3>2
    <3> QED
      BY <3>1, <3>3, <3>4 DEF Before
  <2>2. CASE j = p + 1
    <3>1. i \in 1..p /\ i \in 1..n /\ trackers'[i] = trackers[i]
      BY <1>1, <1>6, <1>9, <1>13, <2>2
    <3>2. Longevity[trackers[i]] >= l /\ l \in Nat /\ trackers[i] \in Longevous
      BY <1>3, <1>5, <1>6, <3>1
    <3>3. trackers'[j] = s
      BY <1>8, <2>2
    <3>4. bornAt'[trackers[i]] < bornAt'[s]
      BY <1>10, <1>11, <3>1, <3>2
    <3>5. Longevity[trackers[i]] > Longevity[s] \/ Longevity[trackers[i]] = Longevity[s]
      BY <1>2, <3>2
    <3> QED
      BY <3>1, <3>3, <3>4, <3>5 DEF Before
  <2>3. CASE i # p + 1 /\ j # p + 1
    <3>1. PICK a \in 1..n, b \in 1..n :
            a < b /\ trackers'[i] = trackers[a] /\ trackers'[j] = trackers[b]
      BY <1>1, <1>6, <1>9, <1>13, <2>3
    <3>2. Before(bornAt, trackers[a], trackers[b])
      BY <1>3, <3>1
    <3>3. /\ bornAt'[trackers[a]] = bornAt[trackers[a]]
          /\ bornAt'[trackers[b]] = bornAt[trackers[b]]
      BY <1>3, <1>10, <1>11, <3>1
    <3> QED
      BY <3>1, <3>2, <3>3 DEF Before
  <2> QED
    BY <2>1, <2>2, <2>3
<1> QED
  BY <1>8, <1>12, <1>13 DEF n

LEMMA InstanceMadeStep ==
  ASSUME IInv, NEW s \in Singleton, InstanceMade(s)
  PROVE  IInv'
<1>1. /\ calls' \in Seq(Frame)
      /\ uses' \in [Singleton -> SUBSET Singleton]
      /\ FramesFit'
      /\ ~Lives(s) /\ s \notin destroyed
      /\ \A u : Lives(u)' <=> Lives(u) \/ u = s
      /\ \A m : Has(calls', "followers", m) <=> Has(calls, "followers", m)
      /\ \A m, i : Ahead(calls', m, i) <=> Ahead(calls, m, i)
  BY Born
<1>2. TypeOK /\ exits \in Seq(ExitFn) /\ ~broken
  BY DEF IInv, TypeOK, InstanceMade
<1>3. /\ pInstance' = pInstance \cup {s}
      /\ UNCHANGED <<atexitFixed, destroyed, destroyedOnce, phase, made>>
      /\ s \notin Longevous => UNCHANGED <<births, bornAt>>
      /\ ScheduleDestruction(s)
  BY DEF InstanceMade, phoenix
<1>4. CASE s \in Default
  <2>1. s \notin Longevous
    BY <1>4, PoliciesDisjoint
  <2>2. /\ exits' = Append(exits, DestroySingleton(s))
        /\ UNCHANGED <<deletable, trackers, death, broken>>
    BY <1>3, <1>4, PoliciesDisjoint DEF ScheduleDestruction, ScheduleDefault
  <2>3. /\ exits' \in Seq(ExitFn)
        /\ \A u : CountOf(exits', DestroySingleton(u)) =
                  CountOf(exits, DestroySingleton(u)) + IF u = s THEN 1 ELSE 0
        /\ CountOf(exits', AtExitFn) = CountOf(exits, AtExitFn)
    BY <1>2, <1>4, <2>2, TurnAdded
  <2>4. TypeOK'
    BY <1>1, <1>2, <1>3, <2>1, <2>2, <2>3 DEF TypeOK, deletable, death
  <2>5. TurnsFit'
    BY <1>1, <1>4, <2>2, <2>3, BornWithTurn DEF deletable
  <2>6. TrackersFit'
    BY <1>1, <1>3, <2>1, <2>2, <2>3, BornTrackers
  <2>7. FollowersFit'
    BY <1>1, <2>2, BornFollowers DEF death
  <2> QED
    BY <1>1, <2>4, <2>5, <2>6, <2>7 DEF IInv
<1>5. CASE s \in Phoenix
  <2>1. s \notin Longevous
    BY <1>5, PoliciesDisjoint
  <2>2. /\ exits' = exits \/ exits' = Append(exits, DestroySingleton(s))
        /\ UNCHANGED <<deletable, trackers, death, broken>>
    BY <1>3, <1>5, PoliciesDisjoint DEF ScheduleDestruction, SchedulePhoenix
  <2>3. /\ exits' \in Seq(ExitFn)
        /\ CountOf(exits', AtExitFn) = CountOf(exits, AtExitFn)
    BY <1>2, <1>5, <2>2, TurnAdded
  <2>4. TypeOK'
    BY <1>1, <1>2, <1>3, <2>1, <2>2, <2>3 DEF TypeOK, deletable, death
  <2>5. TurnsFit'
    <3>1. CASE exits' = exits
      <4>1. isDead' = isDead
        BY <2>2 DEF deletable
      <4>2. s \notin Default /\ s \notin Master /\ s \notin Deletable
        BY <1>5, PoliciesDisjoint
      <4>3. CountOf(exits, DestroySingleton(s)) \in Nat
        BY <1>2, CountIsNat
      <4>4. Times(DestroySingleton(s)) <= 0
        BY <1>1, <1>5 DEF IInv, TurnsFit
      <4>5. TurnsFit
        BY DEF IInv
      <4> QED
        BY <1>1, <3>1, <4>1, <4>2, <4>3, <4>4, <4>5 DEF TurnsFit, Times
    <3>2. CASE exits' = Append(exits, DestroySingleton(s))
      <4>1. \A u : CountOf(exits', DestroySingleton(u)) =
                   CountOf(exits, DestroySingleton(u)) + IF u = s THEN 1 ELSE 0
        BY <1>2, <1>5, <3>2, TurnAdded
      <4> QED
        BY <1>1, <1>5, <2>2, <4>1, BornWithTurn DEF deletable
    <3> QED
      BY <2>2, <3>1, <3>2
  <2>6. TrackersFit'
    BY <1>1, <1>3, <2>1, <2>2, <2>3, BornTrackers
  <2>7. FollowersFit'
    BY <1>1, <2>2, BornFollowers DEF death
  <2> QED
    BY <1>1, <2>4, <2>5, <2>6, <2>7 DEF IInv
<1>6. CASE s \in Deletable
  <2>1. s \notin Longevous
    BY <1>6, PoliciesDisjoint
  <2>2. /\ exits' = exits \/ exits' = Append(exits, AtexitCallback(s))
        /\ isDead' = isDead \ {s}
        /\ firstPass' = firstPass \ {s} /\ needCallback' = needCallback \ {s}
        /\ UNCHANGED <<trackers, death, broken>>
    BY <1>3, <1>6, PoliciesDisjoint DEF ScheduleDestruction, ScheduleDeletable
  <2>3. /\ exits' \in Seq(ExitFn)
        /\ \A u : CountOf(exits', DestroySingleton(u)) = CountOf(exits, DestroySingleton(u))
        /\ CountOf(exits', AtExitFn) = CountOf(exits, AtExitFn)
    <3>1. CASE exits' = exits
      BY <1>2, <3>1
    <3>2. CASE exits' = Append(exits, AtexitCallback(s))
      <4> DEFINE g == AtexitCallback(s)
      <4>1. g \in ExitFn
        BY <1>6 DEF ExitFn
      <4>2. g # AtExitFn /\ \A u : g # DestroySingleton(u)
        BY ExitFnsDiffer
      <4>3. exits' = Append(exits, g)
        BY <3>2
      <4> HIDE DEF g
      <4>4. /\ Append(exits, g) \in Seq(ExitFn)
            /\ \A e : CountOf(Append(exits, g), e) = CountOf(exits, e) + IF g = e THEN 1 ELSE 0
            /\ \A e : CountOf(exits, e) \in Nat
        BY <1>2, <4>1, Registered
      <4> QED
        BY <4>2, <4>3, <4>4
    <3> QED
      BY <2>2, <3>1, <3>2
  <2>4. TypeOK'
    BY <1>1, <1>2, <1>3, <2>1, <2>2, <2>3 DEF TypeOK, death
  <2>5. TurnsFit'
    BY <1>1, <1>6, <2>2, <2>3, PoliciesDisjoint DEF IInv, TurnsFit, Times
  <2>6. TrackersFit'
    BY <1>1, <1>3, <2>1, <2>2, <2>3, BornTrackers
  <2>7. FollowersFit'
    BY <1>1, <2>2, BornFollowers DEF death
  <2> QED
    BY <1>1, <2>4, <2>5, <2>6, <2>7 DEF IInv
<1>7. CASE s \in NoDestroy
  <2>1. s \notin Longevous
    BY <1>7, PoliciesDisjoint
  <2>2. UNCHANGED <<exits, deletable, trackers, death, broken>>
    BY <1>3, <1>7, PoliciesDisjoint DEF ScheduleDestruction
  <2>3. TypeOK'
    BY <1>1, <1>2, <1>3, <2>1, <2>2 DEF TypeOK, deletable, death
  <2>4. TurnsFit'
    BY <1>1, <1>7, <2>2, BornTurns DEF deletable
  <2>5. TrackersFit'
    BY <1>1, <1>3, <2>1, <2>2, BornTrackers
  <2>6. FollowersFit'
    BY <1>1, <2>2, BornFollowers DEF death
  <2> QED
    BY <1>1, <2>3, <2>4, <2>5, <2>6 DEF IInv
<1>8. CASE s \in Master
  <2>1. s \notin Longevous
    BY <1>8, PoliciesDisjoint
  <2> DEFINE fns == Append(exits, DestroySingleton(s))
             g == DestroyFollowers(s)
  <2>2. /\ exits' = Append(fns, g)
        /\ list' = [list EXCEPT ![s] = IF @ = "none" THEN "there" ELSE @]
        /\ UNCHANGED <<deletable, trackers, followers, broken>>
    BY <1>3, <1>8, PoliciesDisjoint DEF ScheduleDestruction, ScheduleMaster
  <2>3. /\ fns \in Seq(ExitFn)
        /\ \A u : CountOf(fns, DestroySingleton(u)) =
                  CountOf(exits, DestroySingleton(u)) + IF u = s THEN 1 ELSE 0
        /\ CountOf(fns, AtExitFn) = CountOf(exits, AtExitFn)
    BY <1>2, <1>8, TurnAdded
  <2>4. g \in ExitFn
    BY <1>8 DEF ExitFn
  <2>5. g # AtExitFn /\ \A u : g # DestroySingleton(u)
    BY ExitFnsDiffer
  <2> HIDE DEF fns, g
  <2>6. /\ exits' \in Seq(ExitFn)
        /\ \A e : CountOf(exits', e) = CountOf(fns, e) + IF g = e THEN 1 ELSE 0
        /\ \A e : CountOf(fns, e) \in Nat
    BY <2>2, <2>3, <2>4, Registered
  <2>7. /\ \A u : CountOf(exits', DestroySingleton(u)) = CountOf(fns, DestroySingleton(u))
        /\ CountOf(exits', AtExitFn) = CountOf(fns, AtExitFn)
    BY <2>5, <2>6
  <2>8. TypeOK'
    BY <1>1, <1>2, <1>3, <2>1, <2>2, <2>6 DEF TypeOK, deletable
  <2>9. TurnsFit'
    <3>1. \A u : CountOf(exits', DestroySingleton(u)) =
                 CountOf(exits, DestroySingleton(u)) + IF u = s THEN 1 ELSE 0
      BY <2>3, <2>7
    <3> QED
      BY <1>1, <1>8, <2>2, <3>1, BornWithTurn DEF deletable
  <2>10. TrackersFit'
    BY <1>1, <1>3, <2>1, <2>2, <2>3, <2>7, BornTrackers
  <2>11. FollowersFit'
    <3>1. \A m \in Master : list'[m] = "deleted" <=> list[m] = "deleted"
      BY <1>2, <2>2 DEF TypeOK
    <3> QED
      BY <1>1, <2>2, <3>1, BornFollowers
  <2> QED
    BY <1>1, <2>8, <2>9, <2>10, <2>11 DEF IInv
<1>9. CASE s \in Longevous
  <2>1. /\ trackers' = Inserted(s, UpperBound(Longevity[s]))
        /\ exits' = Append(exits, AtExitFn)
        /\ UNCHANGED <<deletable, death, broken>>
        /\ bornAt' = [bornAt EXCEPT ![s] = births]
        /\ births' = births + 1
    BY <1>3, <1>9, PoliciesDisjoint DEF ScheduleDestruction, SetLongevity, InstanceMade
  <2>2. /\ trackers' \in Seq(Longevous)
        /\ Len(trackers') = Len(trackers) + 1
        /\ \A u \in Longevous : Lives(u)' <=> \E i \in DOMAIN trackers' : trackers'[i] = u
        /\ \A i, j \in DOMAIN trackers' : i < j => Before(bornAt', trackers'[i], trackers'[j])
    BY <1>1, <1>9, <2>1, TrackerInserted
  <2>3. AtExitFn \in ExitFn
    BY DEF ExitFn
  <2>4. /\ exits' \in Seq(ExitFn)
        /\ \A e : CountOf(exits', e) = CountOf(exits, e) + IF AtExitFn = e THEN 1 ELSE 0
        /\ \A e : CountOf(exits, e) \in Nat
    BY <1>2, <2>1, <2>3, Registered
  <2>5. /\ CountOf(exits', AtExitFn) = CountOf(exits, AtExitFn) + 1
        /\ \A u : CountOf(exits', DestroySingleton(u)) = CountOf(exits, DestroySingleton(u))
    BY <2>4, ExitFnsDiffer
  <2>6. bornAt' \in [Longevous -> Nat] /\ births' \in Nat /\ births \in Nat
    <3>1. bornAt \in [Longevous -> Nat] /\ births \in Nat
      BY <1>2 DEF TypeOK
    <3>2. bornAt' = [bornAt EXCEPT ![s] = births] /\ births' = births + 1
      BY <2>1
    <3> QED
      BY <1>9, <3>1, <3>2
  <2>7. TypeOK'
    BY <1>1, <1>2, <1>3, <2>1, <2>2, <2>4, <2>6 DEF TypeOK, deletable, death
  <2>8. TurnsFit'
    BY <1>1, <1>9, <2>1, <2>5, BornTurns DEF deletable
  <2>9. TrackersFit'
    <3>1. CountOf(exits', AtExitFn) = Len(trackers')
      BY <2>2, <2>5 DEF IInv, TrackersFit, Times
    <3>2. \A u \in Longevous : Lives(u)' => bornAt'[u] < births'
      <4>1. \A u \in Longevous : Lives(u) => bornAt[u] < births
        BY DEF IInv, TrackersFit
      <4>2. bornAt \in [Longevous -> Nat]
        BY <1>2 DEF TypeOK
      <4> QED
        BY <1>1, <2>1, <2>6, <4>1, <4>2
    <3> QED
      BY <2>2, <3>1, <3>2 DEF TrackersFit, Times
  <2>10. FollowersFit'
    BY <1>1, <2>1, BornFollowers DEF death
  <2> QED
    BY <1>1, <2>7, <2>8, <2>9, <2>10 DEF IInv
<1>10. CASE s \in Follower
  <2> DEFINE m == MasterOf[s]
             n == Len(followers[m])
  <2>1. s \notin Longevous /\ m \in Master
    BY <1>10, PoliciesDisjoint, LifetimesAssumption
  <2>2. /\ UNCHANGED <<exits, deletable, trackers>>
        /\ list' = [list EXCEPT ![m] = IF @ = "none" THEN "there" ELSE @]
        /\ followers' = [followers EXCEPT ![m] = Append(@, s)]
        /\ list[m] = "deleted" => broken'
        /\ broken' \in BOOLEAN
    <3>1. AddFollower(s) /\ UNCHANGED <<exits, deletable, trackers>>
      BY <1>3, <1>10, PoliciesDisjoint DEF ScheduleDestruction
    <3>2. broken \in BOOLEAN
      BY <1>2 DEF TypeOK
    <3>3. (list[m] = "deleted" => broken') /\ broken' \in BOOLEAN
      BY <3>1, <3>2, Zenon DEF AddFollower
    <3> QED
      BY <3>1, <3>3 DEF AddFollower
  <2>3. followers \in [Master -> Seq(Follower)]
    BY <1>2 DEF TypeOK
  <2> HIDE DEF m
  <2>4. /\ followers' \in [Master -> Seq(Follower)]
        /\ \A u \in Master \ {m} : followers'[u] = followers[u]
        /\ n \in Nat
        /\ DOMAIN followers[m] = 1..n
        /\ DOMAIN followers'[m] = 1..(n + 1)
        /\ followers'[m][n + 1] = s
        /\ \A i \in 1..n : followers'[m][i] = followers[m][i]
    BY <1>10, <2>1, <2>2, <2>3
  <2>5. TypeOK'
    BY <1>1, <1>2, <1>3, <2>1, <2>2, <2>4 DEF TypeOK, deletable
  <2>6. TurnsFit'
    BY <1>1, <1>10, <2>2, BornTurns DEF deletable
  <2>7. TrackersFit'
    BY <1>1, <1>3, <2>1, <2>2, BornTrackers
  <2>8. FollowersFit'
    <3>1. \A u \in Master : list'[u] = "deleted" <=> list[u] = "deleted"
      BY <1>2, <2>2 DEF TypeOK
    <3>2. \A u \in Master :
            /\ Has(calls, "followers", u) => list[u] # "deleted"
            /\ \A i \in DOMAIN followers[u] : MasterOf[followers[u][i]] = u
            /\ list[u] # "deleted" =>
                 \A i \in DOMAIN followers[u] : Ahead(calls, u, i) =>
                   /\ Lives(followers[u][i])
                   /\ \A j \in DOMAIN followers[u] :
                        Ahead(calls, u, j) /\ followers[u][i] = followers[u][j] => i = j
      BY <1>2 DEF IInv, FollowersFit, Within
    <3> HIDE DEF n
    <3>6. \A u : LivesAt(pInstance', calls', u) <=> Lives(u) \/ u = s
      BY <1>1 DEF LivesAt, Lives, Dying, Within
    <3>3. \A i \in DOMAIN followers'[m] : MasterOf[followers'[m][i]] = m
      <4>1. \A i \in 1..n : MasterOf[followers[m][i]] = m
        BY <2>1, <2>4, <3>2
      <4>2. MasterOf[s] = m
        BY DEF m
      <4>3. \A i \in DOMAIN followers'[m] : i \in 1..n \/ i = n + 1
        BY <2>4
      <4> QED
        BY <2>4, <4>1, <4>2, <4>3
    <3>4. ASSUME ~broken',
                 NEW i \in 1..(n + 1), NEW j \in 1..(n + 1),
                 Ahead(calls', m, i), Ahead(calls', m, j),
                 followers'[m][i] = followers'[m][j]
          PROVE  LivesAt(pInstance', calls', followers'[m][i]) /\ i = j
      <4>1. list[m] # "deleted"
        BY <2>2, <3>4
      <4>2. \A k \in 1..n : Ahead(calls, m, k) =>
              Lives(followers[m][k]) /\ followers[m][k] # s
        BY <1>1, <2>1, <2>4, <3>2, <4>1
      <4>3. \A k \in 1..(n + 1) : k \in 1..n \/ k = n + 1
        BY <2>4
      <4>4. CASE i \in 1..n
        <5>1. Lives(followers[m][i]) /\ j \in 1..n
          BY <1>1, <2>4, <3>4, <4>2, <4>3, <4>4
        <5>2. followers'[m][i] = followers[m][i] /\ followers'[m][j] = followers[m][j]
          BY <2>4, <4>4, <5>1
        <5>3. /\ Ahead(calls, m, i) /\ Ahead(calls, m, j)
              /\ i \in DOMAIN followers[m] /\ j \in DOMAIN followers[m]
          BY <1>1, <2>4, <3>4, <4>4, <5>1
        <5>4. i = j
          BY <2>1, <3>2, <3>4, <4>1, <5>2, <5>3
        <5> QED
          BY <3>6, <5>1, <5>2, <5>4
      <4>5. CASE i = n + 1
        <5>1. j = n + 1
          BY <1>1, <2>4, <3>4, <4>2, <4>3, <4>5
        <5>2. followers'[m][i] = s
          BY <2>4, <4>5
        <5> QED
          BY <3>6, <4>5, <5>1, <5>2
      <4> QED
        BY <4>3, <4>4, <4>5
    <3>5. ASSUME ~broken', NEW u \in Master
          PROVE  /\ Has(calls', "followers", u) => list'[u] # "deleted"
                 /\ \A i \in DOMAIN followers'[u] : MasterOf[followers'[u][i]] = u
                 /\ list'[u] # "deleted" =>
                      \A i \in DOMAIN followers'[u] : Ahead(calls', u, i) =>
                        /\ LivesAt(pInstance', calls', followers'[u][i])
                        /\ \A j \in DOMAIN followers'[u] :
                             Ahead(calls', u, j) /\ followers'[u][i] = followers'[u][j] => i = j
      <4>1. CASE u = m
        <5>1. Has(calls', "followers", m) => list'[m] # "deleted"
          BY <1>1, <2>1, <3>1, <3>2
        <5>2. \A i, j \in DOMAIN followers'[m] :
                /\ Ahead(calls', m, i) /\ Ahead(calls', m, j)
                /\ followers'[m][i] = followers'[m][j]
               => LivesAt(pInstance', calls', followers'[m][i]) /\ i = j
          BY <2>4, <3>4, <3>5
        <5> QED
          BY <3>3, <4>1, <5>1, <5>2
      <4>2. CASE u # m
        <5>1. followers'[u] = followers[u]
          BY <2>4, <4>2
        <5>2. Has(calls', "followers", u) => list'[u] # "deleted"
          BY <1>1, <3>1, <3>2
        <5>3. \A i \in DOMAIN followers'[u] : MasterOf[followers'[u][i]] = u
          BY <3>2, <5>1
        <5>4. ASSUME list'[u] # "deleted", NEW i \in DOMAIN followers'[u],
                     Ahead(calls', u, i)
              PROVE  /\ LivesAt(pInstance', calls', followers'[u][i])
                     /\ \A j \in DOMAIN followers'[u] :
                          Ahead(calls', u, j) /\ followers'[u][i] = followers'[u][j] => i = j
          <6>1. list[u] # "deleted" /\ i \in DOMAIN followers[u] /\ Ahead(calls, u, i)
            BY <1>1, <3>1, <5>1, <5>4
          <6>2. LivesAt(pInstance', calls', followers'[u][i])
            BY <3>2, <3>6, <5>1, <6>1
          <6> QED
            BY <1>1, <3>2, <5>1, <6>1, <6>2
        <5> QED
          BY <5>2, <5>3, <5>4
      <4> QED
        BY <4>1, <4>2
    <3> QED
      BY <3>5 DEF FollowersFit, Within, Lives, Dying, LivesAt
  <2> QED
    BY <1>1, <2>5, <2>6, <2>7, <2>8 DEF IInv
<1> QED
  BY <1>4, <1>5, <1>6, <1>7, <1>8, <1>9, <1>10 DEF Singleton

LEMMA TurnStep == IInv /\ Turn => IInv'
<1> SUFFICES ASSUME IInv, Turn PROVE IInv'
  OBVIOUS
<1>1. CASE \E s \in Singleton : RunDestroySingleton(s) \/ RunAtexitCallback(s)
  BY <1>1, RunDestroySingletonStep, RunAtexitCallbackStep
<1>2. CASE \E m \in Master : RunDestroyFollowers(m)
  BY <1>2, RunDestroyFollowersStep
<1>3. CASE RunAtExitFn
  BY <1>3, RunAtExitFnStep
<1> QED
  BY <1>1, <1>2, <1>3 DEF Turn

LEMMA ReturnStep == IInv /\ Return => IInv'
<1> SUFFICES ASSUME IInv, Return PROVE IInv'
  OBVIOUS
<1>1. CASE \E s \in Singleton : InstanceMade(s) \/ ConstructorThrows(s) \/ InstanceDestroyed(s)
  BY <1>1, InstanceMadeStep, ConstructorThrowsStep, InstanceDestroyedStep
<1>2. CASE \E m \in Master : NextFollower(m) \/ FollowersDone(m)
  BY <1>2, NextFollowerStep, FollowersDoneStep
<1> QED
  BY <1>1, <1>2 DEF Return

LEMMA StutterStep == IInv /\ UNCHANGED vars => IInv'
<1> SUFFICES ASSUME IInv, UNCHANGED vars PROVE IInv'
  OBVIOUS
<1> USE DEF IInv, vars, holder, phoenix, deletable, death
<1>1. TypeOK'
  BY DEF TypeOK
<1>2. FramesFit'
  BY DEF FramesFit, Within
<1>3. TurnsFit' /\ TrackersFit' /\ FollowersFit'
  BY Unscheduled
<1> QED
  BY <1>1, <1>2, <1>3

LEMMA Inductive == IInv /\ [Next]_vars => IInv'
<1> SUFFICES ASSUME IInv, [Next]_vars PROVE IInv'
  OBVIOUS
<1>1. CASE \E s \in Singleton : InstanceThere(s) \/ DeadReference(s) \/ MakeInstance(s)
                                \/ GracefulDelete(s)
  BY <1>1, InstanceThereStep, DeadReferenceStep, MakeInstanceStep, GracefulDeleteStep
<1>2. CASE Exit
  BY <1>2, ExitStep
<1>3. CASE Turn
  BY <1>3, TurnStep
<1>4. CASE Return
  BY <1>4, ReturnStep
<1>5. CASE UNCHANGED vars
  BY <1>5, StutterStep
<1> QED
  BY <1>1, <1>2, <1>3, <1>4, <1>5 DEF Next

\* However calls of constructors, destructors and exit functions nest, the
\* inductive invariant of the singletons holds.
THEOREM Invariance == Spec => []IInv
BY InitIInv, Inductive, PTL DEF Spec

-----------------------------------------------------------------------------
(* The theorems *)

\* However calls nest, every variable keeps its type and no singleton is both
\* there and destroyed.
THEOREM TypeCorrect == Spec => []TypeOK
<1>1. IInv => TypeOK
  BY DEF IInv
<1> QED
  BY <1>1, Invariance, PTL

\* DestroySingleton runs only for a singleton that is there and that no other
\* call is destroying: its assertion never fails.
THEOREM AssertionHolds == Spec => []DestroysOnlyTheLiving
<1>1. ASSUME IInv PROVE DestroysOnlyTheLiving
  <2>1. ASSUME NEW i \in DOMAIN calls, calls[i].op = "destroy"
        PROVE  /\ calls[i].of \in pInstance \ destroyed
               /\ \A j \in DOMAIN calls :
                    calls[j].op = "destroy" /\ calls[j].of = calls[i].of => j = i
    <3>1. calls \in Seq(Frame)
      BY <1>1 DEF IInv, TypeOK
    <3>2. calls[i] \in Frame
      BY <3>1, ElementOfSeq
    <3>3. calls[i].of \in Singleton
      BY <3>2 DEF Frame
    <3>4. Within("destroy", calls[i].of)
      BY <2>1 DEF Within, Has
    <3>5. calls[i].of \in pInstance /\ pInstance \cap destroyed = {}
      BY <1>1, <3>3, <3>4 DEF IInv, FramesFit, TypeOK
    <3>6. FramesUnique(calls)
      BY <1>1 DEF IInv, FramesFit
    <3> QED
      BY <2>1, <3>5, <3>6 DEF FramesUnique
  <2> QED
    BY <2>1 DEF DestroysOnlyTheLiving
<1> QED
  BY <1>1, Invariance, PTL

\* Every longevous and every default singleton that lives has exactly one turn
\* among the exit functions, and AtExitFn has a tracker for each of its turns.
THEOREM OneTurn == Spec => []OneTurnEach
<1>1. ASSUME IInv PROVE OneTurnEach
  <2>1. Times(AtExitFn) = Len(trackers)
    BY <1>1 DEF IInv, TrackersFit
  <2>2. \A s \in Longevous : CountOf(trackers, s) = IF Lives(s) THEN 1 ELSE 0
    <3>1. trackers \in Seq(Longevous)
      BY <1>1 DEF IInv, TypeOK
    <3>2. \A i, j \in DOMAIN trackers : trackers[i] = trackers[j] => i = j
      BY <1>1, TrackersDistinct
    <3>3. \A s : CountOf(trackers, s) =
                 IF \E i \in DOMAIN trackers : trackers[i] = s THEN 1 ELSE 0
      BY <3>1, <3>2, CountDistinct
    <3>4. \A s \in Longevous : Lives(s) <=> \E i \in DOMAIN trackers : trackers[i] = s
      BY <1>1 DEF IInv, TrackersFit
    <3> QED
      BY <3>3, <3>4
  <2>3. \A s \in Default : Times(DestroySingleton(s)) = IF Lives(s) THEN 1 ELSE 0
    BY <1>1 DEF IInv, TurnsFit
  <2>4. \A s \in Deletable : Lives(s) = (s \notin isDead)
    <3>1. \A s \in Deletable : Lives(s) <=> s \notin isDead
      BY <1>1 DEF IInv, TurnsFit
    <3>2. \A s : Lives(s) \in BOOLEAN
      BY DEF Lives
    <3> QED
      BY <3>1, <3>2, Zenon
  <2> QED
    BY <2>1, <2>2, <2>3, <2>4 DEF OneTurnEach
<1> QED
  BY <1>1, Invariance, PTL

\* Only exit's functions begin to destroy a singleton that is neither deletable
\* nor a follower.
LEMMA OnlyExitDooms ==
  ASSUME IInv, Next, NEW s \in Singleton \ (Deletable \cup Follower), ~Dying(s), Dying(s)'
  PROVE  \/ RunDestroySingleton(s)
         \/ RunAtExitFn /\ s = trackers[Len(trackers)]
<1> USE DEF IInv
<1>1. calls \in Seq(Frame)
  BY DEF TypeOK
<1>2. \A stack \in Seq(Frame), c \in Frame :
        Has(Append(stack, c), "destroy", s) =>
          Has(stack, "destroy", s) \/ (c.op = "destroy" /\ c.of = s)
  BY DEF Has
<1>3. calls # <<>> =>
        Without(calls) \in Seq(Frame) /\ ~Has(Without(calls), "destroy", s)
  <2> SUFFICES ASSUME calls # <<>>
               PROVE  Without(calls) \in Seq(Frame) /\ ~Has(Without(calls), "destroy", s)
    OBVIOUS
  <2>1. /\ Without(calls) \in Seq(Frame)
        /\ DOMAIN Without(calls) = 1..(Len(calls) - 1)
        /\ \A i \in 1..(Len(calls) - 1) : Without(calls)[i] = calls[i]
    BY <1>1, WithoutLast
  <2>2. \A i \in 1..(Len(calls) - 1) : i \in DOMAIN calls
    BY <1>1
  <2> QED
    BY <2>1, <2>2 DEF Dying, Within, Has
<1>4. \A op, c : calls' = <<Call(op, c)>> => op = "destroy" /\ c = s
  <2> SUFFICES ASSUME NEW op, NEW c, calls' = <<Call(op, c)>>
               PROVE  op = "destroy" /\ c = s
    OBVIOUS
  <2>1. PICK i \in DOMAIN calls' : calls'[i].op = "destroy" /\ calls'[i].of = s
    BY DEF Dying, Within, Has
  <2>2. calls'[i] = Call(op, c)
    BY <2>1
  <2> QED
    BY <2>1, <2>2 DEF Call
<1>5. calls' # calls
  BY DEF Dying, Within
<1>6. ASSUME NEW u \in Singleton, MakeInstance(u) PROVE FALSE
  <2>1. Call("make", u) \in Frame /\ Call("make", u).op = "make"
    BY CallIsFrame
  <2> QED
    BY <1>1, <1>2, <1>6, <2>1 DEF MakeInstance, Dying, Within
<1>7. ASSUME NEW u \in Singleton, GracefulDelete(u) PROVE FALSE
  <2>1. Call("destroy", u) \in Frame /\ Call("destroy", u).of = u
    BY CallIsFrame
  <2>2. u # s
    BY <1>7, PoliciesDisjoint DEF GracefulDelete
  <2> QED
    BY <1>1, <1>2, <1>7, <2>1, <2>2 DEF GracefulDelete, Dying, Within
<1>8. ASSUME NEW u \in Singleton, RunDestroySingleton(u) PROVE RunDestroySingleton(s)
  BY <1>4, <1>8 DEF RunDestroySingleton
<1>9. ASSUME NEW u \in Singleton, RunAtexitCallback(u) PROVE FALSE
  <2>1. /\ Exiting(AtexitCallback(u))
        /\ calls' = <<>> \/ calls' = <<Call("destroy", u)>>
    BY <1>9 DEF RunAtexitCallback
  <2>2. calls' # <<>>
    BY EmptyStack DEF Dying, Within
  <2>3. u = s
    BY <1>4, <2>1, <2>2
  <2>4. AtexitCallback(u) \in ExitFn
    BY <2>1, ExitTurn
  <2> QED
    BY <2>3, <2>4, ExitFnsDiffer, PoliciesDisjoint
<1>10. ASSUME NEW m \in Master, RunDestroyFollowers(m) PROVE FALSE
  BY <1>4, <1>10 DEF RunDestroyFollowers
<1>11. ASSUME NEW m \in Master, NextFollower(m) PROVE FALSE
  <2> DEFINE i == Innermost.at + 1
             f == followers[m][i]
             walk == [Innermost EXCEPT !.at = i]
  <2>1. calls # <<>> /\ Innermost \in Frame /\ Innermost.op = "followers"
    BY <1>1, <1>11, RunsFacts DEF NextFollower
  <2>2. i \in Nat /\ i \in DOMAIN followers[m] /\ followers[m] \in Seq(Follower)
    <3>1. Innermost.at \in Nat /\ followers[m] \in Seq(Follower)
      BY <2>1 DEF Frame, TypeOK
    <3>2. Innermost.at < Len(followers[m])
      BY <1>11 DEF NextFollower
    <3> QED
      BY <3>1, <3>2
  <2>3. calls' = Append(Append(Without(calls), walk), Call("destroy", f))
    BY <1>11 DEF NextFollower
  <2> HIDE DEF i
  <2>4. f \in Follower
    BY <2>2, ElementOfSeq
  <2>5. f \in Singleton /\ f # s
    BY <2>4, PoliciesDisjoint DEF Singleton
  <2>6. walk \in Frame /\ walk.op = "followers"
    BY <2>1, <2>2 DEF Frame
  <2> HIDE DEF f, walk
  <2>7. Call("destroy", f) \in Frame /\ Call("destroy", f).of = f
    BY <2>5, CallIsFrame
  <2>8. /\ Append(Without(calls), walk) \in Seq(Frame)
        /\ ~Has(Append(Without(calls), walk), "destroy", s)
    <3>1. Without(calls) \in Seq(Frame) /\ ~Has(Without(calls), "destroy", s)
      BY <1>3, <2>1
    <3>2. Append(Without(calls), walk) \in Seq(Frame)
      BY <2>6, <3>1
    <3> QED
      BY <1>2, <2>6, <3>1, <3>2
  <2>9. ~Has(calls', "destroy", s)
    BY <1>2, <2>3, <2>5, <2>7, <2>8
  <2> QED
    BY <2>9 DEF Dying, Within
<1>12. ~Exit /\ \A u : ~InstanceThere(u) /\ ~DeadReference(u)
  BY <1>5 DEF InstanceThere, DeadReference, Exit
<1>13. \A u : ~InstanceMade(u) /\ ~ConstructorThrows(u) /\ ~InstanceDestroyed(u)
              /\ ~FollowersDone(u)
  <2>1. \A op, u : Runs(op, u) => calls # <<>>
    BY DEF Runs
  <2>2. calls # <<>> => calls' # Without(calls)
    BY <1>3 DEF Dying, Within
  <2> QED
    BY <2>1, <2>2 DEF InstanceMade, ConstructorThrows, InstanceDestroyed, FollowersDone
<1>14. RunAtExitFn \/ RunDestroySingleton(s)
  <2>1. Turn
    BY <1>6, <1>7, <1>11, <1>12, <1>13 DEF Next, Return
  <2> QED
    BY <1>8, <1>9, <1>10, <2>1 DEF Turn
<1>15. RunAtExitFn => s = trackers[Len(trackers)]
  BY <1>4 DEF RunAtExitFn
<1> QED
  BY <1>14, <1>15

\* Only AtExitFn begins to destroy a longevous singleton, the last in the queue.
LEMMA OnlyAtExitFn ==
  ASSUME IInv, Next, NEW s \in Longevous, ~Dying(s), Dying(s)'
  PROVE  RunAtExitFn /\ s = trackers[Len(trackers)]
<1>1. s \in Singleton \ (Deletable \cup Follower)
  BY PoliciesDisjoint DEF Singleton
<1>2. ~RunDestroySingleton(s)
  <2>1. SUFFICES ASSUME RunDestroySingleton(s) PROVE FALSE
    OBVIOUS
  <2>2. DestroySingleton(s) \in ExitFn
    BY <2>1, ExitTurn DEF RunDestroySingleton
  <2> QED
    BY <2>2, ExitFnsDiffer, PoliciesDisjoint
<1> QED
  BY <1>1, <1>2, OnlyExitDooms

\* A longevous singleton whose destruction begins is the one with the least
\* longevity of those that live, and the youngest of these.
THEOREM LongevityOrder == Spec => ShorterLivedFirst
<1> DEFINE First ==
      \A s \in Longevous : Lives(s) /\ Dying(s)' =>
        \A u \in Longevous \ {s} : Lives(u) =>
          \/ Longevity[s] < Longevity[u]
          \/ Longevity[s] = Longevity[u] /\ bornAt[u] < bornAt[s]
<1>1. IInv /\ Next => First
  <2> SUFFICES ASSUME IInv, Next,
                      NEW s \in Longevous, Lives(s), Dying(s)',
                      NEW u \in Longevous \ {s}, Lives(u)
               PROVE  \/ Longevity[s] < Longevity[u]
                      \/ Longevity[s] = Longevity[u] /\ bornAt[u] < bornAt[s]
    BY DEF First
  <2>1. RunAtExitFn /\ s = trackers[Len(trackers)]
    BY OnlyAtExitFn DEF Lives
  <2>2. PICK i \in DOMAIN trackers : trackers[i] = u
    BY DEF IInv, TrackersFit
  <2>3. /\ DOMAIN trackers = 1..Len(trackers) /\ Len(trackers) \in Nat
        /\ bornAt[s] \in Nat /\ bornAt[u] \in Nat
    BY DEF IInv, TypeOK
  <2>4. i < Len(trackers) /\ Len(trackers) \in DOMAIN trackers
    BY <2>1, <2>2, <2>3
  <2>5. Before(bornAt, u, s)
    BY <2>1, <2>2, <2>4 DEF IInv, TrackersFit
  <2> QED
    BY <2>3, <2>5, LifetimesAssumption DEF Before
<1>2. IInv /\ UNCHANGED vars => First
  BY DEF First, Lives, vars, Dying, Within
<1>3. IInv /\ [Next]_vars => [First]_vars
  BY <1>1, <1>2
<1>4. Spec => [][First]_vars
  BY <1>3, Invariance, PTL DEF Spec
<1> QED
  BY <1>4 DEF ShorterLivedFirst, First

-----------------------------------------------------------------------------
(* What a constructor obtained outlives what it made *)

\* Whoever is there, or is being made, uses what lives; and of the two the user
\* is the next to die.
UsesFit ==
  \A s \in Singleton : \A d \in uses[s] :
    /\ d # s /\ Outlives(d, s)
    /\ s \in pInstance \/ Within("make", s) => Lives(d)
    /\ Lives(s) /\ s \in Default =>
         \A i, j \in DOMAIN exits :
           exits[i] = DestroySingleton(s) /\ exits[j] = DestroySingleton(d) => j < i
    /\ Lives(s) /\ s \in Longevous => Before(bornAt, d, s)

LEMMA InitUsesFit == Init => UsesFit
BY DEF Init, UsesFit

\* What comes and goes with a step: instances by their constructors and
\* destructors, and calls to constructors by MakeInstance.
LEMMA Comings ==
  ASSUME IInv, Next, NEW s \in Singleton
  PROVE  /\ s \in pInstance' \ pInstance => InstanceMade(s)
         /\ s \in pInstance \ pInstance' => InstanceDestroyed(s) /\ Dying(s)
         /\ Within("make", s)' /\ ~Within("make", s) => MakeInstance(s)
<1> USE DEF IInv
<1>1. calls \in Seq(Frame) /\ FramesUnique(calls)
  BY DEF TypeOK, FramesFit
<1>2. ASSUME NEW u \in Singleton, MakeInstance(u)
      PROVE  pInstance' = pInstance /\ (Within("make", s)' /\ ~Within("make", s) => u = s)
  <2> DEFINE c == Call("make", u)
  <2>1. c \in Frame /\ c.op = "make" /\ c.of = u
    BY CallIsFrame
  <2>2. calls' = Append(calls, c) /\ ~Has(calls, "make", u) /\ pInstance' = pInstance
    BY <1>2 DEF MakeInstance, Within
  <2> HIDE DEF c
  <2>3. \A op, v : Has(calls', op, v) <=> Has(calls, op, v) \/ (op = "make" /\ v = u)
    BY <1>1, <2>1, <2>2, Push
  <2> QED
    BY <2>2, <2>3 DEF Within
<1>3. ASSUME NEW u \in Singleton, GracefulDelete(u)
      PROVE  pInstance' = pInstance /\ (Within("make", s)' => Within("make", s))
  <2> DEFINE c == Call("destroy", u)
  <2>1. c \in Frame /\ c.op = "destroy" /\ c.of = u
    BY CallIsFrame
  <2>2. u \in Deletable \ isDead /\ calls' = Append(calls, c) /\ pInstance' = pInstance
    BY <1>3 DEF GracefulDelete, holder
  <2>3. ~Has(calls, "destroy", u)
    BY <2>2 DEF TurnsFit, Lives, Dying, Within
  <2> HIDE DEF c
  <2>4. \A op, v : Has(calls', op, v) <=> Has(calls, op, v) \/ (op = "destroy" /\ v = u)
    BY <1>1, <2>1, <2>2, <2>3, Push
  <2> QED
    BY <2>2, <2>4 DEF Within
<1>4. \A op, v : calls # <<>> => (Has(Without(calls), op, v) => Has(calls, op, v))
  BY <1>1, Pop
<1>5. ASSUME NEW u \in Singleton,
             InstanceMade(u) \/ ConstructorThrows(u) \/ InstanceDestroyed(u)
      PROVE  Within("make", s)' => Within("make", s)
  <2>1. calls # <<>> /\ calls' = Without(calls)
    BY <1>5 DEF InstanceMade, ConstructorThrows, InstanceDestroyed, Runs
  <2> QED
    BY <1>4, <2>1 DEF Within
<1>6. ASSUME NEW u \in Singleton, InstanceMade(u)
      PROVE  pInstance' = pInstance \cup {u}
  BY <1>6 DEF InstanceMade
<1>7. ASSUME NEW u \in Singleton, InstanceDestroyed(u)
      PROVE  pInstance' = pInstance \ {u} /\ Dying(u)
  BY <1>1, <1>7, RunsFacts DEF InstanceDestroyed, Dying, Within
<1>8. ASSUME NEW m \in Master, NextFollower(m) \/ FollowersDone(m)
      PROVE  pInstance' = pInstance /\ (Within("make", s)' => Within("make", s))
  <2>1. pInstance' = pInstance /\ calls # <<>> /\ Innermost \in Frame
        /\ Innermost.op = "followers"
    BY <1>1, <1>8, RunsFacts DEF NextFollower, FollowersDone, holder
  <2>2. CASE FollowersDone(m)
    BY <1>4, <2>1, <2>2 DEF FollowersDone, Within
  <2>3. CASE NextFollower(m)
    <3> DEFINE i == Innermost.at + 1
               walk == [Innermost EXCEPT !.at = i]
               c == Call("destroy", followers[m][i])
               old == Without(calls)
    <3>1. calls' = Append(Append(old, walk), c)
      BY <2>3 DEF NextFollower
    <3>2. walk.op = "followers" /\ c.op = "destroy"
      BY <2>1 DEF Frame, Call
    <3>3. old \in Seq(Frame)
      BY <1>1, <2>1, WithoutLast
    <3> HIDE DEF walk, c, old
    <3>4. ASSUME Has(calls', "make", s) PROVE Has(old, "make", s)
      <4>1. PICK k \in DOMAIN calls' : calls'[k].op = "make" /\ calls'[k].of = s
        BY <3>4 DEF Has
      <4>2. DOMAIN old = 1 .. Len(old) /\ DOMAIN calls' = 1 .. Len(old) + 2 /\ Len(old) \in Nat
        BY <3>1, <3>3
      <4>3. /\ calls'[Len(old) + 2] = c /\ calls'[Len(old) + 1] = walk
            /\ \A x \in 1 .. Len(old) : calls'[x] = old[x]
        BY <3>1, <3>3
      <4>4. k \in 1 .. Len(old)
        BY <3>2, <4>1, <4>2, <4>3
      <4> QED
        BY <4>1, <4>2, <4>3, <4>4 DEF Has
    <3> QED
      BY <1>4, <2>1, <3>4 DEF Within, old
  <2> QED
    BY <1>8, <2>2, <2>3
<1>9. ASSUME Turn PROVE pInstance' = pInstance /\ ~Within("make", s)'
  <2>1. \E f : Exiting(f)
    BY <1>9 DEF Turn, RunDestroySingleton, RunAtExitFn, RunAtexitCallback, RunDestroyFollowers
  <2>2. pInstance' = pInstance
    BY <2>1 DEF Exiting, holder
  <2>3. \E op, c : op # "make" /\ (calls' = <<>> \/ calls' = <<Call(op, c)>>)
    BY <1>9 DEF Turn, RunDestroySingleton, RunAtExitFn, RunAtexitCallback, RunDestroyFollowers
  <2>4. \A op, c : Call(op, c).op = op
    BY DEF Call
  <2> QED
    BY <2>2, <2>3, <2>4 DEF Within, Has
<1>10. ASSUME NEW u \in Singleton, InstanceThere(u) \/ DeadReference(u)
       PROVE  pInstance' = pInstance /\ calls' = calls
  BY <1>10 DEF InstanceThere, DeadReference
<1>11. ASSUME Exit PROVE pInstance' = pInstance /\ calls' = calls
  BY <1>11 DEF Exit, holder
<1>12. ASSUME NEW u \in Singleton, ConstructorThrows(u) PROVE pInstance' = pInstance
  BY <1>12 DEF ConstructorThrows
<1> HIDE DEF IInv
<1>13. \/ \E u \in Singleton : InstanceThere(u) \/ DeadReference(u)
       \/ \E u \in Singleton : MakeInstance(u)
       \/ \E u \in Singleton : GracefulDelete(u)
       \/ \E u \in Singleton : InstanceMade(u)
       \/ \E u \in Singleton : ConstructorThrows(u)
       \/ \E u \in Singleton : InstanceDestroyed(u)
       \/ \E m \in Master : NextFollower(m) \/ FollowersDone(m)
       \/ Exit \/ Turn
  BY DEF Next, Return
<1> QED
  BY <1>2, <1>3, <1>5, <1>6, <1>7, <1>8, <1>9, <1>10, <1>11, <1>12, <1>13 DEF Within

\* A call ends when it returns, and a constructor's also when it throws.
LEMMA Goings ==
  ASSUME IInv, Next, NEW op, NEW s, Within(op, s), ~Within(op, s)'
  PROVE  \/ op = "make" /\ (InstanceMade(s) \/ ConstructorThrows(s))
         \/ op = "destroy" /\ InstanceDestroyed(s)
         \/ op = "followers" /\ FollowersDone(s)
<1>1. calls \in Seq(Frame) /\ FramesUnique(calls) /\ calls # <<>> /\ ~Turn
  <2>1. calls \in Seq(Frame) /\ FramesUnique(calls)
    BY DEF IInv, TypeOK, FramesFit
  <2>2. calls # <<>>
    BY DEF Within, Has
  <2>3. Turn => calls = <<>>
    BY DEF Turn, RunDestroySingleton, RunAtExitFn, RunAtexitCallback, RunDestroyFollowers, Exiting
  <2> QED
    BY <2>1, <2>2, <2>3
<1>2. \A c \in Frame : calls' # Append(calls, c)
  BY <1>1 DEF Within, Has
<1>3. calls' # calls
  BY DEF Within
<1>4. ASSUME NEW u \in Singleton, MakeInstance(u) \/ GracefulDelete(u) PROVE FALSE
  <2>1. \E x \in {"make", "destroy"} : calls' = Append(calls, Call(x, u))
    BY <1>4 DEF MakeInstance, GracefulDelete
  <2> QED
    BY <1>2, <2>1, CallIsFrame
<1>5. ASSUME NEW u \in Singleton, InstanceThere(u) \/ DeadReference(u) PROVE FALSE
  BY <1>3, <1>5 DEF InstanceThere, DeadReference
<1>6. ~Exit
  BY <1>3 DEF Exit
<1>7. ASSUME calls' = Without(calls)
      PROVE  calls[Len(calls)].op = op /\ calls[Len(calls)].of = s
  BY <1>1, <1>7, Pop DEF Within
<1>8. ASSUME NEW u \in Singleton, InstanceMade(u) \/ ConstructorThrows(u)
      PROVE  op = "make" /\ u = s
  BY <1>1, <1>7, <1>8, RunsFacts DEF InstanceMade, ConstructorThrows
<1>9. ASSUME NEW u \in Singleton, InstanceDestroyed(u)
      PROVE  op = "destroy" /\ u = s
  BY <1>1, <1>7, <1>9, RunsFacts DEF InstanceDestroyed
<1>10. ASSUME NEW m \in Master, FollowersDone(m)
       PROVE  op = "followers" /\ m = s
  BY <1>1, <1>7, <1>10, RunsFacts DEF FollowersDone
<1>11. ASSUME NEW m \in Master, NextFollower(m) PROVE FALSE
  <2> DEFINE i == Innermost.at + 1
             walk == [Innermost EXCEPT !.at = i]
             c == Call("destroy", followers[m][i])
             old == Without(calls)
  <2>1. Innermost \in Frame /\ Innermost.op = "followers" /\ Innermost.of = m
        /\ Innermost = calls[Len(calls)]
    BY <1>1, <1>11, RunsFacts DEF NextFollower
  <2>2. calls' = Append(Append(old, walk), c)
    BY <1>11 DEF NextFollower
  <2>3. walk.op = "followers" /\ walk.of = m
    BY <2>1 DEF Frame
  <2>4. old \in Seq(Frame)
    BY <1>1, WithoutLast
  <2>5. Has(old, op, s) \/ (op = "followers" /\ s = m)
    BY <1>1, <2>1, Pop DEF Within
  <2> HIDE DEF walk, c, old
  <2>6. DOMAIN old = 1 .. Len(old) /\ DOMAIN calls' = 1 .. Len(old) + 2 /\ Len(old) \in Nat
    BY <2>2, <2>4
  <2>7. calls'[Len(old) + 1] = walk /\ \A x \in 1 .. Len(old) : calls'[x] = old[x]
    BY <2>2, <2>4
  <2>8. Len(old) + 1 \in DOMAIN calls' /\ \A x \in DOMAIN old : x \in DOMAIN calls'
    BY <2>6
  <2>9. Has(calls', op, s)
    BY <2>3, <2>5, <2>6, <2>7, <2>8 DEF Has
  <2> QED
    BY <2>9 DEF Within
<1> QED
  BY <1>1, <1>4, <1>5, <1>6, <1>8, <1>9, <1>10, <1>11 DEF Next, Return

\* A singleton that is neither deletable nor a follower lives until exit begins
\* to destroy it, which it does within no other call.
LEMMA LivesOn ==
  ASSUME IInv, Next, NEW s \in Singleton \ (Deletable \cup Follower), Lives(s), ~Lives(s)'
  PROVE  /\ calls = <<>>
         /\ \/ RunDestroySingleton(s)
            \/ RunAtExitFn /\ s = trackers[Len(trackers)]
<1>1. Dying(s)'
  BY Comings DEF Lives
<1>2. \/ RunDestroySingleton(s)
      \/ RunAtExitFn /\ s = trackers[Len(trackers)]
  BY <1>1, OnlyExitDooms DEF Lives
<1> QED
  BY <1>2 DEF RunDestroySingleton, RunAtExitFn, Exiting

\* The functions registered with atexit stay where they are, but for the one
\* that exit takes, and only a singleton just made adds its own.
LEMMA LaterTurns ==
  ASSUME IInv, Next, NEW j \in DOMAIN exits'
  PROVE  /\ j \in Nat
         /\ \/ j \in DOMAIN exits /\ exits'[j] = exits[j]
            \/ /\ j \notin DOMAIN exits /\ \A i \in DOMAIN exits : i < j
               /\ \E u \in Singleton :
                    InstanceMade(u) /\ \A x : exits'[j] = DestroySingleton(x) => x = u
<1>1. exits \in Seq(ExitFn) /\ exits' \in Seq(ExitFn)
  <2>1. IInv'
    BY Inductive
  <2> QED
    BY <2>1 DEF IInv, TypeOK
<1>2. /\ j \in Nat /\ DOMAIN exits = 1 .. Len(exits) /\ DOMAIN exits' = 1 .. Len(exits')
      /\ Len(exits) \in Nat
  BY <1>1
<1>3. CASE exits' = exits
  BY <1>2, <1>3
<1>4. CASE Turn
  <2>1. PICK f : Exiting(f)
    BY <1>4 DEF Turn, RunDestroySingleton, RunAtExitFn, RunAtexitCallback, RunDestroyFollowers
  <2>2. exits # <<>> /\ exits' = Without(exits)
    BY <2>1 DEF Exiting
  <2>3. /\ DOMAIN exits' = 1 .. (Len(exits) - 1)
        /\ \A i \in 1 .. (Len(exits) - 1) : exits'[i] = exits[i]
    BY <1>1, <2>2, WithoutLast
  <2>4. j \in 1 .. (Len(exits) - 1) /\ j \in DOMAIN exits
    BY <1>2, <2>3
  <2> QED
    BY <1>2, <2>3, <2>4
<1>5. ASSUME NEW u \in Singleton, InstanceMade(u), exits' # exits
      PROVE  \/ j \in DOMAIN exits /\ exits'[j] = exits[j]
             \/ /\ j \notin DOMAIN exits /\ \A i \in DOMAIN exits : i < j
                /\ \A x : exits'[j] = DestroySingleton(x) => x = u
  <2>1. PICK g, h : /\ exits' = Append(exits, g) \/ exits' = Append(Append(exits, g), h)
                    /\ \A x : g = DestroySingleton(x) => x = u
                    /\ \A x : h = DestroySingleton(x) => x = u
    <3>1. ScheduleDestruction(u)
      BY <1>5 DEF InstanceMade
    <3>2. \/ exits' = Append(exits, DestroySingleton(u))
          \/ exits' = Append(exits, AtexitCallback(u)) /\ u \in Deletable
          \/ exits' = Append(exits, AtExitFn)
          \/ /\ u \in Master
             /\ exits' = Append(Append(exits, DestroySingleton(u)), DestroyFollowers(u))
      BY <1>5, <3>1 DEF ScheduleDestruction, ScheduleDefault, SchedulePhoenix,
                        ScheduleDeletable, SetLongevity, ScheduleMaster
    <3>3. \A x : DestroySingleton(u) = DestroySingleton(x) => x = u
      BY ExitFnsDiffer
    <3>4. \A x : DestroySingleton(x) # AtexitCallback(u) /\ DestroySingleton(x) # DestroyFollowers(u)
                 /\ DestroySingleton(x) # AtExitFn
      BY ExitFnsDiffer
    <3> QED
      BY <3>2, <3>3, <3>4
  <2>2. CASE exits' = Append(exits, g)
    BY <1>1, <1>2, <2>1, <2>2
  <2>3. CASE exits' = Append(Append(exits, g), h)
    <3> DEFINE n == Len(exits)
    <3>1. /\ DOMAIN exits' = 1 .. n + 2
          /\ \A i \in 1 .. n : exits'[i] = exits[i]
          /\ exits'[n + 1] = g /\ exits'[n + 2] = h
      BY <1>1, <1>2, <2>3
    <3>2. j \in 1 .. n \/ j = n + 1 \/ j = n + 2
      BY <1>2, <3>1
    <3>3. n \in Nat /\ DOMAIN exits = 1 .. n
      BY <1>2
    <3> HIDE DEF n
    <3>4. CASE j \in 1 .. n
      BY <3>1, <3>3, <3>4
    <3>5. CASE j = n + 1 \/ j = n + 2
      <4>1. j \notin 1 .. n /\ \A i \in 1 .. n : i < j
        BY <3>3, <3>5
      <4>2. exits'[j] = g \/ exits'[j] = h
        BY <3>1, <3>5
      <4> QED
        BY <2>1, <3>3, <4>1, <4>2
    <3> QED
      BY <3>2, <3>4, <3>5
  <2> QED
    BY <2>1, <2>2, <2>3
<1>6. exits' = exits \/ Turn \/ \E u \in Singleton : InstanceMade(u)
  BY DEF Next, Return, InstanceThere, DeadReference, MakeInstance, GracefulDelete, Exit,
         ConstructorThrows, InstanceDestroyed, NextFollower, FollowersDone
<1> QED
  BY <1>2, <1>3, <1>4, <1>5, <1>6

\* A function that is registered is one of the list's.
LEMMA TurnPlace ==
  ASSUME NEW S, NEW seq \in Seq(S), NEW e, CountOf(seq, e) = 1
  PROVE  \E i \in DOMAIN seq : seq[i] = e
<1> DEFINE I == {i \in DOMAIN seq : seq[i] = e}
<1>1. CountOf(seq, e) = Cardinality(I)
  BY DEF CountOf
<1>2. I # {}
  <2>1. Cardinality({}) = 0
    BY FS_EmptySet
  <2> HIDE DEF I
  <2> QED
    BY <1>1, <2>1
<1> QED
  BY <1>2

\* And one that is not there is not counted.
LEMMA NoTurnPlace ==
  ASSUME NEW S, NEW seq \in Seq(S), NEW e, CountOf(seq, e) = 0
  PROVE  \A i \in DOMAIN seq : seq[i] # e
<1>1. \A i \in DOMAIN seq : CountOf(seq, seq[i]) >= 1
  BY CountPositive
<1> QED
  BY <1>1

\* What a user has stays as the invariant says ...
LEMMA UsedStays ==
  ASSUME IInv, UsesFit, Next, NEW s \in Singleton, NEW d \in uses[s], ~MakeInstance(s)
  PROVE  /\ s \in pInstance' \/ Within("make", s)' => Lives(d)'
         /\ Lives(s)' /\ s \in Default =>
              \A i, j \in DOMAIN exits' :
                exits'[i] = DestroySingleton(s) /\ exits'[j] = DestroySingleton(d) => j < i
         /\ Lives(s)' /\ s \in Longevous => Before(bornAt', d, s)
<1>1. /\ d \in Singleton /\ d # s /\ Outlives(d, s)
      /\ s \in pInstance \/ Within("make", s) => Lives(d)
      /\ Lives(s) /\ s \in Default =>
           \A i, j \in DOMAIN exits :
             exits[i] = DestroySingleton(s) /\ exits[j] = DestroySingleton(d) => j < i
      /\ Lives(s) /\ s \in Longevous => Before(bornAt, d, s)
  BY DEF UsesFit, IInv, TypeOK
<1>2. d \in Singleton \ (Deletable \cup Follower)
  BY <1>1, PoliciesDisjoint DEF Outlives
<1>3. s \in pInstance' \/ Within("make", s)' => s \in pInstance \/ Within("make", s)
  <2>1. InstanceMade(s) => Within("make", s)
    BY RunsFacts DEF InstanceMade, Within, IInv, TypeOK
  <2> QED
    BY <2>1, Comings
<1>4. ASSUME s \in pInstance' \/ Within("make", s)', ~Lives(d)' PROVE FALSE
  <2>1. Lives(d)
    BY <1>1, <1>3, <1>4
  <2>2. /\ calls = <<>>
        /\ RunDestroySingleton(d) \/ (RunAtExitFn /\ d = trackers[Len(trackers)])
    BY <1>2, <1>4, <2>1, LivesOn
  <2>3. s \in pInstance /\ Lives(s)
    BY <1>3, <1>4, <2>2 DEF Within, Has, Lives, Dying
  <2>4. exits \in Seq(ExitFn) /\ exits # <<>>
    BY <2>2 DEF RunDestroySingleton, RunAtExitFn, Exiting, IInv, TypeOK
  <2>5. CASE RunDestroySingleton(d)
    <3>1. Exiting(DestroySingleton(d)) /\ exits[Len(exits)] = DestroySingleton(d)
      BY <2>5 DEF RunDestroySingleton, Exiting
    <3>2. DestroySingleton(d) \in ExitFn
      BY <3>1, ExitTurn
    <3>3. d \in Default \cup Phoenix \cup Master
      BY <3>2, ExitFnsDiffer
    <3>4. s \in Default
      BY <1>1, <3>3, PoliciesDisjoint DEF Outlives
    <3>5. Times(DestroySingleton(s)) = 1
      BY <2>3, <3>4 DEF IInv, TurnsFit
    <3>6. PICK i \in DOMAIN exits : exits[i] = DestroySingleton(s)
      BY <2>4, <3>5, TurnPlace DEF Times
    <3>7. DOMAIN exits = 1 .. Len(exits) /\ Len(exits) \in Nat /\ Len(exits) \in DOMAIN exits
      BY <2>4
    <3>8. Len(exits) < i
      BY <1>1, <2>3, <3>1, <3>4, <3>6, <3>7
    <3> QED
      BY <3>6, <3>7, <3>8
  <2>6. CASE RunAtExitFn /\ d = trackers[Len(trackers)]
    <3>1. /\ trackers # <<>> /\ Len(trackers) \in DOMAIN trackers /\ d \in Longevous
          /\ Len(trackers) \in Nat /\ DOMAIN trackers = 1 .. Len(trackers)
      BY <2>6, TrackerWaits DEF RunAtExitFn, IInv, TypeOK
    <3>2. s \in Longevous
      BY <1>1, <3>1, PoliciesDisjoint DEF Outlives
    <3>3. Before(bornAt, d, s)
      BY <1>1, <2>3, <3>2
    <3>4. PICK i \in DOMAIN trackers : trackers[i] = s
      BY <2>3, <3>2 DEF IInv, TrackersFit
    <3>5. i < Len(trackers)
      BY <1>1, <2>6, <3>1, <3>4
    <3>6. Before(bornAt, s, d)
      BY <2>6, <3>1, <3>4, <3>5 DEF IInv, TrackersFit
    <3>7. bornAt[s] \in Nat /\ bornAt[d] \in Nat /\ Longevity[s] \in Nat /\ Longevity[d] \in Nat
      BY <3>1, <3>2, LifetimesAssumption DEF IInv, TypeOK
    <3> QED
      BY <3>3, <3>6, <3>7 DEF Before
  <2> QED
    BY <2>2, <2>5, <2>6
<1>5. ASSUME Lives(s)' PROVE Lives(d) /\ ~InstanceMade(d)
  <2>1. Lives(d)
    BY <1>1, <1>3, <1>5 DEF Lives
  <2>2. ~InstanceMade(d)
    BY <1>1, <2>1, Born
  <2> QED
    BY <2>1, <2>2
<1>6. ASSUME Lives(s)' PROVE Lives(s) \/ InstanceMade(s)
  <2>1. s \in pInstance' /\ (s \in pInstance \/ InstanceMade(s))
    BY <1>6, Comings DEF Lives
  <2>2. ASSUME Dying(s) PROVE FALSE
    <3>1. InstanceDestroyed(s)
      BY <1>6, <2>2, Goings DEF Lives, Dying
    <3> QED
      BY <2>1, <3>1 DEF InstanceDestroyed
  <2> QED
    BY <2>1, <2>2 DEF Lives
<1>7. ASSUME Lives(s)', s \in Default,
             NEW i \in DOMAIN exits', NEW j \in DOMAIN exits',
             exits'[i] = DestroySingleton(s), exits'[j] = DestroySingleton(d)
      PROVE  j < i
  <2>1. j \in DOMAIN exits /\ exits[j] = DestroySingleton(d) /\ j \in Nat
    BY <1>5, <1>7, LaterTurns
  <2>2. CASE i \in DOMAIN exits /\ exits[i] = DestroySingleton(s)
    <3>1. Lives(s)
      <4>1. CASE InstanceMade(s)
        <5>1. CountOf(exits, DestroySingleton(s)) = 0
          BY <1>7, <4>1, Born DEF IInv, TurnsFit, Times
        <5> QED
          BY <2>2, <5>1, NoTurnPlace DEF IInv, TypeOK
      <4> QED
        BY <1>6, <1>7, <4>1
    <3> QED
      BY <1>1, <1>7, <2>1, <2>2, <3>1
  <2>3. CASE \A k \in DOMAIN exits : k < i
    BY <2>1, <2>3
  <2> QED
    BY <1>7, <2>2, <2>3, LaterTurns
<1>8. ASSUME Lives(s)', s \in Longevous PROVE Before(bornAt', d, s)
  <2>1. /\ d \in Longevous /\ Longevity[d] >= Longevity[s] /\ Lives(d)
        /\ bornAt[d] \in Nat /\ births \in Nat /\ bornAt \in [Longevous -> Nat]
        /\ Longevity[d] \in Nat /\ Longevity[s] \in Nat
    BY <1>1, <1>5, <1>8, PoliciesDisjoint, LifetimesAssumption DEF Outlives, IInv, TypeOK
  <2>2. ASSUME NEW u \in Longevous, ~InstanceMade(u) PROVE bornAt'[u] = bornAt[u]
    <3>1. bornAt' = bornAt \/ \E x \in Singleton : InstanceMade(x)
      BY DEF Next, Return, Turn, InstanceThere, DeadReference, MakeInstance, GracefulDelete, Exit,
         RunDestroySingleton, RunAtExitFn, RunAtexitCallback, RunDestroyFollowers, Exiting,
         ConstructorThrows, InstanceDestroyed, NextFollower, FollowersDone, holder
    <3>2. \A x \in Singleton : InstanceMade(x) => bornAt' = bornAt \/ bornAt' = [bornAt EXCEPT ![x] = births]
      BY DEF InstanceMade
    <3> QED
      BY <2>1, <2>2, <3>1, <3>2
  <2>3. bornAt'[d] = bornAt[d]
    BY <1>5, <1>8, <2>1, <2>2
  <2>4. CASE InstanceMade(s)
    <3>1. bornAt'[s] = births
      BY <1>8, <2>1, <2>4 DEF InstanceMade
    <3>2. bornAt[d] < births
      BY <2>1 DEF IInv, TrackersFit
    <3> QED
      BY <2>1, <2>3, <3>1, <3>2 DEF Before
  <2>5. CASE ~InstanceMade(s)
    <3>1. Before(bornAt, d, s)
      BY <1>1, <1>6, <1>8, <2>5
    <3> QED
      BY <1>8, <2>2, <2>3, <2>5, <3>1 DEF Before
  <2> QED
    BY <2>4, <2>5
<1> QED
  BY <1>4, <1>7, <1>8

\* ... and what it has just obtained lives, and the user is not yet there.
LEMMA UsedNow ==
  ASSUME IInv, NEW u \in Singleton, InstanceThere(u) \/ InstanceMade(u),
         NEW s \in Singleton, NEW d \in uses'[s] \ uses[s]
  PROVE  /\ d # s /\ Outlives(d, s) /\ Lives(d)'
         /\ s \notin pInstance'
<1>1. calls' \in Seq(Frame) /\ FramesFit'
  BY InstanceThereStep, InstanceMadeStep DEF IInv, TypeOK
<1>2. uses \in [Singleton -> SUBSET Singleton]
  BY DEF IInv, TypeOK
<1>3. uses' = Obtained(calls', u)
  BY DEF InstanceThere, InstanceMade
<1>4. /\ calls' # <<>> /\ calls'[Len(calls')].op = "make" /\ calls'[Len(calls')].of = s
      /\ Outlives(u, s) /\ ~Within("destroy", u) /\ d = u
  BY <1>2, <1>3 DEF Obtained
<1>5. Within("make", s)'
  <2>1. Len(calls') \in DOMAIN calls'
    BY <1>1, <1>4
  <2> QED
    BY <1>4, <2>1 DEF Within, Has
<1>6. s \notin pInstance'
  BY <1>1, <1>5 DEF FramesFit
<1>7. Lives(u)'
  <2>1. CASE InstanceThere(u)
    BY <1>4, <2>1 DEF InstanceThere, Lives, Dying, Within
  <2>2. CASE InstanceMade(u)
    BY <2>2, Born
  <2> QED
    BY <2>1, <2>2
<1> QED
  BY <1>4, <1>6, <1>7 DEF Lives

LEMMA UsesStep == IInv /\ UsesFit /\ [Next]_vars => UsesFit'
<1> SUFFICES ASSUME IInv, UsesFit, [Next]_vars PROVE UsesFit'
  OBVIOUS
<1>1. CASE UNCHANGED vars
  BY <1>1 DEF vars, holder, UsesFit, Within, Lives, Dying
<1>2. CASE Next
  <2>1. SUFFICES ASSUME NEW s \in Singleton, NEW d \in uses'[s]
                 PROVE  /\ d # s /\ Outlives(d, s)
                        /\ s \in pInstance' \/ Within("make", s)' => Lives(d)'
                        /\ Lives(s)' /\ s \in Default =>
                             \A i, j \in DOMAIN exits' :
                               exits'[i] = DestroySingleton(s) /\ exits'[j] = DestroySingleton(d)
                                 => j < i
                        /\ Lives(s)' /\ s \in Longevous => Before(bornAt', d, s)
    BY DEF UsesFit, Before, Outlives
  <2>2. uses \in [Singleton -> SUBSET Singleton]
    BY DEF IInv, TypeOK
  <2>3. ASSUME NEW u \in Singleton, MakeInstance(u) PROVE uses' = [uses EXCEPT ![u] = {}]
    BY <2>3 DEF MakeInstance
  <2>4. ~MakeInstance(s)
    BY <2>2, <2>3
  <2>5. CASE d \in uses[s]
    <3>1. d # s /\ Outlives(d, s)
      BY <2>5 DEF UsesFit
    <3> QED
      BY <1>2, <2>4, <2>5, <3>1, UsedStays
  <2>6. CASE d \notin uses[s]
    <3>1. \/ uses' = uses
          \/ \E u \in Singleton : InstanceThere(u) \/ InstanceMade(u)
          \/ \E u \in Singleton : uses' = [uses EXCEPT ![u] = {}]
      BY <1>2, <2>3 DEF Next, Return, Turn, DeadReference, GracefulDelete, Exit,
         RunDestroySingleton, RunAtExitFn, RunAtexitCallback, RunDestroyFollowers, Exiting,
         ConstructorThrows, InstanceDestroyed, NextFollower, FollowersDone, holder
    <3>2. PICK u \in Singleton : InstanceThere(u) \/ InstanceMade(u)
      BY <2>2, <2>6, <3>1
    <3>3. d # s /\ Outlives(d, s) /\ Lives(d)' /\ s \notin pInstance'
      BY <2>6, <3>2, UsedNow
    <3> QED
      BY <3>3 DEF Lives
  <2> QED
    BY <2>5, <2>6
<1> QED
  BY <1>1, <1>2

\* Whatever calls nest within constructors and destructors, what a constructor
\* obtained, and should outlive its user, lives as long as the user is there.
THEOREM UsedOutliveUsers == Spec => []UsedOutlivesUser
<1>1. IInv /\ UsesFit => UsedOutlivesUser
  BY DEF IInv, TypeOK, UsesFit, UsedOutlivesUser
<1>2. QED
  BY <1>1, InitUsesFit, UsesStep, Invariance, PTL DEF Spec

-----------------------------------------------------------------------------
(* A master's followers die before it *)

\* DestroyFollowers is only called by exit, and walks within its vector.
FramesFirst ==
  \A k \in DOMAIN calls : calls[k].op = "followers" =>
    k = 1 /\ calls[k].of \in Master /\ calls[k].at <= Len(followers[calls[k].of])

\* A follower that is there has its turn in the vector still ahead.
FollowersListed ==
  \A f \in Follower : f \in pInstance =>
    /\ list[MasterOf[f]] # "deleted"
    /\ \/ Dying(f)
       \/ \E i \in DOMAIN followers[MasterOf[f]] :
            followers[MasterOf[f]][i] = f /\ Ahead(calls, MasterOf[f], i)

\* A master's own turn comes after that of its followers.
MastersLater ==
  \A m \in Master :
    /\ Dying(m) => list[m] = "deleted"
    /\ \A j \in DOMAIN exits : exits[j] = DestroySingleton(m) =>
         \/ list[m] = "deleted" \/ Within("followers", m)
         \/ \E k \in DOMAIN exits : k > j /\ exits[k] = DestroyFollowers(m)

DeathsFit == ~broken => FramesFirst /\ FollowersListed /\ MastersLater

LEMMA InitDeathsFit == Init => DeathsFit
BY DEF Init, DeathsFit, FramesFirst, FollowersListed, MastersLater, Dying, Within, Has

LEMMA NotBroken == Next => ~broken
BY DEF Next, Return, Turn, InstanceThere, DeadReference, MakeInstance, GracefulDelete, Exit,
   RunDestroySingleton, RunAtExitFn, RunAtexitCallback, RunDestroyFollowers, Exiting, ClientRuns,
   InstanceMade, ConstructorThrows, InstanceDestroyed, NextFollower, FollowersDone

\* Calls stay where they are; DestroyFollowers is called with an empty stack, and
\* goes one step on.
LEMMA FramesAfter ==
  ASSUME IInv, Next, NEW k \in DOMAIN calls'
  PROVE  \/ k \in DOMAIN calls /\ calls'[k] = calls[k]
         \/ calls'[k].op # "followers"
         \/ \E m \in Master : /\ RunDestroyFollowers(m) /\ k = 1
                              /\ calls'[k] = Call("followers", m)
         \/ \E m \in Master : /\ NextFollower(m) /\ k = Len(calls) /\ k \in DOMAIN calls
                              /\ calls[k].of = m /\ calls'[k].of = m
                              /\ calls[k].op = "followers"
                              /\ calls[k].at \in Nat /\ calls'[k].at = calls[k].at + 1
<1>1. calls \in Seq(Frame) /\ FramesUnique(calls)
  BY DEF IInv, TypeOK, FramesFit
<1>2. CASE calls' = calls
  BY <1>2
<1>3. ASSUME NEW c, c.op # "followers", calls' = Append(calls, c)
      PROVE  (k \in DOMAIN calls /\ calls'[k] = calls[k]) \/ calls'[k].op # "followers"
  <2>1. k \in 1 .. Len(calls) + 1 /\ Len(calls) \in Nat /\ DOMAIN calls = 1 .. Len(calls)
    BY <1>1, <1>3
  <2>2. CASE k = Len(calls) + 1
    <3>1. calls'[k] = c
      BY <1>1, <1>3, <2>2
    <3> QED
      BY <1>3, <3>1
  <2>3. CASE k \in 1 .. Len(calls)
    BY <1>1, <1>3, <2>1, <2>3
  <2> QED
    BY <2>1, <2>2, <2>3
<1>4. ASSUME NEW u \in Singleton, MakeInstance(u) \/ GracefulDelete(u)
      PROVE  (k \in DOMAIN calls /\ calls'[k] = calls[k]) \/ calls'[k].op # "followers"
  <2>1. \E op \in {"make", "destroy"} : calls' = Append(calls, Call(op, u))
    BY <1>4 DEF MakeInstance, GracefulDelete
  <2>2. \A op \in {"make", "destroy"} : Call(op, u).op # "followers"
    BY DEF Call
  <2> QED
    BY <1>3, <2>1, <2>2
<1>5. ASSUME calls # <<>>, calls' = Without(calls)
      PROVE  k \in DOMAIN calls /\ calls'[k] = calls[k]
  <2>1. /\ DOMAIN calls' = 1 .. (Len(calls) - 1)
        /\ \A i \in 1 .. (Len(calls) - 1) : calls'[i] = calls[i]
        /\ Len(calls) \in Nat /\ DOMAIN calls = 1 .. Len(calls)
    BY <1>1, <1>5, WithoutLast
  <2> QED
    BY <2>1
<1>6. ASSUME NEW u \in Singleton,
             InstanceMade(u) \/ ConstructorThrows(u) \/ InstanceDestroyed(u) \/ FollowersDone(u)
      PROVE  calls # <<>> /\ calls' = Without(calls)
  BY <1>6 DEF InstanceMade, ConstructorThrows, InstanceDestroyed, FollowersDone, Runs
<1>7. ASSUME Turn
      PROVE  \/ calls'[k].op # "followers"
             \/ \E m \in Master : /\ RunDestroyFollowers(m) /\ k = 1
                                  /\ calls'[k] = Call("followers", m)
  <2>1. CASE \E m \in Master : RunDestroyFollowers(m)
    BY <2>1 DEF RunDestroyFollowers
  <2>2. CASE ~\E m \in Master : RunDestroyFollowers(m)
    <3>1. calls' = <<>> \/ \E c : calls' = <<Call("destroy", c)>>
      BY <1>7, <2>2 DEF Turn, RunDestroySingleton, RunAtExitFn, RunAtexitCallback
    <3>2. \A c : Call("destroy", c).op # "followers"
      BY DEF Call
    <3> QED
      BY <3>1, <3>2
  <2> QED
    BY <2>1, <2>2
<1>8. ASSUME NEW m \in Master, NextFollower(m)
      PROVE  \/ k \in DOMAIN calls /\ calls'[k] = calls[k]
             \/ calls'[k].op # "followers"
             \/ /\ k = Len(calls) /\ k \in DOMAIN calls
                /\ calls[k].of = m /\ calls'[k].of = m
                /\ calls[k].op = "followers"
                /\ calls[k].at \in Nat /\ calls'[k].at = calls[k].at + 1
  <2> DEFINE i == Innermost.at + 1
             walk == [Innermost EXCEPT !.at = i]
             c == Call("destroy", followers[m][i])
             old == Without(calls)
  <2>1. Innermost \in Frame /\ Innermost.op = "followers" /\ Innermost.of = m
        /\ Innermost = calls[Len(calls)] /\ calls # <<>>
    BY <1>1, <1>8, RunsFacts DEF NextFollower
  <2>2. calls' = Append(Append(old, walk), c)
    BY <1>8 DEF NextFollower
  <2>3. walk.of = m /\ walk.at = Innermost.at + 1 /\ Innermost.at \in Nat /\ c.op = "destroy"
    BY <2>1 DEF Frame, Call
  <2>4. /\ old \in Seq(Frame) /\ Len(old) = Len(calls) - 1 /\ Len(calls) \in Nat \ {0}
        /\ DOMAIN old = 1 .. (Len(calls) - 1)
        /\ \A x \in 1 .. (Len(calls) - 1) : old[x] = calls[x]
    BY <1>1, <2>1, WithoutLast
  <2> DEFINE n == Len(calls)
  <2> HIDE DEF walk, c, old, i
  <2>5. /\ DOMAIN calls' = 1 .. n + 1 /\ DOMAIN calls = 1 .. n /\ n \in Nat
        /\ calls'[n] = walk /\ calls'[n + 1] = c
        /\ \A x \in 1 .. (n - 1) : calls'[x] = calls[x]
    BY <1>1, <2>2, <2>4
  <2> HIDE DEF n
  <2>6. CASE k \in 1 .. (n - 1)
    BY <2>5, <2>6
  <2>7. CASE k = n
    BY <2>1, <2>3, <2>4, <2>5, <2>7 DEF n
  <2>8. CASE k = n + 1
    BY <2>3, <2>5, <2>8
  <2>9. k \in 1 .. (n - 1) \/ k = n \/ k = n + 1
    BY <2>5
  <2> QED
    BY <2>6, <2>7, <2>8, <2>9
<1>9. ASSUME NEW u \in Singleton, InstanceThere(u) \/ DeadReference(u) PROVE calls' = calls
  BY <1>9 DEF InstanceThere, DeadReference
<1>10. Exit => calls' = calls
  BY DEF Exit
<1> QED
  BY <1>2, <1>4, <1>5, <1>6, <1>7, <1>8, <1>9, <1>10 DEF Next, Return, Singleton

\* Only DestroyFollowers takes a place of its vector as passed.
LEMMA AheadAfter ==
  ASSUME IInv, Next, NEW m \in Master, NEW i \in Nat \ {0},
         Ahead(calls, m, i), ~Ahead(calls', m, i)
  PROVE  NextFollower(m) /\ i = Innermost.at + 1
<1>1. PICK k \in DOMAIN calls' :
        calls'[k].op = "followers" /\ calls'[k].of = m /\ ~(calls'[k].at < i)
  BY DEF Ahead
<1>2. ~(k \in DOMAIN calls /\ calls'[k] = calls[k])
  BY <1>1 DEF Ahead
<1>3. ASSUME NEW u \in Master, calls'[k] = Call("followers", u) PROVE FALSE
  BY <1>1, <1>3 DEF Call
<1>4. PICK u \in Master : /\ NextFollower(u) /\ k = Len(calls) /\ k \in DOMAIN calls
                          /\ calls[k].of = u /\ calls'[k].of = u
                          /\ calls[k].op = "followers"
                          /\ calls[k].at \in Nat /\ calls'[k].at = calls[k].at + 1
  BY <1>1, <1>2, <1>3, FramesAfter
<1>5. u = m /\ calls[k].at < i
  BY <1>1, <1>4 DEF Ahead
<1> QED
  BY <1>1, <1>4, <1>5 DEF Innermost

\* The vectors of followers only grow, and are deleted by DestroyFollowers.
LEMMA VectorsAfter ==
  ASSUME IInv, Next, NEW m \in Master
  PROVE  /\ list[m] = "deleted" => list'[m] = "deleted"
         /\ list'[m] = "deleted" /\ list[m] # "deleted" => FollowersDone(m)
         /\ \/ followers'[m] = followers[m]
            \/ \E f \in Follower : /\ InstanceMade(f) /\ MasterOf[f] = m
                                   /\ followers'[m] = Append(followers[m], f)
<1>1. list \in [Master -> {"none", "there", "deleted"}] /\ followers \in [Master -> Seq(Follower)]
      /\ MasterOf \in [Follower -> Master]
  BY LifetimesAssumption DEF IInv, TypeOK
<1>2. \/ death' = death
      \/ \E u \in Singleton : InstanceMade(u)
      \/ \E u \in Master : FollowersDone(u)
      \/ \E u \in Master : RunDestroyFollowers(u)
  BY DEF Next, Return, Turn, InstanceThere, DeadReference, MakeInstance, GracefulDelete, Exit,
     RunDestroySingleton, RunAtExitFn, RunAtexitCallback, Exiting,
     ConstructorThrows, InstanceDestroyed, NextFollower, death
<1>3. ASSUME NEW u \in Singleton, InstanceMade(u)
      PROVE  /\ list'[m] = "deleted" <=> list[m] = "deleted"
             /\ \/ followers'[m] = followers[m]
                \/ /\ u \in Follower /\ MasterOf[u] = m
                   /\ followers'[m] = Append(followers[m], u)
  <2>1. ScheduleDestruction(u)
    BY <1>3 DEF InstanceMade
  <2>2. \/ death' = death
        \/ u \in Master /\ ScheduleMaster(u) /\ followers' = followers
        \/ u \in Follower /\ AddFollower(u)
    BY <2>1 DEF ScheduleDestruction
  <2>3. CASE u \in Master /\ ScheduleMaster(u) /\ followers' = followers
    BY <1>1, <2>3 DEF ScheduleMaster
  <2>4. CASE u \in Follower /\ AddFollower(u)
    BY <1>1, <2>4 DEF AddFollower
  <2> QED
    BY <2>2, <2>3, <2>4 DEF death
<1>4. ASSUME NEW u \in Master, FollowersDone(u)
      PROVE  followers' = followers /\ list' = [list EXCEPT ![u] = "deleted"]
  BY <1>4 DEF FollowersDone
<1>5. ASSUME NEW u \in Master, RunDestroyFollowers(u)
      PROVE  followers' = followers /\ list' = list
  BY <1>5 DEF RunDestroyFollowers, Exiting
<1> QED
  BY <1>1, <1>2, <1>3, <1>4, <1>5 DEF death

\* A function leaves the list of exit functions only when it is called.
LEMMA TurnTaken ==
  ASSUME IInv, Next, NEW k \in DOMAIN exits,
         ~(k \in DOMAIN exits' /\ exits'[k] = exits[k])
  PROVE  k = Len(exits) /\ Turn /\ Exiting(exits[k])
<1>1. exits \in Seq(ExitFn)
  BY DEF IInv, TypeOK
<1>2. k \in Nat /\ DOMAIN exits = 1 .. Len(exits) /\ Len(exits) \in Nat
  BY <1>1
<1>3. exits' # exits
  OBVIOUS
<1>4. ASSUME NEW g, exits' = Append(exits, g) PROVE FALSE
  BY <1>1, <1>4
<1>5. ASSUME NEW g, NEW h, exits' = Append(Append(exits, g), h) PROVE FALSE
  BY <1>1, <1>5
<1>6. ASSUME NEW u \in Singleton, InstanceMade(u) PROVE FALSE
  <2>1. ScheduleDestruction(u)
    BY <1>6 DEF InstanceMade
  <2>2. \/ \E g : exits' = Append(exits, g)
        \/ \E g, h : exits' = Append(Append(exits, g), h)
    BY <1>3, <2>1 DEF ScheduleDestruction, ScheduleDefault, SchedulePhoenix,
                      ScheduleDeletable, SetLongevity, ScheduleMaster
  <2> QED
    BY <1>4, <1>5, <2>2
<1>7. Turn
  BY <1>3, <1>6 DEF Next, Return, InstanceThere, DeadReference, MakeInstance, GracefulDelete, Exit,
         ConstructorThrows, InstanceDestroyed, NextFollower, FollowersDone
<1>8. PICK f : Exiting(f)
  BY <1>7 DEF Turn, RunDestroySingleton, RunAtExitFn, RunAtexitCallback, RunDestroyFollowers
<1>9. exits # <<>> /\ exits' = Without(exits) /\ f = exits[Len(exits)]
  BY <1>8 DEF Exiting
<1>10. /\ DOMAIN exits' = 1 .. (Len(exits) - 1)
       /\ \A i \in 1 .. (Len(exits) - 1) : exits'[i] = exits[i]
  BY <1>1, <1>9, WithoutLast
<1>11. k = Len(exits)
  BY <1>2, <1>10
<1> QED
  BY <1>7, <1>8, <1>9, <1>11

\* A master that begins to die has its turn, with no call in progress.
LEMMA MasterDoomed ==
  ASSUME IInv, Next, NEW m \in Master, ~Dying(m), Dying(m)'
  PROVE  /\ calls = <<>> /\ exits # <<>> /\ exits[Len(exits)] = DestroySingleton(m)
         /\ Len(exits) \in DOMAIN exits /\ Len(exits) \in Nat /\ DOMAIN exits = 1 .. Len(exits)
<1>1. m \in Singleton \ (Deletable \cup Follower)
  BY PoliciesDisjoint DEF Singleton
<1>2. ASSUME RunAtExitFn, m = trackers[Len(trackers)] PROVE FALSE
  <2>1. trackers # <<>> /\ trackers \in Seq(Longevous)
    <3>1. AtExitFn \in ExitFn /\ exits # <<>> /\ AtExitFn = exits[Len(exits)]
      BY <1>2, ExitTurn DEF RunAtExitFn, Exiting
    <3>2. exits \in Seq(ExitFn) /\ trackers \in Seq(Longevous)
      BY DEF IInv, TypeOK
    <3>3. Len(exits) \in DOMAIN exits
      BY <3>1, <3>2
    <3>4. Times(AtExitFn) >= 1
      BY <3>1, <3>2, <3>3, CountPositive DEF Times
    <3>5. Len(trackers) >= 1
      BY <3>4 DEF IInv, TrackersFit
    <3> QED
      BY <3>2, <3>5
  <2>2. trackers[Len(trackers)] \in Longevous
    BY <2>1, WithoutLast
  <2> QED
    BY <1>2, <2>2, PoliciesDisjoint
<1>3. RunDestroySingleton(m)
  BY <1>1, <1>2, OnlyExitDooms
<1>4. calls = <<>> /\ exits # <<>> /\ exits[Len(exits)] = DestroySingleton(m)
  BY <1>3 DEF RunDestroySingleton, Exiting
<1>5. exits \in Seq(ExitFn)
  BY DEF IInv, TypeOK
<1> QED
  BY <1>4, <1>5

LEMMA FramesFirstStep ==
  ASSUME IInv, FramesFirst, Next PROVE FramesFirst'
<1>1. SUFFICES ASSUME NEW k \in DOMAIN calls', calls'[k].op = "followers"
               PROVE  k = 1 /\ calls'[k].of \in Master
                      /\ calls'[k].at <= Len(followers'[calls'[k].of])
  BY DEF FramesFirst
<1>2. \A m \in Master : followers[m] \in Seq(Follower)
  BY DEF IInv, TypeOK
<1>3. \A m \in Master, n \in Nat : n <= Len(followers[m]) => n <= Len(followers'[m])
  <2>1. \A m \in Master : Len(followers[m]) \in Nat
    BY <1>2
  <2>2. SUFFICES ASSUME NEW m \in Master PROVE Len(followers[m]) <= Len(followers'[m])
                        /\ Len(followers'[m]) \in Nat
    BY <2>1
  <2>3. followers'[m] = followers[m] \/ \E f \in Follower : followers'[m] = Append(followers[m], f)
    BY VectorsAfter
  <2> QED
    BY <1>2, <2>1, <2>3
<1>4. CASE k \in DOMAIN calls /\ calls'[k] = calls[k]
  <2>1. calls \in Seq(Frame)
    BY DEF IInv, TypeOK
  <2>2. calls[k] \in Frame
    BY <1>4, <2>1, ElementOfSeq
  <2>3. calls[k].at \in Nat
    BY <2>2 DEF Frame
  <2> QED
    BY <1>1, <1>3, <1>4, <2>3 DEF FramesFirst
<1>5. ASSUME NEW m \in Master, RunDestroyFollowers(m), k = 1, calls'[k] = Call("followers", m)
      PROVE  k = 1 /\ calls'[k].of \in Master
             /\ calls'[k].at <= Len(followers'[calls'[k].of])
  <2>1. calls'[k].of = m /\ calls'[k].at = 0
    BY <1>5 DEF Call
  <2>2. 0 <= Len(followers[m])
    BY <1>2
  <2> QED
    BY <1>3, <1>5, <2>1, <2>2
<1>6. ASSUME NEW m \in Master, NextFollower(m), k = Len(calls), k \in DOMAIN calls,
             calls[k].of = m, calls'[k].of = m, calls[k].op = "followers",
             calls[k].at \in Nat, calls'[k].at = calls[k].at + 1
      PROVE  k = 1 /\ calls'[k].of \in Master
             /\ calls'[k].at <= Len(followers'[calls'[k].of])
  <2>1. calls[k].at < Len(followers[m])
    BY <1>6 DEF NextFollower, Innermost
  <2>2. Len(followers[m]) \in Nat
    BY <1>2
  <2>3. calls[k].at + 1 <= Len(followers[m])
    BY <1>6, <2>1, <2>2
  <2> QED
    BY <1>3, <1>6, <2>3 DEF FramesFirst
<1> QED
  BY <1>1, <1>4, <1>5, <1>6, FramesAfter

\* DestroyFollowers returns only when the followers listed are all gone.
LEMMA WalkedAll ==
  ASSUME IInv, FramesFirst, FollowersListed, NEW m \in Master, FollowersDone(m),
         NEW f \in Follower, MasterOf[f] = m
  PROVE  f \notin pInstance
<1>1. SUFFICES ASSUME f \in pInstance PROVE FALSE
  OBVIOUS
<1>2. calls \in Seq(Frame) /\ followers[m] \in Seq(Follower)
  BY DEF IInv, TypeOK
<1>3. /\ calls # <<>> /\ calls[Len(calls)].op = "followers" /\ calls[Len(calls)].of = m
      /\ calls[Len(calls)].at = Len(followers[m])
  BY DEF FollowersDone, Runs, Innermost
<1>4. Len(calls) \in DOMAIN calls /\ DOMAIN calls = 1 .. Len(calls)
  BY <1>2, <1>3
<1>5. Len(calls) = 1
  BY <1>3, <1>4 DEF FramesFirst
<1>6. ~Dying(f)
  BY <1>3, <1>4, <1>5 DEF Dying, Within, Has
<1>7. PICK i \in DOMAIN followers[m] : Ahead(calls, m, i)
  BY <1>1, <1>6 DEF FollowersListed
<1>8. Len(followers[m]) < i
  BY <1>3, <1>4, <1>7 DEF Ahead
<1> QED
  BY <1>2, <1>7, <1>8

LEMMA FollowersListedStep ==
  ASSUME IInv, FramesFirst, FollowersListed, Next, ~broken' PROVE FollowersListed'
<1>1. SUFFICES ASSUME NEW f \in Follower, f \in pInstance'
               PROVE  /\ list'[MasterOf[f]] # "deleted"
                      /\ \/ Dying(f)'
                         \/ \E i \in DOMAIN followers'[MasterOf[f]] :
                              followers'[MasterOf[f]][i] = f /\ Ahead(calls', MasterOf[f], i)
  BY DEF FollowersListed
<1> DEFINE m == MasterOf[f]
<1>2. m \in Master /\ f \in Singleton /\ followers[m] \in Seq(Follower)
  BY LifetimesAssumption DEF IInv, TypeOK, Singleton
<1>3. followers \in [Master -> Seq(Follower)] /\ list \in [Master -> {"none", "there", "deleted"}]
  BY DEF IInv, TypeOK
<1> HIDE DEF m
<1>4. CASE f \in pInstance
  <2>1. list'[m] # "deleted"
    <3>1. list[m] # "deleted"
      BY <1>4 DEF FollowersListed, m
    <3>2. ~FollowersDone(m)
      BY <1>2, <1>4, WalkedAll DEF m
    <3> QED
      BY <1>2, <3>1, <3>2, VectorsAfter
  <2>2. CASE Dying(f)
    <3>1. ~InstanceDestroyed(f)
      BY <1>1 DEF InstanceDestroyed
    <3>2. Dying(f)'
      <4>1. ~Within("destroy", f)' => InstanceDestroyed(f)
        BY <2>2, Goings DEF Dying
      <4> QED
        BY <3>1, <4>1 DEF Dying
    <3> QED
      BY <2>1, <3>2 DEF m
  <2>3. CASE ~Dying(f)
    <3>1. PICK i \in DOMAIN followers[m] : followers[m][i] = f /\ Ahead(calls, m, i)
      BY <1>4, <2>3 DEF FollowersListed, m
    <3>2. i \in Nat \ {0}
      BY <1>2, <3>1
    <3>3. i \in DOMAIN followers'[m] /\ followers'[m][i] = f
      <4>1. followers'[m] = followers[m] \/ \E g \in Follower : followers'[m] = Append(followers[m], g)
        BY <1>2, VectorsAfter
      <4> QED
        BY <1>2, <3>1, <4>1
    <3>4. CASE Ahead(calls', m, i)
      BY <2>1, <3>3, <3>4 DEF m
    <3>5. CASE ~Ahead(calls', m, i)
      <4>1. NextFollower(m) /\ i = Innermost.at + 1
        BY <1>2, <3>1, <3>2, <3>5, AheadAfter
      <4> DEFINE walk == [Innermost EXCEPT !.at = i]
                 c == Call("destroy", f)
                 old == Without(calls)
      <4>2. calls' = Append(Append(old, walk), c)
        BY <3>1, <4>1 DEF NextFollower
      <4>3. calls \in Seq(Frame) /\ calls # <<>>
        BY <4>1 DEF IInv, TypeOK, NextFollower, Runs
      <4>4. old \in Seq(Frame)
        BY <4>3, WithoutLast
      <4>5. c.op = "destroy" /\ c.of = f
        BY DEF Call
      <4> HIDE DEF walk, c, old
      <4>6. Len(old) + 2 \in DOMAIN calls' /\ calls'[Len(old) + 2] = c
        BY <4>2, <4>4
      <4>7. Dying(f)'
        BY <4>5, <4>6 DEF Dying, Within, Has
      <4> QED
        BY <2>1, <4>7 DEF m
    <3> QED
      BY <3>4, <3>5
  <2> QED
    BY <2>2, <2>3
<1>5. CASE f \notin pInstance
  <2>1. InstanceMade(f)
    BY <1>1, <1>2, <1>5, Comings
  <2>2. AddFollower(f) /\ calls' = Without(calls)
    BY <2>1, PoliciesDisjoint DEF InstanceMade, ScheduleDestruction
  <2>3. list[m] # "deleted"
    BY <2>2 DEF AddFollower, m
  <2>4. list'[m] # "deleted"
    BY <1>2, <2>1, <2>3, VectorsAfter DEF InstanceMade, FollowersDone, Runs
  <2> DEFINE i == Len(followers[m]) + 1
  <2>5. followers'[m] = Append(followers[m], f)
    BY <1>2, <1>3, <2>2 DEF AddFollower, m
  <2>6. i \in DOMAIN followers'[m] /\ followers'[m][i] = f
    BY <1>2, <2>5
  <2>7. Ahead(calls', m, i)
    <3>1. ASSUME NEW k \in DOMAIN calls', calls'[k].op = "followers", calls'[k].of = m
          PROVE  calls'[k].at < i
      <4>1. calls \in Seq(Frame) /\ calls # <<>>
        BY <2>1 DEF IInv, TypeOK, InstanceMade, Runs
      <4>2. k \in DOMAIN calls /\ calls'[k] = calls[k]
        <5>1. /\ DOMAIN calls' = 1 .. (Len(calls) - 1)
              /\ \A x \in 1 .. (Len(calls) - 1) : calls'[x] = calls[x]
              /\ DOMAIN calls = 1 .. Len(calls) /\ Len(calls) \in Nat
          BY <2>2, <4>1, WithoutLast
        <5> QED
          BY <5>1
      <4>3. calls[k].at <= Len(followers[m])
        BY <3>1, <4>2 DEF FramesFirst
      <4>4. calls[k] \in Frame
        BY <4>1, <4>2, ElementOfSeq
      <4>5. calls[k].at \in Nat /\ Len(followers[m]) \in Nat
        BY <1>2, <4>4 DEF Frame
      <4> QED
        BY <4>2, <4>3, <4>5
    <3> QED
      BY <3>1 DEF Ahead
  <2> QED
    BY <2>4, <2>6, <2>7 DEF m
<1> QED
  BY <1>4, <1>5

LEMMA MastersLaterStep ==
  ASSUME IInv, FramesFirst, MastersLater, Next PROVE MastersLater'
<1>1. exits \in Seq(ExitFn) /\ calls \in Seq(Frame)
  BY DEF IInv, TypeOK
<1>2. SUFFICES ASSUME NEW m \in Master
               PROVE  /\ Dying(m)' => list'[m] = "deleted"
                      /\ \A j \in DOMAIN exits' : exits'[j] = DestroySingleton(m) =>
                           \/ list'[m] = "deleted" \/ Within("followers", m)'
                           \/ \E k \in DOMAIN exits' : k > j /\ exits'[k] = DestroyFollowers(m)
  BY DEF MastersLater
<1>3. list[m] = "deleted" => list'[m] = "deleted"
  BY VectorsAfter
<1>4. DOMAIN exits = 1 .. Len(exits) /\ Len(exits) \in Nat
  BY <1>1
<1>5. ASSUME Dying(m)' PROVE list'[m] = "deleted"
  <2>1. CASE Dying(m)
    BY <1>3, <2>1 DEF MastersLater
  <2>2. CASE ~Dying(m)
    <3>1. /\ calls = <<>> /\ exits[Len(exits)] = DestroySingleton(m)
          /\ Len(exits) \in DOMAIN exits
      BY <1>5, <2>2, MasterDoomed
    <3>2. ~\E k \in DOMAIN exits : k > Len(exits)
      BY <1>4
    <3>3. ~Within("followers", m)
      BY <3>1 DEF Within, Has
    <3>4. list[m] = "deleted"
      BY <3>1, <3>2, <3>3 DEF MastersLater
    <3> QED
      BY <1>3, <3>4
  <2> QED
    BY <2>1, <2>2
<1>6. ASSUME Within("followers", m) PROVE list'[m] = "deleted" \/ Within("followers", m)'
  <2>1. CASE ~Within("followers", m)'
    <3>1. FollowersDone(m)
      BY <1>6, <2>1, Goings
    <3> QED
      BY <3>1 DEF FollowersDone, IInv, TypeOK
  <2> QED
    BY <2>1
<1>7. ASSUME NEW j \in DOMAIN exits', exits'[j] = DestroySingleton(m)
      PROVE  \/ list'[m] = "deleted" \/ Within("followers", m)'
             \/ \E k \in DOMAIN exits' : k > j /\ exits'[k] = DestroyFollowers(m)
  <2>1. CASE j \in DOMAIN exits /\ exits'[j] = exits[j]
    <3>1. \/ list[m] = "deleted" \/ Within("followers", m)
          \/ \E k \in DOMAIN exits : k > j /\ exits[k] = DestroyFollowers(m)
      BY <1>7, <2>1 DEF MastersLater
    <3>2. ASSUME NEW k \in DOMAIN exits, k > j, exits[k] = DestroyFollowers(m)
          PROVE  \/ Within("followers", m)'
                 \/ \E x \in DOMAIN exits' : x > j /\ exits'[x] = DestroyFollowers(m)
      <4>1. CASE k \in DOMAIN exits' /\ exits'[k] = exits[k]
        BY <3>2, <4>1
      <4>2. CASE ~(k \in DOMAIN exits' /\ exits'[k] = exits[k])
        <5>1. Turn /\ Exiting(DestroyFollowers(m))
          BY <3>2, <4>2, TurnTaken
        <5>2. RunDestroyFollowers(m)
          <6> DEFINE e == DestroyFollowers(m)
          <6>0. \A f : Exiting(f) => f = e
            BY <5>1 DEF Exiting
          <6>1. ASSUME NEW x PROVE ~Exiting(DestroySingleton(x)) /\ ~Exiting(AtexitCallback(x))
            <7>1. e # DestroySingleton(x)
              BY ExitFnsDiffer
            <7>2. e # AtexitCallback(x)
              <8>1. e.call = "DestroyFollowers" /\ AtexitCallback(x).call = "atexitCallback"
                BY DEF DestroyFollowers, AtexitCallback
              <8> QED
                BY <8>1
            <7> HIDE DEF e
            <7> QED
              BY <6>0, <7>1, <7>2
          <6>2. ~Exiting(AtExitFn)
            BY <6>0, ExitFnsDiffer
          <6>3. \A u : Exiting(DestroyFollowers(u)) => u = m
            <7>1. ASSUME NEW u, DestroyFollowers(u) = e PROVE u = m
              <8>1. DestroyFollowers(u).of = u /\ e.of = m
                BY DEF DestroyFollowers
              <8> QED
                BY <7>1, <8>1
            <7> HIDE DEF e
            <7> QED
              BY <6>0, <7>1
          <6> QED
            BY <5>1, <6>1, <6>2, <6>3
               DEF Turn, RunDestroySingleton, RunAtExitFn, RunAtexitCallback, RunDestroyFollowers
        <5>3. calls' = <<Call("followers", m)>>
          BY <5>2 DEF RunDestroyFollowers
        <5>4. 1 \in DOMAIN calls' /\ calls'[1] = Call("followers", m)
          BY <5>3
        <5> QED
          BY <5>4 DEF Within, Has, Call
      <4> QED
        BY <4>1, <4>2
    <3> QED
      BY <1>3, <1>6, <3>1, <3>2
  <2>2. CASE ~(j \in DOMAIN exits /\ exits'[j] = exits[j])
    <3>1. /\ j \notin DOMAIN exits /\ InstanceMade(m)
      BY <1>7, <2>2, LaterTurns
    <3>2. exits' = Append(Append(exits, DestroySingleton(m)), DestroyFollowers(m))
      BY <3>1, PoliciesDisjoint DEF InstanceMade, ScheduleDestruction, ScheduleMaster
    <3> DEFINE n == Len(exits)
    <3>3. /\ DOMAIN exits' = 1 .. n + 2 /\ n \in Nat
          /\ exits'[n + 2] = DestroyFollowers(m) /\ exits'[n + 1] = DestroySingleton(m)
      BY <1>1, <3>2
    <3>4. DestroyFollowers(m) # DestroySingleton(m)
      BY ExitFnsDiffer
    <3>5. j \in 1 .. n + 2 /\ j # n + 2
      BY <1>7, <3>3, <3>4
    <3>6. n + 2 \in DOMAIN exits' /\ n + 2 > j
      BY <3>3, <3>5
    <3> QED
      BY <3>3, <3>6
  <2> QED
    BY <2>1, <2>2
<1> QED
  BY <1>5, <1>7

LEMMA DeathsStep == IInv /\ DeathsFit /\ [Next]_vars => DeathsFit'
<1> SUFFICES ASSUME IInv, DeathsFit, [Next]_vars PROVE DeathsFit'
  OBVIOUS
<1>1. CASE UNCHANGED vars
  BY <1>1 DEF vars, holder, death, DeathsFit, FramesFirst, FollowersListed, MastersLater,
     Dying, Within, Ahead
<1>2. CASE Next
  <2>1. FramesFirst /\ FollowersListed /\ MastersLater
    BY <1>2, NotBroken DEF DeathsFit
  <2> QED
    BY <1>2, <2>1, FramesFirstStep, FollowersListedStep, MastersLaterStep DEF DeathsFit
<1> QED
  BY <1>1, <1>2

\* No destructor of a master runs while one of its followers is there, unless a
\* deleted vector has been used.
THEOREM FollowersDieBeforeMasters == Spec => []FollowersDieFirst
<1>1. IInv /\ DeathsFit => FollowersDieFirst
  BY LifetimesAssumption DEF DeathsFit, FollowersListed, MastersLater, FollowersDieFirst
<1> QED
  BY <1>1, InitDeathsFit, DeathsStep, Invariance, PTL DEF Spec
=============================================================================
