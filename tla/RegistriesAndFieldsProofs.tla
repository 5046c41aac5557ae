---------------------- MODULE RegistriesAndFieldsProofs ----------------------
(***************************************************************************)
(* Two components that say nothing of each other.  Registries: who         *)
(* outlives whom among ordered statics, what their modules register and    *)
(* the dispatchers call, for any statics, longevities, class hierarchy and *)
(* typelists.  CheckedFields: what SafeBitFields hold and who has to look  *)
(* at a CheckReturn, for words of any width and any number of fields,      *)
(* objects and returned values.                                            *)
(***************************************************************************)
EXTENDS Registries, CheckedFields, OperatorLemmas

-----------------------------------------------------------------------------
(* Ordered statics *)

Distinct(s) == \A i, j \in 1 .. Len(s) : s[i] = s[j] => i = j

\* createObjects has passed s.
Passed(s) ==
  \/ longevity[s] > loop.longevity
  \/ longevity[s] = loop.longevity /\ \E k \in 1 .. loop.i : objects[k] = s

StaticsTypeOK ==
  /\ longevity \in [Static -> 0 .. MaxLongevity]
  /\ local \in [Static -> Static \cup {NoStatic}]
  /\ objects \in Seq(Static) /\ Distinct(objects)
  /\ max \in 0 .. MaxLongevity /\ min \in 0 .. MaxLongevity
  /\ loop \in [longevity : 0 .. MaxLongevity, i : Nat] /\ loop.i <= Len(objects)
  /\ alive \in [Static -> Int]
  /\ trackers \in Seq(Static)
  /\ phase \in {"load", "create", "main", "exit"}

\* What was registered lies between the limits, all that is not local once
\* loading is over.
Registered ==
  /\ \A k \in 1 .. Len(objects) : min <= longevity[objects[k]] /\ longevity[objects[k]] <= max
  /\ phase # "load" => \A s \in Static : ~IsLocal(s) => Contains(objects, s)

\* What createObjects has passed is there, once unless it starts over.
Passing ==
  /\ phase = "load" => \A s \in Static : alive[s] = 0
  /\ phase = "create" =>
       \A n \in Static : alive[n] >= 0 /\ (~IsLocal(n) /\ Passed(n) => alive[n] > 0)
  /\ phase = "create" /\ min > 0 =>
       \A s \in Static : alive[s] <= 1 /\ (alive[s] > 0 => Passed(s))
  /\ min = 0 => phase \in {"load", "create"}

\* The queue destroys first what is to live shortest.
Sorted ==
  \A i, j \in 1 .. Len(trackers) : i <= j => longevity[trackers[i]] >= longevity[trackers[j]]

\* In main all are there; of what exit has destroyed, nothing was to live shorter
\* than what is left.
Leaving ==
  /\ phase = "main" => \A n \in Static : ~IsLocal(n) => alive[n] > 0
  /\ phase \in {"main", "exit"} => \A s \in Static : alive[s] <= 1
  /\ phase = "exit" =>
       \A n \in Static : ~IsLocal(n) /\ alive[n] <= 0 =>
         \A i \in 1 .. Len(trackers) : longevity[trackers[i]] >= longevity[n]

StaticsInv == StaticsTypeOK /\ Registered /\ Passing /\ Sorted /\ Leaving

-----------------------------------------------------------------------------
(* Sequences *)

\* new is s with e after its first p.
IsInsertion(new, s, e, p) ==
  /\ Len(new) = Len(s) + 1
  /\ \A j \in 1 .. p : new[j] = s[j]
  /\ new[p + 1] = e
  /\ \A j \in p + 2 .. Len(s) + 1 : new[j] = s[j - 1]

LEMMA InsertAtIs ==
  ASSUME NEW S, NEW s \in Seq(S), NEW e \in S, NEW p, p \in 0 .. Len(s)
  PROVE  InsertAt(s, p + 1, e) \in Seq(S) /\ IsInsertion(InsertAt(s, p + 1, e), s, e, p)
<1> DEFINE n == Len(s)
           front == SubSeq(s, 1, p)
           back == SubSeq(s, p + 1, n)
<1>1. n \in Nat /\ p \in Nat /\ p <= n
  OBVIOUS
<1>2. \A j \in 1 .. n : s[j] \in S
  BY ElementOfSeq
<1>3. front \in Seq(S) /\ Len(front) = p /\ \A j \in 1 .. p : front[j] = s[j]
  BY <1>1, <1>2
<1>4. back \in Seq(S) /\ Len(back) = n - p /\ \A j \in 1 .. n - p : back[j] = s[p + j]
  BY <1>1, <1>2
<1>5. InsertAt(s, p + 1, e) = front \o <<e>> \o back
  <2>1. (p + 1) - 1 = p
    BY <1>1
  <2>2. QED
    BY <2>1 DEF InsertAt
<1> HIDE DEF n, front, back
<1> DEFINE start == front \o <<e>>
<1>6. start \in Seq(S) /\ Len(start) = p + 1 /\ (\A j \in 1 .. p : start[j] = s[j]) /\ start[p + 1] = e
  BY <1>1, <1>3
<1> HIDE DEF start
<1>7. /\ start \o back \in Seq(S)
      /\ Len(start \o back) = n + 1
      /\ \A j \in 1 .. p + 1 : (start \o back)[j] = start[j]
      /\ \A j \in p + 2 .. n + 1 : (start \o back)[j] = back[j - (p + 1)]
  <2>1. start \o back \in Seq(S) /\ Len(start \o back) = Len(start) + Len(back)
    BY <1>4, <1>6, ConcatProperties
  <2>2. \A j \in 1 .. Len(start) : (start \o back)[j] = start[j]
    BY <1>1, <1>4, <1>6
  <2>3. \A j \in 1 .. Len(start) + Len(back) : j > Len(start) => (start \o back)[j] = back[j - Len(start)]
    BY <1>1, <1>4, <1>6
  <2>4. Len(start) = p + 1 /\ Len(back) = n - p
    BY <1>4, <1>6
  <2>5. \A j \in p + 2 .. n + 1 : (start \o back)[j] = back[j - (p + 1)]
    BY <1>1, <2>3, <2>4
  <2>6. QED
    BY <1>1, <2>1, <2>2, <2>4, <2>5
<1>8. \A j \in p + 2 .. n + 1 : back[j - (p + 1)] = s[j - 1]
  BY <1>1, <1>4
<1>9. InsertAt(s, p + 1, e) = start \o back
  BY <1>5 DEF start
<1>10. QED
  <2>1. \A j \in 1 .. p : (start \o back)[j] = s[j]
    BY <1>1, <1>6, <1>7
  <2>2. (start \o back)[p + 1] = e
    BY <1>1, <1>6, <1>7
  <2>3. \A j \in p + 2 .. n + 1 : (start \o back)[j] = s[j - 1]
    BY <1>7, <1>8
  <2>4. QED
    BY <1>7, <1>9, <2>1, <2>2, <2>3 DEF n, IsInsertion

-----------------------------------------------------------------------------
(* The queue of trackers *)

PlaceFor(l, p) ==
  /\ \A j \in 1 .. p : longevity[trackers[j]] >= l
  /\ \A j \in p + 1 .. Len(trackers) : longevity[trackers[j]] < l

(* There is a place for another in the queue. *)
LEMMA PlaceFound ==
  ASSUME StaticsTypeOK, Sorted, NEW l \in Nat
  PROVE  \E p \in 0 .. Len(trackers) : PlaceFor(l, p)
<1> DEFINE n == Len(trackers)
           Long(j) == longevity[trackers[j]]
           T == {j \in 1 .. n : Long(j) < l}
<1>1. n \in Nat /\ \A j \in 1 .. n : Long(j) \in Nat
  BY ElementOfSeq DEF StaticsTypeOK
<1>2. \A i, j \in 1 .. n : i <= j => Long(i) >= Long(j)
  BY DEF Sorted
<1> HIDE DEF n, Long
<1>3. \E p \in 0 .. n : (\A j \in 1 .. p : Long(j) >= l) /\ (\A j \in p + 1 .. n : Long(j) < l)
  <2>1. CASE T = {}
    <3>1. \A j \in 1 .. n : Long(j) >= l
      BY <1>1, <2>1
    <3>2. n \in 0 .. n /\ \A j \in n + 1 .. n : FALSE
      BY <1>1
    <3>3. QED
      BY <3>1, <3>2
  <2>2. CASE T # {}
    <3>1. PICK t \in T : \A j \in T : t <= j
      <4>1. T \in SUBSET Nat
        OBVIOUS
      <4> HIDE DEF T
      <4>2. QED
        BY <2>2, <4>1, NatLeast
    <3>2. t - 1 \in 0 .. n /\ t \in 1 .. n /\ Long(t) < l
      BY <1>1, <3>1
    <3>3. \A j \in 1 .. t - 1 : Long(j) >= l
      BY <1>1, <3>1, <3>2
    <3>4. \A j \in (t - 1) + 1 .. n : Long(j) < l
      BY <1>1, <1>2, <3>2
    <3>5. QED
      BY <3>2, <3>3, <3>4
  <2>3. QED
    BY <2>1, <2>2
<1>4. QED
  BY <1>3 DEF PlaceFor, n, Long

(* SetLongevity keeps the queue sorted. *)
LEMMA InsertedKeeps ==
  ASSUME StaticsTypeOK, Sorted, NEW s \in Static, trackers' = Inserted(s), longevity' = longevity
  PROVE  trackers' \in Seq(Static) /\ Sorted'
<1> DEFINE l == longevity[s]
           n == Len(trackers)
           pos == CHOOSE p \in 0 .. n : PlaceFor(l, p)
           Long(j) == longevity[trackers[j]]
           new == InsertAt(trackers, pos + 1, s)
<1>1. l \in Nat /\ n \in Nat /\ trackers \in Seq(Static)
  BY DEF StaticsTypeOK
<1>2. pos \in 0 .. n /\ PlaceFor(l, pos)
  BY <1>1, PlaceFound
<1>3. trackers' = new
  BY DEF Inserted, PlaceFor
<1>4. \A j \in 1 .. n : Long(j) \in Nat
  BY ElementOfSeq DEF StaticsTypeOK
<1>5. \A i, j \in 1 .. n : i <= j => Long(i) >= Long(j)
  BY DEF Sorted
<1>6. (\A j \in 1 .. pos : Long(j) >= l) /\ (\A j \in pos + 1 .. n : Long(j) < l)
  BY <1>2 DEF PlaceFor
<1> HIDE DEF pos
<1>7. /\ new \in Seq(Static) /\ Len(new) = n + 1
      /\ \A j \in 1 .. pos : new[j] = trackers[j]
      /\ new[pos + 1] = s
      /\ \A j \in pos + 2 .. n + 1 : new[j] = trackers[j - 1]
  <2>1. pos \in 0 .. Len(trackers)
    BY <1>2
  <2>2. new \in Seq(Static) /\ IsInsertion(new, trackers, s, pos)
    BY <1>1, <2>1, InsertAtIs
  <2> HIDE DEF new
  <2>3. QED
    BY <2>2 DEF IsInsertion
<1> HIDE DEF new, n
<1> DEFINE L(j) == longevity[new[j]]
<1>8. /\ \A j \in 1 .. pos : L(j) = Long(j)
      /\ L(pos + 1) = l
      /\ \A j \in pos + 2 .. n + 1 : L(j) = Long(j - 1)
  BY <1>7
<1> HIDE DEF L, Long, l
<1>9. ASSUME NEW i \in 1 .. n + 1, NEW j \in 1 .. n + 1, i <= j PROVE L(i) >= L(j)
  <2>1. CASE j <= pos
    BY <1>1, <1>2, <1>5, <1>8, <1>9, <2>1
  <2>2. CASE j = pos + 1 /\ i <= pos
    BY <1>1, <1>2, <1>6, <1>8, <1>9, <2>2
  <2>3. CASE i = j
    <3>1. L(i) \in Nat
      BY <1>1, <1>2, <1>4, <1>8
    <3>2. QED
      BY <2>3, <3>1
  <2>4. CASE j > pos + 1 /\ i = pos + 1
    <3>1. Long(j - 1) < l /\ L(j) = Long(j - 1) /\ j - 1 \in 1 .. n
      BY <1>1, <1>2, <1>6, <1>8, <2>4
    <3>2. Long(j - 1) \in Nat
      BY <1>4, <3>1
    <3>3. QED
      BY <1>1, <1>8, <2>4, <3>1, <3>2
  <2>5. CASE j > pos + 1 /\ i <= pos
    <3>1. j - 1 \in 1 .. n /\ i \in 1 .. n /\ i <= j - 1 /\ L(j) = Long(j - 1) /\ L(i) = Long(i)
      BY <1>1, <1>2, <1>8, <2>5
    <3>2. QED
      BY <1>5, <3>1
  <2>6. CASE j > pos + 1 /\ i > pos + 1
    <3>1. j - 1 \in 1 .. n /\ i - 1 \in 1 .. n /\ i - 1 <= j - 1 /\ L(j) = Long(j - 1) /\ L(i) = Long(i - 1)
      BY <1>1, <1>2, <1>8, <1>9, <2>6
    <3>2. QED
      BY <1>5, <3>1
  <2>7. QED
    BY <1>1, <1>2, <1>9, <2>1, <2>2, <2>3, <2>4, <2>5, <2>6
<1>10. QED
  BY <1>3, <1>7, <1>9 DEF Sorted, L

-----------------------------------------------------------------------------
(* Registration and createObjects *)

Limits == \A k \in 1 .. Len(objects) : min <= longevity[objects[k]] /\ longevity[objects[k]] <= max

(* Another static joins the list, and the limits are its as well. *)
LEMMA RegisteredKeeps ==
  ASSUME StaticsTypeOK, Limits, NEW s \in Static, ~Contains(objects, s),
         RegisterObject(s), longevity' = longevity
  PROVE  /\ objects' \in Seq(Static) /\ Distinct(objects') /\ Len(objects') = Len(objects) + 1
         /\ \A k \in 1 .. Len(objects) : objects'[k] = objects[k]
         /\ \A t \in Static : Contains(objects, t) => Contains(objects', t)
         /\ max' \in 0 .. MaxLongevity /\ min' \in 0 .. MaxLongevity /\ min' <= min
         /\ Limits'
<1>1. objects' = Append(objects, s) /\ objects \in Seq(Static) /\ Distinct(objects)
  BY DEF RegisterObject, StaticsTypeOK
<1>2. /\ objects' \in Seq(Static) /\ Len(objects') = Len(objects) + 1
      /\ \A k \in 1 .. Len(objects) : objects'[k] = objects[k]
      /\ objects'[Len(objects) + 1] = s
  BY <1>1
<1>3. Len(objects) \in Nat /\ \A k \in 1 .. Len(objects) : objects[k] # s
  BY <1>1 DEF Contains
<1>4. Distinct(objects')
  <2>1. \A k \in 1 .. Len(objects') : k \in 1 .. Len(objects) \/ k = Len(objects) + 1
    BY <1>2, <1>3
  <2>2. QED
    BY <1>1, <1>2, <1>3, <2>1 DEF Distinct
<1>5. /\ max' = IF longevity[s] > max THEN longevity[s] ELSE max
      /\ min' = IF longevity[s] < min THEN longevity[s] ELSE min
  BY DEF RegisterObject
<1>6. longevity[s] \in 0 .. MaxLongevity /\ max \in 0 .. MaxLongevity /\ min \in 0 .. MaxLongevity
  BY DEF StaticsTypeOK
<1>7. /\ max' \in 0 .. MaxLongevity /\ max' >= max /\ max' >= longevity[s]
      /\ min' \in 0 .. MaxLongevity /\ min' <= min /\ min' <= longevity[s]
  BY <1>5, <1>6, OrderedStaticsAssumption
<1>8. ASSUME NEW k \in 1 .. Len(objects')
      PROVE  min' <= longevity'[objects'[k]] /\ longevity'[objects'[k]] <= max'
  <2>1. CASE k = Len(objects) + 1
    BY <1>2, <1>7, <2>1
  <2>2. CASE k # Len(objects) + 1
    <3>1. k \in 1 .. Len(objects) /\ objects'[k] = objects[k]
      BY <1>2, <1>3, <2>2
    <3>2. objects[k] \in Static
      BY <1>1, <3>1
    <3>3. longevity[objects[k]] \in 0 .. MaxLongevity
      BY <3>2 DEF StaticsTypeOK
    <3>4. min <= longevity[objects[k]] /\ longevity[objects[k]] <= max
      BY <3>1 DEF Limits
    <3>5. QED
      BY <1>6, <1>7, <3>1, <3>3, <3>4
  <2>3. QED
    BY <2>1, <2>2
<1>9. \A t \in Static : Contains(objects, t) => Contains(objects', t)
  BY <1>2, <1>3 DEF Contains
<1>10. QED
  BY <1>2, <1>4, <1>7, <1>8, <1>9 DEF Limits

LEMMA LoadKeeps ==
  ASSUME StaticsInv, NEW s \in Static, Load(s)
  PROVE  StaticsInv'
<1>1. phase = "load" /\ phase' = "load" /\ ~Contains(objects, s) /\ RegisterObject(s)
      /\ longevity' = longevity /\ local' = local /\ loop' = loop /\ alive' = alive
      /\ trackers' = trackers
  BY DEF Load, choices, queue
<1>2. StaticsTypeOK /\ Limits
  BY DEF StaticsInv, Registered, Limits
<1>3. /\ objects' \in Seq(Static) /\ Distinct(objects') /\ Len(objects') = Len(objects) + 1
      /\ max' \in 0 .. MaxLongevity /\ min' \in 0 .. MaxLongevity /\ Limits'
  BY <1>1, <1>2, RegisteredKeeps
<1>4. StaticsTypeOK'
  BY <1>1, <1>2, <1>3 DEF StaticsTypeOK
<1>5. Registered' /\ Passing' /\ Sorted' /\ Leaving'
  BY <1>1, <1>3 DEF StaticsInv, Registered, Passing, Sorted, Leaving, Limits
<1>6. QED
  BY <1>4, <1>5 DEF StaticsInv

LEMMA MainKeeps ==
  ASSUME StaticsInv, Main
  PROVE  StaticsInv'
<1>1. /\ phase = "load" /\ phase' = "create" /\ loop' = [longevity |-> max, i |-> 0]
      /\ longevity' = longevity /\ local' = local /\ objects' = objects /\ max' = max /\ min' = min
      /\ alive' = alive /\ trackers' = trackers
      /\ \A s \in Static : IsLocal(s) \/ Contains(objects, s)
  BY DEF Main, choices, manager, queue
<1>2. StaticsTypeOK'
  BY <1>1 DEF StaticsInv, StaticsTypeOK
<1>3. Registered'
  BY <1>1 DEF StaticsInv, Registered, IsLocal
<1>4. \A s \in Static : alive[s] = 0
  BY <1>1 DEF StaticsInv, Passing
<1>5. \A n \in Static : ~IsLocal(n) => ~(longevity[n] > max)
  <2>1. ASSUME NEW n \in Static, ~IsLocal(n) PROVE ~(longevity[n] > max)
    <3>1. PICK k \in 1 .. Len(objects) : objects[k] = n
      BY <1>1, <2>1 DEF Contains
    <3>2. longevity[n] <= max
      BY <3>1 DEF StaticsInv, Registered
    <3>3. QED
      BY <3>2 DEF StaticsInv, StaticsTypeOK
  <2>2. QED
    BY <2>1
<1>6. \A n \in Static : ~IsLocal(n) => ~Passed(n)'
  BY <1>1, <1>5 DEF Passed
<1>7. Passing' /\ Sorted' /\ Leaving'
  BY <1>1, <1>4, <1>6 DEF StaticsInv, Passing, Sorted, Leaving, IsLocal
<1>8. QED
  BY <1>2, <1>3, <1>7 DEF StaticsInv

LEMMA PassKeeps ==
  ASSUME StaticsInv, Pass
  PROVE  StaticsInv'
<1>1. /\ phase = "create" /\ phase' = "create" /\ loop' = [loop EXCEPT !.i = @ + 1]
      /\ loop.i < Len(objects) /\ longevity[objects[loop.i + 1]] # loop.longevity
      /\ longevity' = longevity /\ local' = local /\ objects' = objects /\ max' = max /\ min' = min
      /\ alive' = alive /\ trackers' = trackers
  BY DEF Pass, Looping, Current, choices, manager, queue
<1>2. StaticsTypeOK
  BY DEF StaticsInv
<1>3. loop'.longevity = loop.longevity /\ loop'.i = loop.i + 1 /\ loop.i \in Nat
      /\ loop' \in [longevity : 0 .. MaxLongevity, i : Nat] /\ Len(objects) \in Nat
  <2>1. loop \in [longevity : 0 .. MaxLongevity, i : Nat]
    BY <1>2 DEF StaticsTypeOK
  <2>2. objects \in Seq(Static)
    BY <1>2 DEF StaticsTypeOK
  <2>3. Len(objects) \in Nat
    BY <2>2
  <2>4. QED
    BY <1>1, <2>1, <2>3
<1>4. StaticsTypeOK'
  BY <1>1, <1>2, <1>3 DEF StaticsTypeOK
<1>5. \A n \in Static : Passed(n)' <=> Passed(n)
  <2>1. \A k \in 1 .. loop.i + 1 : k \in 1 .. loop.i \/ k = loop.i + 1
    BY <1>3
  <2>2. \A k \in 1 .. loop.i : k \in 1 .. loop.i + 1
    BY <1>3
  <2>3. QED
    BY <1>1, <1>3, <2>1, <2>2 DEF Passed
<1>6. Registered' /\ Passing' /\ Sorted' /\ Leaving'
  BY <1>1, <1>5 DEF StaticsInv, Registered, Passing, Sorted, Leaving, IsLocal
<1>7. QED
  BY <1>4, <1>6 DEF StaticsInv

\* The next longevity is one less, but after 0 the greatest.
LEMMA DecrementIs ==
  ASSUME StaticsTypeOK
  PROVE  Decrement = IF loop.longevity = 0 THEN MaxLongevity ELSE loop.longevity - 1
<1> DEFINE m == MaxLongevity
           l == loop.longevity
<1>1. m \in Nat /\ l \in 0 .. m
  BY OrderedStaticsAssumption DEF StaticsTypeOK
<1>2. Decrement = (l + m) % (m + 1)
  BY DEF Decrement
<1> HIDE DEF m, l
<1>3. CASE l = 0
  <2>1. (l + m) % (m + 1) = m
    BY <1>1, <1>3
  <2>2. QED
    BY <1>2, <1>3, <2>1 DEF m, l
<1>4. CASE l # 0
  <2>1. l + m = (m + 1) + (l - 1) /\ l - 1 \in 0 .. m
    BY <1>1, <1>4
  <2>2. ((m + 1) + (l - 1)) % (m + 1) = l - 1
    <3> DEFINE q == m + 1
               r == l - 1
    <3>1. q \in Nat /\ q > 0 /\ r \in 0 .. q - 1
      BY <1>1, <2>1
    <3> HIDE DEF q, r
    <3>2. (q + r) % q = r
      BY <3>1
    <3>3. QED
      BY <3>2 DEF q, r
  <2>3. QED
    BY <1>2, <1>4, <2>1, <2>2 DEF m, l
<1>5. QED
  BY <1>3, <1>4

LEMMA NextLongevityKeeps ==
  ASSUME StaticsInv, NextLongevity
  PROVE  StaticsInv'
<1>1. /\ phase = "create" /\ phase' = "create" /\ loop' = [longevity |-> Decrement, i |-> 0]
      /\ loop.i = Len(objects) /\ loop.longevity >= min
      /\ longevity' = longevity /\ local' = local /\ objects' = objects /\ max' = max /\ min' = min
      /\ alive' = alive /\ trackers' = trackers
  BY DEF NextLongevity, Looping, choices, manager, queue
<1>2. StaticsTypeOK /\ MaxLongevity \in Nat
  BY OrderedStaticsAssumption DEF StaticsInv
<1>3. /\ loop.longevity \in 0 .. MaxLongevity /\ min \in 0 .. MaxLongevity
      /\ \A n \in Static : longevity[n] \in 0 .. MaxLongevity
  BY <1>2 DEF StaticsTypeOK
<1>4. loop'.longevity = (IF loop.longevity = 0 THEN MaxLongevity ELSE loop.longevity - 1)
      /\ loop'.i = 0
  BY <1>1, <1>2, DecrementIs
<1>5. loop'.longevity \in 0 .. MaxLongevity
  BY <1>2, <1>3, <1>4
<1>6. StaticsTypeOK'
  BY <1>1, <1>2, <1>5 DEF StaticsTypeOK
<1>7. \A n \in Static : Passed(n)' => longevity[n] > loop'.longevity
  BY <1>1, <1>4 DEF Passed
<1>8. ASSUME NEW n \in Static, ~IsLocal(n), Passed(n)' PROVE Passed(n)
  <2>1. longevity[n] > loop'.longevity
    BY <1>7, <1>8
  <2>2. loop.longevity # 0 /\ longevity[n] >= loop.longevity
    BY <1>2, <1>3, <1>4, <2>1
  <2>3. PICK k \in 1 .. Len(objects) : objects[k] = n
    BY <1>1, <1>8 DEF StaticsInv, Registered, Contains
  <2>4. QED
    BY <1>1, <1>3, <2>2, <2>3 DEF Passed
<1>9. ASSUME min > 0, NEW n \in Static, Passed(n) PROVE Passed(n)'
  <2>1. loop'.longevity = loop.longevity - 1
    BY <1>1, <1>3, <1>4, <1>9
  <2>2. longevity[n] >= loop.longevity
    BY <1>3, <1>9 DEF Passed
  <2>3. QED
    BY <1>1, <1>3, <2>1, <2>2 DEF Passed
<1>10. Passing'
  BY <1>1, <1>8, <1>9 DEF StaticsInv, Passing, IsLocal
<1>11. Registered' /\ Sorted' /\ Leaving'
  BY <1>1 DEF StaticsInv, Registered, Sorted, Leaving, IsLocal
<1>12. QED
  BY <1>6, <1>10, <1>11 DEF StaticsInv

\* What Create and Pass do to the loop.
LEMMA CreateKeeps ==
  ASSUME StaticsInv, NEW s \in Static, Create(s)
  PROVE  StaticsInv'
<1>1. /\ phase = "create" /\ phase' = "create" /\ loop' = [loop EXCEPT !.i = @ + 1]
      /\ loop.i < Len(objects) /\ objects[loop.i + 1] = s /\ longevity[s] = loop.longevity
      /\ longevity' = longevity /\ local' = local
      /\ alive' = [alive EXCEPT ![s] = @ + 1] /\ trackers' = Inserted(s)
  BY DEF Create, Looping, Current, choices
<1>2. StaticsTypeOK /\ Limits /\ Sorted
  BY DEF StaticsInv, Registered, Limits
<1>3. /\ loop \in [longevity : 0 .. MaxLongevity, i : Nat] /\ objects \in Seq(Static)
      /\ Distinct(objects) /\ alive \in [Static -> Int] /\ min \in 0 .. MaxLongevity
      /\ longevity \in [Static -> 0 .. MaxLongevity]
  BY <1>2 DEF StaticsTypeOK
<1>4. loop'.longevity = loop.longevity /\ loop'.i = loop.i + 1 /\ loop.i \in Nat
      /\ loop' \in [longevity : 0 .. MaxLongevity, i : Nat] /\ Len(objects) \in Nat
  <2>1. Len(objects) \in Nat
    BY <1>3
  <2>2. loop' = [loop EXCEPT !.i = @ + 1]
    BY <1>1
  <2>3. loop \in [longevity : 0 .. MaxLongevity, i : Nat]
    BY <1>3
  <2>4. QED
    BY <2>1, <2>2, <2>3
<1>5. /\ objects' \in Seq(Static) /\ Distinct(objects') /\ Len(objects') >= Len(objects)
      /\ Len(objects') \in Nat
      /\ \A k \in 1 .. Len(objects) : objects'[k] = objects[k]
      /\ \A t \in Static : Contains(objects, t) => Contains(objects', t)
      /\ max' \in 0 .. MaxLongevity /\ min' \in 0 .. MaxLongevity /\ min' <= min
      /\ Limits'
  <2>1. CASE local[s] # NoStatic /\ ~Contains(objects, local[s])
    <3>1. RegisterObject(local[s])
      BY <2>1 DEF Create
    <3>2. local[s] \in Static
      BY <1>2, <2>1 DEF StaticsTypeOK
    <3>3. /\ objects' \in Seq(Static) /\ Distinct(objects') /\ Len(objects') = Len(objects) + 1
          /\ \A k \in 1 .. Len(objects) : objects'[k] = objects[k]
          /\ \A t \in Static : Contains(objects, t) => Contains(objects', t)
          /\ max' \in 0 .. MaxLongevity /\ min' \in 0 .. MaxLongevity /\ min' <= min
          /\ Limits'
      BY <1>1, <1>2, <2>1, <3>1, <3>2, RegisteredKeeps
    <3>4. Len(objects') >= Len(objects) /\ Len(objects') \in Nat
      BY <1>4, <3>3
    <3>5. QED
      BY <3>3, <3>4
  <2>2. CASE ~(local[s] # NoStatic /\ ~Contains(objects, local[s]))
    <3>1. objects' = objects /\ max' = max /\ min' = min
      BY <2>2 DEF Create, manager
    <3>2. QED
      BY <1>1, <1>2, <1>3, <1>4, <3>1 DEF StaticsTypeOK, Limits
  <2>3. QED
    BY <2>1, <2>2
<1>6. trackers' \in Seq(Static) /\ Sorted'
  BY <1>1, <1>2, InsertedKeeps
<1>7. alive' \in [Static -> Int] /\ alive'[s] = alive[s] + 1
      /\ \A t \in Static : alive[t] \in Int /\ (t # s => alive'[t] = alive[t])
  BY <1>1, <1>3
<1>8. StaticsTypeOK'
  <2>1. loop'.i <= Len(objects')
    BY <1>1, <1>4, <1>5
  <2>2. QED
    BY <1>1, <1>2, <1>4, <1>5, <1>6, <1>7, <2>1 DEF StaticsTypeOK
<1>9. Registered'
  BY <1>1, <1>5 DEF StaticsInv, Registered, Limits, IsLocal
<1>10. ASSUME NEW n \in Static PROVE Passed(n)' <=> Passed(n) \/ n = s
  <2>1. \A k \in 1 .. loop.i + 1 : k \in 1 .. Len(objects) /\ (k \in 1 .. loop.i \/ k = loop.i + 1)
    BY <1>1, <1>4
  <2>2. \A k \in 1 .. loop.i : k \in 1 .. loop.i + 1
    BY <1>4
  <2>3. \A k \in 1 .. loop.i + 1 : objects'[k] = objects[k]
    BY <1>5, <2>1
  <2>4. loop.i + 1 \in 1 .. loop.i + 1
    BY <1>4
  <2>5. (\E k \in 1 .. loop'.i : objects'[k] = n) <=> (\E k \in 1 .. loop.i : objects[k] = n) \/ n = s
    BY <1>1, <1>4, <2>1, <2>2, <2>3, <2>4
  <2>6. QED
    BY <1>1, <1>4, <2>5 DEF Passed
<1>11. ~Passed(s)
  <2>1. ~(longevity[s] > loop.longevity)
    BY <1>1, <1>3
  <2>2. ASSUME NEW k \in 1 .. loop.i, objects[k] = s PROVE FALSE
    <3>1. k \in 1 .. Len(objects) /\ loop.i + 1 \in 1 .. Len(objects) /\ k # loop.i + 1
      BY <1>1, <1>4
    <3>2. QED
      BY <1>1, <1>3, <2>2, <3>1 DEF Distinct
  <2>3. QED
    BY <2>1, <2>2 DEF Passed
<1>12. Passing'
  <2>1. ASSUME NEW n \in Static
        PROVE  alive'[n] >= 0 /\ (~IsLocal(n) /\ Passed(n)' => alive'[n] > 0)
    BY <1>1, <1>7, <1>10 DEF StaticsInv, Passing
  <2>2. ASSUME min' > 0, NEW n \in Static PROVE alive'[n] <= 1 /\ (alive'[n] > 0 => Passed(n)')
    <3>1. min > 0
      BY <1>3, <1>5, <2>2
    <3>2. alive[n] <= 1 /\ (alive[n] > 0 => Passed(n))
      BY <1>1, <3>1 DEF StaticsInv, Passing
    <3>3. QED
      BY <1>7, <1>10, <1>11, <3>2
  <2>3. QED
    BY <1>1, <2>1, <2>2 DEF Passing, IsLocal
<1>13. Leaving'
  BY <1>1 DEF Leaving
<1>14. QED
  BY <1>6, <1>8, <1>9, <1>12, <1>13 DEF StaticsInv

(* createObjects ends with everything created that was registered before. *)
LEMMA EndCreationKeeps ==
  ASSUME StaticsInv, EndCreation
  PROVE  StaticsInv'
<1>1. /\ phase = "create" /\ phase' = "main" /\ loop' = [longevity |-> 0, i |-> 0]
      /\ ~(loop.longevity >= min)
      /\ longevity' = longevity /\ local' = local /\ objects' = objects /\ max' = max /\ min' = min
      /\ alive' = alive /\ trackers' = trackers
  BY DEF EndCreation, Looping, choices, manager, queue
<1>2. StaticsTypeOK /\ MaxLongevity \in Nat
  BY OrderedStaticsAssumption DEF StaticsInv
<1>3. loop.longevity \in 0 .. MaxLongevity /\ min \in 0 .. MaxLongevity
      /\ \A n \in Static : longevity[n] \in 0 .. MaxLongevity
  BY <1>2 DEF StaticsTypeOK
<1>4. StaticsTypeOK'
  BY <1>1, <1>2 DEF StaticsTypeOK
<1>5. ASSUME NEW n \in Static, ~IsLocal(n) PROVE alive[n] > 0
  <2>1. PICK k \in 1 .. Len(objects) : objects[k] = n
    BY <1>1, <1>5 DEF StaticsInv, Registered, Contains
  <2>2. min <= longevity[n]
    BY <2>1 DEF StaticsInv, Registered
  <2>3. longevity[n] > loop.longevity
    BY <1>1, <1>3, <2>2
  <2>4. QED
    BY <1>1, <1>5, <2>3 DEF StaticsInv, Passing, Passed
<1>6. min > 0
  BY <1>1, <1>3
<1>7. \A n \in Static : alive[n] <= 1
  BY <1>1, <1>6 DEF StaticsInv, Passing
<1>8. Registered' /\ Passing' /\ Sorted'
  BY <1>1, <1>3, <1>6 DEF StaticsInv, Registered, Passing, Sorted, IsLocal
<1>9. Leaving'
  BY <1>1, <1>5, <1>7 DEF Leaving, IsLocal
<1>10. QED
  BY <1>4, <1>8, <1>9 DEF StaticsInv

-----------------------------------------------------------------------------
(* exit *)

LEMMA ExitKeeps ==
  ASSUME StaticsInv, Exit
  PROVE  StaticsInv'
<1>1. /\ phase = "main" /\ phase' = "exit" /\ loop' = loop
      /\ longevity' = longevity /\ local' = local /\ objects' = objects /\ max' = max /\ min' = min
      /\ alive' = alive /\ trackers' = trackers
  BY DEF Exit, choices, manager, queue
<1>2. StaticsTypeOK'
  BY <1>1 DEF StaticsInv, StaticsTypeOK
<1>3. Registered' /\ Passing' /\ Sorted'
  BY <1>1 DEF StaticsInv, Registered, Passing, Sorted, IsLocal
<1>4. \A n \in Static : alive[n] \in Int
  BY DEF StaticsInv, StaticsTypeOK
<1>5. Leaving'
  BY <1>1, <1>4 DEF StaticsInv, Leaving, IsLocal
<1>6. QED
  BY <1>2, <1>3, <1>5 DEF StaticsInv

LEMMA FrontIs ==
  ASSUME NEW S, NEW s \in Seq(S), s # <<>>
  PROVE  /\ Front(s) \in Seq(S) /\ Len(Front(s)) = Len(s) - 1 /\ Len(s) \in Nat \ {0}
         /\ \A k \in 1 .. Len(s) - 1 : Front(s)[k] = s[k]
         /\ Last(s) = s[Len(s)] /\ Last(s) \in S
<1> DEFINE n == Len(s) - 1
<1>1. Len(s) \in Nat \ {0}
  BY EmptySeq
<1>2. (\A k \in 1 .. n : s[k] \in S) /\ s[Len(s)] \in S /\ n \in Nat /\ n <= Len(s)
  BY <1>1, ElementOfSeq
<1> HIDE DEF n
<1>3. SubSeq(s, 1, n) \in Seq(S) /\ Len(SubSeq(s, 1, n)) = n /\ \A k \in 1 .. n : SubSeq(s, 1, n)[k] = s[k]
  BY <1>1, <1>2
<1>4. Front(s) = SubSeq(s, 1, n)
  BY DEF Front, n
<1>5. QED
  BY <1>1, <1>2, <1>3, <1>4 DEF Last, n

(* The back of the queue is to live no longer than what is left. *)
LEMMA AtExitFnKeeps ==
  ASSUME StaticsInv, NEW s \in Static, AtExitFn(s)
  PROVE  StaticsInv'
<1>1. /\ phase = "exit" /\ phase' = "exit" /\ loop' = loop
      /\ longevity' = longevity /\ local' = local /\ objects' = objects /\ max' = max /\ min' = min
      /\ alive' = [alive EXCEPT ![s] = @ - 1] /\ trackers # <<>> /\ trackers' = Front(trackers)
      /\ s = Last(trackers)
  BY DEF AtExitFn, choices, manager
<1>2. StaticsTypeOK
  BY DEF StaticsInv
<1>3. trackers \in Seq(Static) /\ alive \in [Static -> Int]
      /\ longevity \in [Static -> 0 .. MaxLongevity]
  BY <1>2 DEF StaticsTypeOK
<1>4. /\ trackers' \in Seq(Static) /\ Len(trackers') = Len(trackers) - 1 /\ Len(trackers) \in Nat \ {0}
      /\ \A k \in 1 .. Len(trackers) - 1 : trackers'[k] = trackers[k]
      /\ s = trackers[Len(trackers)]
  BY <1>1, <1>3, FrontIs
<1>5. alive' \in [Static -> Int] /\ alive'[s] = alive[s] - 1
      /\ \A t \in Static : alive[t] \in Int /\ (t # s => alive'[t] = alive[t])
  BY <1>1, <1>3
<1>6. StaticsTypeOK'
  BY <1>1, <1>2, <1>4, <1>5 DEF StaticsTypeOK
<1>7. Registered' /\ Passing'
  BY <1>1 DEF StaticsInv, Registered, Passing, IsLocal
<1>8. \A k \in 1 .. Len(trackers') : k \in 1 .. Len(trackers) /\ trackers'[k] = trackers[k]
  BY <1>4
<1>9. Sorted'
  BY <1>1, <1>8 DEF StaticsInv, Sorted
<1>10. \A k \in 1 .. Len(trackers') : longevity[trackers[k]] >= longevity[s]
  <2>1. \A k \in 1 .. Len(trackers) : longevity[trackers[k]] >= longevity[trackers[Len(trackers)]]
    BY <1>4 DEF StaticsInv, Sorted
  <2>2. QED
    BY <1>4, <1>8, <2>1
<1>11. Leaving'
  <2>1. \A n \in Static : alive'[n] <= 1
    BY <1>1, <1>5 DEF StaticsInv, Leaving
  <2>2. ASSUME NEW n \in Static, ~IsLocal(n), alive'[n] <= 0, NEW k \in 1 .. Len(trackers')
        PROVE  longevity[trackers'[k]] >= longevity[n]
    <3>1. CASE n = s
      BY <1>8, <1>10, <3>1
    <3>2. CASE n # s
      <4>1. alive[n] <= 0
        BY <1>5, <2>2, <3>2
      <4>2. k \in 1 .. Len(trackers) /\ trackers'[k] = trackers[k]
        BY <1>8
      <4>3. QED
        BY <1>1, <2>2, <4>1, <4>2 DEF StaticsInv, Leaving
    <3>3. QED
      BY <3>1, <3>2
  <2>3. QED
    BY <1>1, <2>1, <2>2 DEF Leaving, IsLocal
<1>12. QED
  BY <1>6, <1>7, <1>9, <1>11 DEF StaticsInv

-----------------------------------------------------------------------------
(* The invariant of the ordered statics, and who outlives whom *)

LEMMA StaticsInvInit ==
  ASSUME Init
  PROVE  StaticsInv
<1>1. MaxLongevity \in Nat /\ longevity \in [Static -> 0 .. MaxLongevity]
      /\ local \in [Static -> Static \cup {NoStatic}]
  BY OrderedStaticsAssumption DEF Init
<1>2. /\ objects = <<>> /\ trackers = <<>> /\ max = 0 /\ min = MaxLongevity /\ phase = "load"
      /\ loop = [longevity |-> 0, i |-> 0] /\ alive = [s \in Static |-> 0]
  BY DEF Init
<1>3. <<>> \in Seq(Static) /\ Len(<<>>) = 0
  OBVIOUS
<1>4. StaticsTypeOK
  BY <1>1, <1>2, <1>3 DEF StaticsTypeOK, Distinct
<1>5. Registered /\ Passing /\ Sorted /\ Leaving
  BY <1>1, <1>2, <1>3 DEF Registered, Passing, Sorted, Leaving
<1>6. QED
  BY <1>4, <1>5 DEF StaticsInv

\* What a step of the registries is for the ordered statics.
StaticsStep ==
  \/ \E s \in Static : Load(s) \/ Create(s) \/ AtExitFn(s)
  \/ Main \/ Pass \/ NextLongevity \/ EndCreation \/ Exit
  \/ UNCHANGED staticVars

LEMMA StepOfStatics ==
  ASSUME [RegistriesNext]_vars
  PROVE  StaticsStep
  BY DEF RegistriesNext, Proceeds, CreateModule, DestroyModule, MainAdds, MainRemoves, vars, StaticsStep

LEMMA StaticsInvStep ==
  ASSUME StaticsInv, StaticsStep
  PROVE  StaticsInv'
<1>1. CASE UNCHANGED staticVars
  <2>1. /\ longevity' = longevity /\ local' = local /\ objects' = objects /\ max' = max /\ min' = min
        /\ alive' = alive /\ trackers' = trackers /\ phase' = phase /\ loop' = loop
    BY <1>1 DEF staticVars, choices, manager, queue
  <2>2. StaticsTypeOK'
    BY <2>1 DEF StaticsInv, StaticsTypeOK
  <2>3. Registered' /\ Passing' /\ Sorted' /\ Leaving'
    BY <2>1 DEF StaticsInv, Registered, Passing, Sorted, Leaving, IsLocal, Passed
  <2>4. QED
    BY <2>2, <2>3 DEF StaticsInv
<1>2. QED
  BY <1>1, LoadKeeps, MainKeeps, CreateKeeps, PassKeeps, NextLongevityKeeps, EndCreationKeeps,
     ExitKeeps, AtExitFnKeeps DEF StaticsStep

LEMMA OutlivedStep ==
  ASSUME StaticsInv, StaticsStep, NEW s \in Static, alive'[s] # alive[s], NEW n \in Needs(s)
  PROVE  alive[n] > 0
<1>1. n \in Static /\ ~IsLocal(n) /\ longevity[n] > longevity[s]
  BY DEF Needs
<1>2. alive \in [Static -> Int] /\ \A t \in Static : longevity[t] \in Int
  BY DEF StaticsInv, StaticsTypeOK
<1>3. PICK t \in Static : Create(t) \/ AtExitFn(t)
  BY DEF StaticsStep, Load, Main, Pass, NextLongevity, EndCreation, Exit, queue, staticVars
<1>4. CASE Create(t)
  <2>1. phase = "create" /\ longevity[t] = loop.longevity /\ alive' = [alive EXCEPT ![t] = @ + 1]
    BY <1>4 DEF Create, Looping
  <2>2. t = s
    BY <1>2, <2>1
  <2>3. Passed(n)
    BY <1>1, <2>1, <2>2 DEF Passed
  <2>4. QED
    BY <1>1, <2>1, <2>3 DEF StaticsInv, Passing
<1>5. CASE AtExitFn(t)
  <2>1. phase = "exit" /\ trackers # <<>> /\ t = Last(trackers) /\ alive' = [alive EXCEPT ![t] = @ - 1]
    BY <1>5 DEF AtExitFn
  <2>2. t = s
    BY <1>2, <2>1
  <2>3. trackers \in Seq(Static)
    BY DEF StaticsInv, StaticsTypeOK
  <2>4. Len(trackers) \in 1 .. Len(trackers) /\ s = trackers[Len(trackers)]
    <3>1. Last(trackers) = trackers[Len(trackers)] /\ Len(trackers) \in Nat \ {0}
      BY <2>1, <2>3, FrontIs
    <3>2. Len(trackers) \in 1 .. Len(trackers)
      BY <3>1
    <3>3. s = Last(trackers)
      BY <2>1, <2>2
    <3>4. QED
      BY <3>1, <3>2, <3>3
  <2>5. ~(longevity[trackers[Len(trackers)]] >= longevity[n])
    BY <1>1, <1>2, <2>4
  <2>6. ~(alive[n] <= 0)
    BY <1>1, <2>1, <2>4, <2>5 DEF StaticsInv, Leaving
  <2>7. QED
    BY <1>1, <1>2, <2>6
<1>6. QED
  BY <1>3, <1>4, <1>5

(* Whatever the linker's order, an ordered static is created and destroyed  *)
(* only while everything registered before main that is to outlive it is    *)
(* there, for any number of statics, any longevities and any locals         *)
(* (OrderedStatic.cpp's createObjects, SetLongevity and AtExitFn).          *)
THEOREM NeedsOutlive ==
  Spec => OutlivedByNeeds
<1>1. RegistriesInit => StaticsInv
  BY StaticsInvInit DEF RegistriesInit
<1>2. StaticsInv /\ [RegistriesNext]_vars => StaticsInv'
  BY StepOfStatics, StaticsInvStep
<1>3. StaticsInv /\ [RegistriesNext]_vars =>
        [\A s \in Static : alive'[s] # alive[s] => \A n \in Needs(s) : alive[n] > 0]_staticVars
  BY StepOfStatics, OutlivedStep
<1>4. QED
  BY <1>1, <1>2, <1>3, PTL DEF Spec, OutlivedByNeeds

-----------------------------------------------------------------------------
(* The sets of Register.h *)

\* The first n of a list name c.
Within(list, n, c) == \E j \in 1 .. n : list[j] = c

Table(V) == [Class -> V \cup {NoCreator}]

\* From a on, pass k registers list[k], with what "made" has for it.
Fills(pass, list, V, made, a) ==
  /\ list \in Seq(Class) /\ made \in [Class -> V] /\ NoCreator \notin V /\ a \in Table(V)
  /\ \A k \in 1 .. Len(list), v \in Table(V) :
       pass[k][v] = IF v[list[k]] = NoCreator THEN [v EXCEPT ![list[k]] = made[list[k]]] ELSE v

\* From a on, pass k unregisters the k-th of the list from its end.
Erases(pass, list, V, a) ==
  /\ list \in Seq(Class) /\ a \in Table(V)
  /\ \A k \in 1 .. Len(list), v \in Table(V) :
       pass[k][v] = [v EXCEPT ![list[Len(list) - k + 1]] = NoCreator]

(* A class of the list that had no creator gets one, and nothing else changes. *)
LEMMA Filled ==
  ASSUME NEW V, NEW a, NEW list, NEW made, NEW pass, Fills(pass, list, V, made, a)
  PROVE  /\ Loop(pass, a, Len(list)) \in Table(V)
         /\ \A c \in Class :
              Loop(pass, a, Len(list))[c] =
                IF a[c] = NoCreator /\ Contains(list, c) THEN made[c] ELSE a[c]
<1> DEFINE A == Table(V)
           n == Len(list)
           g == Passes(pass, a, n)
           P == {k \in 0 .. n : \A c \in Class :
                   g[k][c] = IF a[c] = NoCreator /\ Within(list, k, c) THEN made[c] ELSE a[c]}
<1>0. list \in Seq(Class) /\ a \in A /\ A = [Class -> V \cup {NoCreator}]
      /\ made \in [Class -> V] /\ NoCreator \notin V
  BY DEF Fills, Table
<1>1. n \in Nat /\ \A k \in 1 .. n : list[k] \in Class
  BY <1>0, ElementOfSeq
<1>2. Keeps(pass, a, n, A)
  <2>1. ASSUME NEW k \in 1 .. n, NEW v \in A PROVE pass[k][v] \in A
    <3>1. pass[k][v] = IF v[list[k]] = NoCreator THEN [v EXCEPT ![list[k]] = made[list[k]]] ELSE v
      BY DEF Fills
    <3>2. list[k] \in Class /\ made[list[k]] \in V
      BY <1>0, <1>1
    <3>3. QED
      BY <1>0, <3>1, <3>2
  <2>2. QED
    BY <1>0, <1>1, <2>1 DEF Keeps
<1>3. /\ g \in [0 .. n -> A] /\ g[0] = a /\ Loop(pass, a, n) = g[n]
      /\ \A k \in 1 .. n : g[k] = pass[k][g[k - 1]]
      /\ Loop(pass, a, n) \in A
  BY <1>2, PassesAre
<1> HIDE DEF g
<1>4. 0 \in P
  BY <1>0, <1>1, <1>3 DEF Within
<1>5. ASSUME NEW k \in 1 .. n, k - 1 \in P PROVE k \in P
  <2> DEFINE v == g[k - 1]
             d == list[k]
  <2>1. v \in A /\ d \in Class /\ k \in 0 .. n /\ k - 1 \in 0 .. n /\ made[d] \in V
    <3>1. k \in 0 .. n /\ k - 1 \in 0 .. n
      BY <1>1
    <3>2. v \in A
      BY <1>3, <3>1
    <3>3. QED
      BY <1>0, <1>1, <3>1, <3>2
  <2>2. g[k] = IF v[d] = NoCreator THEN [v EXCEPT ![d] = made[d]] ELSE v
    BY <1>3, <2>1 DEF Fills
  <2>3. ASSUME NEW c \in Class PROVE Within(list, k, c) <=> Within(list, k - 1, c) \/ c = d
    <3>1. \A j \in 1 .. k : j \in 1 .. k - 1 \/ j = k
      BY <1>1
    <3>2. (\A j \in 1 .. k - 1 : j \in 1 .. k) /\ k \in 1 .. k
      BY <1>1
    <3>3. QED
      BY <3>1, <3>2 DEF Within
  <2>4. \A c \in Class : v[c] = IF a[c] = NoCreator /\ Within(list, k - 1, c) THEN made[c] ELSE a[c]
    BY <1>5
  <2>5. \A c \in Class : made[c] # NoCreator
    BY <1>0
  <2> HIDE DEF v, d
  <2>6. ASSUME NEW c \in Class
        PROVE  g[k][c] = IF a[c] = NoCreator /\ Within(list, k, c) THEN made[c] ELSE a[c]
    <3>1. CASE c = d
      BY <1>0, <2>1, <2>2, <2>3, <2>4, <2>5, <3>1
    <3>2. CASE c # d
      BY <1>0, <2>1, <2>2, <2>3, <2>4, <3>2
    <3>3. QED
      BY <3>1, <3>2
  <2>7. QED
    BY <2>1, <2>6
<1> HIDE DEF P
<1>6. \A k \in 0 .. n : k \in P
  BY <1>1, <1>4, <1>5, EachAfterTheOneBefore
<1>7. \A c \in Class : g[n][c] = IF a[c] = NoCreator /\ Within(list, n, c) THEN made[c] ELSE a[c]
  BY <1>1, <1>6 DEF P
<1>8. QED
  BY <1>3, <1>7 DEF Within, Contains

(* The classes of the list have no creator any more, and nothing else changes. *)
LEMMA Erased ==
  ASSUME NEW V, NEW a, NEW list, NEW pass, Erases(pass, list, V, a)
  PROVE  /\ Loop(pass, a, Len(list)) \in Table(V)
         /\ \A c \in Class :
              Loop(pass, a, Len(list))[c] = IF Contains(list, c) THEN NoCreator ELSE a[c]
<1> DEFINE A == Table(V)
           n == Len(list)
           g == Passes(pass, a, n)
           FromEnd(k, c) == \E j \in n - k + 1 .. n : list[j] = c
           P == {k \in 0 .. n : \A c \in Class : g[k][c] = IF FromEnd(k, c) THEN NoCreator ELSE a[c]}
<1>0. list \in Seq(Class) /\ a \in A /\ A = [Class -> V \cup {NoCreator}]
  BY DEF Erases, Table
<1>1. n \in Nat /\ \A k \in 1 .. n : list[k] \in Class
  BY <1>0, ElementOfSeq
<1>2. Keeps(pass, a, n, A)
  <2>1. ASSUME NEW k \in 1 .. n, NEW v \in A PROVE pass[k][v] \in A
    <3>1. pass[k][v] = [v EXCEPT ![list[n - k + 1]] = NoCreator]
      BY DEF Erases
    <3>2. list[n - k + 1] \in Class
      BY <1>1
    <3>3. QED
      BY <1>0, <3>1, <3>2
  <2>2. QED
    BY <1>0, <1>1, <2>1 DEF Keeps
<1>3. /\ g \in [0 .. n -> A] /\ g[0] = a /\ Loop(pass, a, n) = g[n]
      /\ \A k \in 1 .. n : g[k] = pass[k][g[k - 1]]
      /\ Loop(pass, a, n) \in A
  BY <1>2, PassesAre
<1> HIDE DEF g
<1>4. 0 \in P
  BY <1>0, <1>1, <1>3
<1>5. ASSUME NEW k \in 1 .. n, k - 1 \in P PROVE k \in P
  <2> DEFINE v == g[k - 1]
             d == list[n - k + 1]
  <2>1. v \in A /\ d \in Class /\ k \in 0 .. n /\ k - 1 \in 0 .. n
    <3>1. k \in 0 .. n /\ k - 1 \in 0 .. n /\ n - k + 1 \in 1 .. n
      BY <1>1
    <3>2. v \in A
      BY <1>3, <3>1
    <3>3. QED
      BY <1>1, <3>1, <3>2
  <2>2. g[k] = [v EXCEPT ![d] = NoCreator]
    BY <1>3, <2>1 DEF Erases
  <2>3. ASSUME NEW c \in Class PROVE FromEnd(k, c) <=> FromEnd(k - 1, c) \/ c = d
    <3>1. \A j \in n - k + 1 .. n : j \in n - (k - 1) + 1 .. n \/ j = n - k + 1
      BY <1>1
    <3>2. (\A j \in n - (k - 1) + 1 .. n : j \in n - k + 1 .. n) /\ n - k + 1 \in n - k + 1 .. n
      BY <1>1
    <3>3. QED
      BY <3>1, <3>2
  <2>4. \A c \in Class : v[c] = IF FromEnd(k - 1, c) THEN NoCreator ELSE a[c]
    BY <1>5
  <2> HIDE DEF v, d, FromEnd
  <2>5. ASSUME NEW c \in Class PROVE g[k][c] = IF FromEnd(k, c) THEN NoCreator ELSE a[c]
    <3>1. CASE c = d
      BY <1>0, <2>1, <2>2, <2>3, <3>1
    <3>2. CASE c # d
      BY <1>0, <2>1, <2>2, <2>3, <2>4, <3>2
    <3>3. QED
      BY <3>1, <3>2
  <2>6. QED
    BY <2>1, <2>5
<1>6. \A k \in 0 .. n : k \in P
  <2> HIDE DEF P
  <2>1. QED
    BY <1>1, <1>4, <1>5, EachAfterTheOneBefore
<1>7. \A c \in Class : g[n][c] = IF FromEnd(n, c) THEN NoCreator ELSE a[c]
  <2>1. n \in P
    BY <1>1, <1>6
  <2>2. QED
    BY <2>1
<1>8. \A c \in Class : FromEnd(n, c) <=> Contains(list, c)
  <2>1. n - n + 1 = 1
    BY <1>1
  <2>2. QED
    BY <2>1 DEF Contains
<1>9. QED
  BY <1>3, <1>7, <1>8

(* RegisterOnCreateSet, UnRegisterOnDeleteSet *)
LEMMA SetRegistered ==
  ASSUME NEW a \in Associations, NEW list \in Seq(Class), NEW p \in ProductCreator
  PROVE  /\ RegisterSet(a, list, p) \in Associations
         /\ \A c \in Class :
              RegisterSet(a, list, p)[c] = IF a[c] = NoCreator /\ Contains(list, c) THEN p ELSE a[c]
<1> DEFINE pass == [k \in 1 .. Len(list) |-> [v \in Associations |-> Register(v, list[k], p)]]
           made == [c \in Class |-> p]
<1>1. Fills(pass, list, ProductCreator, made, a)
  <2>1. \A k \in 1 .. Len(list) : list[k] \in Class /\ made[list[k]] = p
    BY ElementOfSeq
  <2>2. \A k \in 1 .. Len(list), v \in Associations : pass[k][v] = Register(v, list[k], p)
    OBVIOUS
  <2>3. made \in [Class -> ProductCreator]
    OBVIOUS
  <2> HIDE DEF pass, made
  <2>4. QED
    BY <2>1, <2>2, <2>3, CreatorsAssumption DEF Fills, Register, Table, Associations
<1>2. RegisterSet(a, list, p) = Loop(pass, a, Len(list))
  BY DEF RegisterSet
<1>3. made \in [Class -> ProductCreator] /\ \A c \in Class : made[c] = p
  OBVIOUS
<1> HIDE DEF pass, made
<1>4. /\ Loop(pass, a, Len(list)) \in Associations
      /\ \A c \in Class :
           Loop(pass, a, Len(list))[c] = IF a[c] = NoCreator /\ Contains(list, c) THEN made[c] ELSE a[c]
  BY <1>1, Filled DEF Table, Associations
<1>5. QED
  BY <1>2, <1>3, <1>4

LEMMA SetUnregistered ==
  ASSUME NEW a \in Associations, NEW list \in Seq(Class)
  PROVE  /\ UnregisterSet(a, list) \in Associations
         /\ \A c \in Class :
              UnregisterSet(a, list)[c] = IF Contains(list, c) THEN NoCreator ELSE a[c]
<1> DEFINE pass == [k \in 1 .. Len(list) |->
                     [v \in Associations |-> Unregister(v, list[Len(list) - k + 1])]]
<1>1. Erases(pass, list, ProductCreator, a)
  <2>1. \A k \in 1 .. Len(list), v \in Associations : pass[k][v] = Unregister(v, list[Len(list) - k + 1])
    OBVIOUS
  <2> HIDE DEF pass
  <2>2. QED
    BY <2>1 DEF Erases, Unregister, Table, Associations
<1>2. UnregisterSet(a, list) = Loop(pass, a, Len(list))
  BY DEF UnregisterSet
<1> HIDE DEF pass
<1>3. QED
  BY <1>1, <1>2, Erased DEF Table, Associations

LEMMA CloneSetRegistered ==
  ASSUME NEW a \in CloneAssociations, NEW list \in Seq(Class)
  PROVE  /\ RegisterCloneSet(a, list) \in CloneAssociations
         /\ \A c \in Class :
              RegisterCloneSet(a, list)[c] = IF a[c] = NoCreator /\ Contains(list, c) THEN c ELSE a[c]
<1> DEFINE pass == [k \in 1 .. Len(list) |-> [v \in CloneAssociations |-> RegisterClone(v, list[k])]]
           made == [c \in Class |-> c]
<1>1. Fills(pass, list, Class, made, a)
  <2>1. \A k \in 1 .. Len(list) : list[k] \in Class /\ made[list[k]] = CloneProduct(list[k])
    BY ElementOfSeq DEF CloneProduct
  <2>2. \A k \in 1 .. Len(list), v \in CloneAssociations : pass[k][v] = RegisterClone(v, list[k])
    OBVIOUS
  <2>3. made \in [Class -> Class]
    OBVIOUS
  <2> HIDE DEF pass, made
  <2>4. QED
    BY <2>1, <2>2, <2>3, CreatorsAssumption DEF Fills, RegisterClone, Table, CloneAssociations
<1>2. RegisterCloneSet(a, list) = Loop(pass, a, Len(list))
  BY DEF RegisterCloneSet
<1>3. made \in [Class -> Class] /\ \A c \in Class : made[c] = c
  OBVIOUS
<1> HIDE DEF pass, made
<1>4. /\ Loop(pass, a, Len(list)) \in CloneAssociations
      /\ \A c \in Class :
           Loop(pass, a, Len(list))[c] = IF a[c] = NoCreator /\ Contains(list, c) THEN made[c] ELSE a[c]
  BY <1>1, Filled DEF Table, CloneAssociations
<1>5. QED
  BY <1>2, <1>3, <1>4

LEMMA CloneSetUnregistered ==
  ASSUME NEW a \in CloneAssociations, NEW list \in Seq(Class)
  PROVE  /\ UnregisterCloneSet(a, list) \in CloneAssociations
         /\ \A c \in Class :
              UnregisterCloneSet(a, list)[c] = IF Contains(list, c) THEN NoCreator ELSE a[c]
<1> DEFINE pass == [k \in 1 .. Len(list) |->
                     [v \in CloneAssociations |-> UnregisterClone(v, list[Len(list) - k + 1])]]
<1>1. Erases(pass, list, Class, a)
  <2>1. \A k \in 1 .. Len(list), v \in CloneAssociations :
          pass[k][v] = UnregisterClone(v, list[Len(list) - k + 1])
    OBVIOUS
  <2> HIDE DEF pass
  <2>2. QED
    BY <2>1 DEF Erases, UnregisterClone, Table, CloneAssociations
<1>2. UnregisterCloneSet(a, list) = Loop(pass, a, Len(list))
  BY DEF UnregisterCloneSet
<1> HIDE DEF pass
<1>3. QED
  BY <1>1, <1>2, Erased DEF Table, CloneAssociations

-----------------------------------------------------------------------------
(* Registries *)

\* Who may have added f is there.
Present(f) == f.of = "main" \/ (f.of \in Static /\ alive[f.of] > 0 /\ f = CallbackOf[f.of])

\* The dispatchers have the same callback for k, the same way round.
SameCallback(k, f, fn, functor) ==
  \/ /\ k = <<f.lhs, f.rhs>>
     /\ fn = [tag |-> "Trampoline", fun |-> f] /\ functor = [swapArgs |-> FALSE, fun |-> f]
  \/ /\ k = <<f.rhs, f.lhs>>
     /\ fn = [tag |-> "TrampolineR", fun |-> f] /\ functor = [swapArgs |-> TRUE, fun |-> f]

\* The adapters of both dispatchers for one pair of classes.
Entry(k) ==
  \/ fnMap[k] = NoCallback /\ functorMap[k] = NoCallback
  \/ \E f \in Function : Present(f) /\ SameCallback(k, f, fnMap[k], functorMap[k])

\* Who registered a class is there, and nobody if it was one that is not.
Associated(c) ==
  /\ clones[c] = IF factory[c] = NoCreator THEN NoCreator ELSE c
  /\ factory[c] # NoCreator =>
       alive[factory[c]] > 0 /\ Contains(ClassesOf[factory[c]], c)
  /\ \A s \in Static :
       Contains(ClassesOf[s], c) /\ (\A t \in Static \ {s} : ~Contains(ClassesOf[t], c))
         => (factory[c] = s <=> alive[s] > 0)

RegistriesInv ==
  /\ types \in Typelists
  /\ factory \in [Class -> Static \cup {NoCreator}]
  /\ clones \in CloneAssociations
  /\ \A c \in Class : Associated(c)
  /\ DOMAIN fnMap = Class \X Class /\ DOMAIN functorMap = Class \X Class
  /\ \A k \in Class \X Class : Entry(k)

-----------------------------------------------------------------------------
(* The life of a module *)

(* A module under construction is not there twice and has no unknown name. *)
LEMMA Creates ==
  ASSUME StaticsInv, NEW s \in Static, Create(s)
  PROVE  alive' = [alive EXCEPT ![s] = @ + 1] /\ alive \in [Static -> Int] /\ alive[s] >= 0
<1>1. phase = "create" /\ alive' = [alive EXCEPT ![s] = @ + 1]
  BY DEF Create, Looping
<1>2. QED
  BY <1>1 DEF StaticsInv, StaticsTypeOK, Passing

LEMMA Exits ==
  ASSUME StaticsInv, NEW s \in Static, AtExitFn(s)
  PROVE  alive' = [alive EXCEPT ![s] = @ - 1] /\ alive \in [Static -> Int] /\ alive[s] <= 1
<1>1. phase = "exit" /\ alive' = [alive EXCEPT ![s] = @ - 1]
  BY DEF AtExitFn
<1>2. QED
  BY <1>1 DEF StaticsInv, StaticsTypeOK, Leaving

LEMMA StaticIsNoUnknown == NoCreator \notin Static /\ Static \subseteq ProductCreator
  BY RegistriesAssumption, CreatorsAssumption

\* Who has a class, after a module has registered or unregistered its list.
HasFilled(s) ==
  /\ factory' \in [Class -> Static \cup {NoCreator}] /\ clones' \in CloneAssociations
  /\ \A c \in Class :
       /\ factory'[c] = IF factory[c] = NoCreator /\ Contains(ClassesOf[s], c) THEN s ELSE factory[c]
       /\ clones'[c] = IF clones[c] = NoCreator /\ Contains(ClassesOf[s], c) THEN c ELSE clones[c]

HasErased(s) ==
  /\ factory' \in [Class -> Static \cup {NoCreator}] /\ clones' \in CloneAssociations
  /\ \A c \in Class :
       /\ factory'[c] = IF Contains(ClassesOf[s], c) THEN NoCreator ELSE factory[c]
       /\ clones'[c] = IF Contains(ClassesOf[s], c) THEN NoCreator ELSE clones[c]

(* The sets of a module's classes, when it is created and when destroyed. *)
LEMMA ModuleFills ==
  ASSUME RegistriesInv, NEW s \in Static,
         factory' = RegisterSet(factory, ClassesOf[s], s),
         clones' = RegisterCloneSet(clones, ClassesOf[s])
  PROVE  HasFilled(s)
<1>1. ClassesOf[s] \in Seq(Class) /\ s \in ProductCreator
  BY RegistriesAssumption
<1>2. factory \in [Class -> Static \cup {NoCreator}] /\ clones \in CloneAssociations
  BY DEF RegistriesInv
<1>3. factory \in Associations
  BY <1>2, StaticIsNoUnknown DEF Associations
<1>4. /\ factory' \in Associations
      /\ \A c \in Class :
           factory'[c] = IF factory[c] = NoCreator /\ Contains(ClassesOf[s], c) THEN s ELSE factory[c]
  BY <1>1, <1>3, SetRegistered
<1>5. /\ clones' \in CloneAssociations
      /\ \A c \in Class :
           clones'[c] = IF clones[c] = NoCreator /\ Contains(ClassesOf[s], c) THEN c ELSE clones[c]
  BY <1>1, <1>2, CloneSetRegistered
<1>6. factory' \in [Class -> Static \cup {NoCreator}]
  <2>1. \A c \in Class : factory'[c] \in Static \cup {NoCreator}
    BY <1>2, <1>4
  <2>2. factory' = [c \in Class |-> factory'[c]]
    BY <1>4 DEF Associations
  <2>3. [c \in Class |-> factory'[c]] \in [Class -> Static \cup {NoCreator}]
    BY <2>1
  <2>4. QED
    BY <2>2, <2>3
<1>7. QED
  BY <1>4, <1>5, <1>6 DEF HasFilled

LEMMA ModuleErases ==
  ASSUME RegistriesInv, NEW s \in Static,
         factory' = UnregisterSet(factory, ClassesOf[s]),
         clones' = UnregisterCloneSet(clones, ClassesOf[s])
  PROVE  HasErased(s)
<1>1. ClassesOf[s] \in Seq(Class)
  BY RegistriesAssumption
<1>2. factory \in [Class -> Static \cup {NoCreator}] /\ clones \in CloneAssociations
  BY DEF RegistriesInv
<1>3. factory \in Associations
  BY <1>2, StaticIsNoUnknown DEF Associations
<1>4. /\ factory' \in Associations
      /\ \A c \in Class : factory'[c] = IF Contains(ClassesOf[s], c) THEN NoCreator ELSE factory[c]
  BY <1>1, <1>3, SetUnregistered
<1>5. /\ clones' \in CloneAssociations
      /\ \A c \in Class : clones'[c] = IF Contains(ClassesOf[s], c) THEN NoCreator ELSE clones[c]
  BY <1>1, <1>2, CloneSetUnregistered
<1>6. factory' \in [Class -> Static \cup {NoCreator}]
  <2>1. \A c \in Class : factory'[c] \in Static \cup {NoCreator}
    BY <1>2, <1>4
  <2>2. factory' = [c \in Class |-> factory'[c]]
    BY <1>4 DEF Associations
  <2>3. [c \in Class |-> factory'[c]] \in [Class -> Static \cup {NoCreator}]
    BY <2>1
  <2>4. QED
    BY <2>2, <2>3
<1>7. QED
  BY <1>4, <1>5, <1>6 DEF HasErased

(* Then again what is registered is registered by who is there. *)
LEMMA FilledMatches ==
  ASSUME StaticsInv, RegistriesInv, NEW s \in Static, Create(s), HasFilled(s), NEW c \in Class
  PROVE  Associated(c)'
<1>1. alive' = [alive EXCEPT ![s] = @ + 1] /\ alive \in [Static -> Int] /\ alive[s] >= 0
  BY Creates
<1>2. alive'[s] > 0 /\ \A t \in Static : t # s => alive'[t] = alive[t]
  BY <1>1
<1>3. /\ factory'[c] = IF factory[c] = NoCreator /\ Contains(ClassesOf[s], c) THEN s ELSE factory[c]
      /\ clones'[c] = IF clones[c] = NoCreator /\ Contains(ClassesOf[s], c) THEN c ELSE clones[c]
  BY DEF HasFilled
<1>4. /\ Associated(c) /\ factory[c] \in Static \cup {NoCreator}
      /\ NoCreator \notin Static /\ NoCreator \notin Class
  BY StaticIsNoUnknown, CreatorsAssumption DEF RegistriesInv
<1>5. clones'[c] = IF factory'[c] = NoCreator THEN NoCreator ELSE c
  BY <1>3, <1>4 DEF Associated
<1>6. factory'[c] # NoCreator => alive'[factory'[c]] > 0 /\ Contains(ClassesOf[factory'[c]], c)
  BY <1>2, <1>3, <1>4 DEF Associated
<1>7. ASSUME NEW t \in Static, Contains(ClassesOf[t], c),
             \A u \in Static \ {t} : ~Contains(ClassesOf[u], c)
      PROVE  factory'[c] = t <=> alive'[t] > 0
  <2>1. factory[c] = t <=> alive[t] > 0
    BY <1>4, <1>7 DEF Associated
  <2>2. CASE t = s
    BY <1>2, <1>3, <1>4, <1>6, <1>7, <2>2 DEF Associated
  <2>3. CASE t # s
    BY <1>2, <1>3, <1>4, <1>7, <2>1, <2>3
  <2>4. QED
    BY <2>2, <2>3
<1>8. QED
  BY <1>5, <1>6, <1>7 DEF Associated

LEMMA ErasedMatches ==
  ASSUME StaticsInv, RegistriesInv, NEW s \in Static, AtExitFn(s), HasErased(s), NEW c \in Class
  PROVE  Associated(c)'
<1>1. alive' = [alive EXCEPT ![s] = @ - 1] /\ alive \in [Static -> Int] /\ alive[s] <= 1
  BY Exits
<1>2. ~(alive'[s] > 0) /\ \A t \in Static : t # s => alive'[t] = alive[t]
  BY <1>1
<1>3. /\ factory'[c] = IF Contains(ClassesOf[s], c) THEN NoCreator ELSE factory[c]
      /\ clones'[c] = IF Contains(ClassesOf[s], c) THEN NoCreator ELSE clones[c]
  BY DEF HasErased
<1>4. /\ Associated(c) /\ factory[c] \in Static \cup {NoCreator}
      /\ NoCreator \notin Static /\ NoCreator \notin Class
  BY StaticIsNoUnknown, CreatorsAssumption DEF RegistriesInv
<1>5. clones'[c] = IF factory'[c] = NoCreator THEN NoCreator ELSE c
  BY <1>3, <1>4 DEF Associated
<1>6. factory'[c] # NoCreator => alive'[factory'[c]] > 0 /\ Contains(ClassesOf[factory'[c]], c)
  BY <1>2, <1>3, <1>4 DEF Associated
<1>7. ASSUME NEW t \in Static, Contains(ClassesOf[t], c),
             \A u \in Static \ {t} : ~Contains(ClassesOf[u], c)
      PROVE  factory'[c] = t <=> alive'[t] > 0
  <2>1. factory[c] = t <=> alive[t] > 0
    BY <1>4, <1>7 DEF Associated
  <2>2. CASE t = s
    BY <1>2, <1>3, <1>4, <1>7, <2>2
  <2>3. CASE t # s
    BY <1>2, <1>3, <1>4, <1>7, <2>1, <2>3
  <2>4. QED
    BY <2>2, <2>3
<1>8. QED
  BY <1>5, <1>6, <1>7 DEF Associated

-----------------------------------------------------------------------------
(* The dispatchers' maps *)

\* new is the map with x for a and b.
Changed(new, map, a, b, x) ==
  /\ DOMAIN new = Class \X Class
  /\ \A k \in Class \X Class : new[k] = IF k = <<a, b>> THEN x ELSE map[k]

(* DoAdd, and with x = NoCallback DoRemove, change one entry. *)
LEMMA Added ==
  ASSUME NEW map, DOMAIN map = Class \X Class, NEW a \in Class, NEW b \in Class, NEW x
  PROVE  Changed(DoAdd(map, a, b, x), map, a, b, x)
<1>1. <<a, b>> \in Class \X Class
  OBVIOUS
<1> DEFINE key == <<a, b>>
<1> HIDE DEF key
<1>2. /\ DOMAIN [map EXCEPT ![key] = x] = Class \X Class
      /\ \A k \in Class \X Class : [map EXCEPT ![key] = x][k] = IF k = key THEN x ELSE map[k]
  OBVIOUS
<1>3. DoAdd(map, a, b, x) = [map EXCEPT ![key] = x]
  BY DEF DoAdd, key
<1>4. QED
  BY <1>2, <1>3 DEF Changed, key

\* What Add makes of one entry of a map, with its adapters.
Entered(new, old, f, symmetric, straight, swapped) ==
  /\ DOMAIN new = Class \X Class
  /\ \A k \in Class \X Class :
       new[k] = IF symmetric /\ k = <<f.rhs, f.lhs>> THEN swapped
                ELSE IF k = <<f.lhs, f.rhs>> THEN straight ELSE old[k]

LEMMA FnEntered ==
  ASSUME NEW map, DOMAIN map = Class \X Class, NEW f \in Function, NEW symmetric \in BOOLEAN
  PROVE  Entered(FnAdd(map, f, symmetric), map, f, symmetric,
                 [tag |-> "Trampoline", fun |-> f], [tag |-> "TrampolineR", fun |-> f])
<1> DEFINE straight == [tag |-> "Trampoline", fun |-> f]
           swapped == [tag |-> "TrampolineR", fun |-> f]
           once == DoAdd(map, f.lhs, f.rhs, straight)
<1>1. f.lhs \in Class /\ f.rhs \in Class
  BY RegistriesAssumption
<1> HIDE DEF straight, swapped
<1>2. Changed(once, map, f.lhs, f.rhs, straight)
  BY <1>1, Added
<1> HIDE DEF once
<1>3. Changed(DoAdd(once, f.rhs, f.lhs, swapped), once, f.rhs, f.lhs, swapped)
  <2>1. DOMAIN once = Class \X Class
    BY <1>2 DEF Changed
  <2>2. QED
    BY <1>1, <2>1, Added
<1>4. FnAdd(map, f, symmetric) = IF symmetric THEN DoAdd(once, f.rhs, f.lhs, swapped) ELSE once
  BY DEF FnAdd, once, straight, swapped
<1>5. Entered(FnAdd(map, f, symmetric), map, f, symmetric, straight, swapped)
  BY <1>2, <1>3, <1>4 DEF Entered, Changed
<1>6. QED
  BY <1>5 DEF straight, swapped

LEMMA FunctorEntered ==
  ASSUME NEW map, DOMAIN map = Class \X Class, NEW f \in Function, NEW symmetric \in BOOLEAN
  PROVE  Entered(FunctorAdd(map, f, symmetric), map, f, symmetric,
                 [swapArgs |-> FALSE, fun |-> f], [swapArgs |-> TRUE, fun |-> f])
<1> DEFINE straight == [swapArgs |-> FALSE, fun |-> f]
           swapped == [swapArgs |-> TRUE, fun |-> f]
           once == DoAdd(map, f.lhs, f.rhs, straight)
<1>1. f.lhs \in Class /\ f.rhs \in Class
  BY RegistriesAssumption
<1> HIDE DEF straight, swapped
<1>2. Changed(once, map, f.lhs, f.rhs, straight)
  BY <1>1, Added
<1> HIDE DEF once
<1>3. Changed(DoAdd(once, f.rhs, f.lhs, swapped), once, f.rhs, f.lhs, swapped)
  <2>1. DOMAIN once = Class \X Class
    BY <1>2 DEF Changed
  <2>2. QED
    BY <1>1, <2>1, Added
<1>4. FunctorAdd(map, f, symmetric) = IF symmetric THEN DoAdd(once, f.rhs, f.lhs, swapped) ELSE once
  BY DEF FunctorAdd, once, straight, swapped
<1>5. Entered(FunctorAdd(map, f, symmetric), map, f, symmetric, straight, swapped)
  BY <1>2, <1>3, <1>4 DEF Entered, Changed
<1>6. QED
  BY <1>5 DEF straight, swapped

\* The modules that are there stay.
Staying == \A s \in Static : alive[s] > 0 => alive'[s] > 0

LEMMA CallbackAdded ==
  ASSUME RegistriesInv, NEW f \in Function, NEW symmetric \in BOOLEAN, AddCallback(f, symmetric),
         Present(f)', Staying
  PROVE  /\ DOMAIN fnMap' = Class \X Class /\ DOMAIN functorMap' = Class \X Class
         /\ \A k \in Class \X Class : Entry(k)'
<1>1. DOMAIN fnMap = Class \X Class /\ DOMAIN functorMap = Class \X Class
  BY DEF RegistriesInv
<1>2. /\ Entered(fnMap', fnMap, f, symmetric,
                 [tag |-> "Trampoline", fun |-> f], [tag |-> "TrampolineR", fun |-> f])
      /\ Entered(functorMap', functorMap, f, symmetric,
                 [swapArgs |-> FALSE, fun |-> f], [swapArgs |-> TRUE, fun |-> f])
  BY <1>1, FnEntered, FunctorEntered DEF AddCallback
<1>3. ASSUME NEW k \in Class \X Class PROVE Entry(k)'
  <2>1. CASE SameCallback(k, f, fnMap'[k], functorMap'[k])
    BY <2>1 DEF Entry
  <2>2. CASE fnMap'[k] = fnMap[k] /\ functorMap'[k] = functorMap[k]
    <3>1. Entry(k)
      BY DEF RegistriesInv
    <3>2. QED
      BY <2>2, <3>1 DEF Entry, Present, Staying
  <2>3. QED
    BY <1>2, <2>1, <2>2 DEF Entered, SameCallback
<1>4. QED
  BY <1>2, <1>3 DEF Entered

LEMMA CallbackRemoved ==
  ASSUME RegistriesInv, NEW a \in Class, NEW b \in Class, RemoveCallback(a, b), Staying
  PROVE  /\ DOMAIN fnMap' = Class \X Class /\ DOMAIN functorMap' = Class \X Class
         /\ \A k \in Class \X Class : Entry(k)'
<1>1. DOMAIN fnMap = Class \X Class /\ DOMAIN functorMap = Class \X Class
  BY DEF RegistriesInv
<1>2. /\ fnMap' = DoAdd(fnMap, a, b, NoCallback) /\ functorMap' = DoAdd(functorMap, a, b, NoCallback)
  BY DEF RemoveCallback, FnRemove, FunctorRemove, DoRemove, DoAdd
<1>3. Changed(fnMap', fnMap, a, b, NoCallback) /\ Changed(functorMap', functorMap, a, b, NoCallback)
  BY <1>1, <1>2, Added
<1>4. ASSUME NEW k \in Class \X Class PROVE Entry(k)'
  <2>1. Entry(k)
    BY DEF RegistriesInv
  <2>2. QED
    BY <1>3, <2>1 DEF Entry, Present, SameCallback, Staying, Changed
<1>5. QED
  BY <1>3, <1>4 DEF Changed

(* Neither direction of a module's callback is left when the module is gone. *)
LEMMA CallbackOfModuleRemoved ==
  ASSUME StaticsInv, RegistriesInv, NEW s \in Static, DestroyModule(s)
  PROVE  /\ DOMAIN fnMap' = Class \X Class /\ DOMAIN functorMap' = Class \X Class
         /\ \A k \in Class \X Class : Entry(k)'
<1> DEFINE f == CallbackOf[s]
           fn == DoAdd(fnMap, f.lhs, f.rhs, NoCallback)
           functor == DoAdd(functorMap, f.lhs, f.rhs, NoCallback)
<1>1. alive' = [alive EXCEPT ![s] = @ - 1] /\ alive \in [Static -> Int] /\ alive[s] <= 1
  BY Exits DEF DestroyModule
<1>2. \A t \in Static : t # s => alive'[t] = alive[t]
  BY <1>1
<1>3. f \in Function /\ f.lhs \in Class /\ f.rhs \in Class
  BY RegistriesAssumption DEF Function
<1>4. DOMAIN fnMap = Class \X Class /\ DOMAIN functorMap = Class \X Class
  BY DEF RegistriesInv
<1>5. fnMap' = DoAdd(fn, f.rhs, f.lhs, NoCallback) /\ functorMap' = DoAdd(functor, f.rhs, f.lhs, NoCallback)
  BY DEF DestroyModule, FnRemove, FunctorRemove, DoRemove, DoAdd
<1>6. Changed(fn, fnMap, f.lhs, f.rhs, NoCallback) /\ Changed(functor, functorMap, f.lhs, f.rhs, NoCallback)
  BY <1>3, <1>4, Added
<1> HIDE DEF fn, functor
<1>7. Changed(fnMap', fn, f.rhs, f.lhs, NoCallback) /\ Changed(functorMap', functor, f.rhs, f.lhs, NoCallback)
  <2>1. DOMAIN fn = Class \X Class /\ DOMAIN functor = Class \X Class
    BY <1>6 DEF Changed
  <2>2. QED
    BY <1>3, <1>5, <2>1, Added
<1>8. ASSUME NEW k \in Class \X Class PROVE Entry(k)'
  <2>1. CASE k = <<f.lhs, f.rhs>> \/ k = <<f.rhs, f.lhs>>
    BY <1>6, <1>7, <2>1 DEF Entry, Changed
  <2>2. CASE k # <<f.lhs, f.rhs>> /\ k # <<f.rhs, f.lhs>>
    <3>1. fnMap'[k] = fnMap[k] /\ functorMap'[k] = functorMap[k]
      BY <1>6, <1>7, <2>2 DEF Changed
    <3>2. CASE fnMap[k] = NoCallback /\ functorMap[k] = NoCallback
      BY <3>1, <3>2 DEF Entry
    <3>3. CASE \E g \in Function : Present(g) /\ SameCallback(k, g, fnMap[k], functorMap[k])
      <4>1. PICK g \in Function : Present(g) /\ SameCallback(k, g, fnMap[k], functorMap[k])
        BY <3>3
      <4>2. g # f
        BY <2>2, <4>1 DEF SameCallback
      <4>3. Present(g)'
        BY <1>2, <4>1, <4>2 DEF Present
      <4>4. QED
        BY <3>1, <4>1, <4>3 DEF Entry, SameCallback
    <3>4. QED
      BY <3>2, <3>3 DEF Entry, RegistriesInv
  <2>3. QED
    BY <2>1, <2>2
<1>9. QED
  BY <1>7, <1>8 DEF Changed

-----------------------------------------------------------------------------
(* The invariant of the registries *)

LEMMA RegistriesInvInit ==
  ASSUME RegistriesInit
  PROVE  RegistriesInv
<1>1. /\ types \in Typelists
      /\ factory = [c \in Class |-> NoCreator] /\ clones = [c \in Class |-> NoCreator]
      /\ fnMap = [k \in Class \X Class |-> NoCallback]
      /\ functorMap = [k \in Class \X Class |-> NoCallback]
      /\ alive = [s \in Static |-> 0]
  BY DEF RegistriesInit, Init, NoAssociations, NoCallbacks
<1>2. \A c \in Class : Associated(c)
  BY <1>1, StaticIsNoUnknown DEF Associated
<1>3. \A k \in Class \X Class : Entry(k)
  BY <1>1 DEF Entry
<1>4. QED
  BY <1>1, <1>2, <1>3 DEF RegistriesInv, CloneAssociations

LEMMA CreateModuleKeeps ==
  ASSUME StaticsInv, RegistriesInv, NEW s \in Static, CreateModule(s)
  PROVE  RegistriesInv'
<1>1. /\ Create(s) /\ AddCallback(CallbackOf[s], TRUE) /\ types' = types
      /\ factory' = RegisterSet(factory, ClassesOf[s], s)
      /\ clones' = RegisterCloneSet(clones, ClassesOf[s])
  BY DEF CreateModule
<1>2. HasFilled(s)
  BY <1>1, ModuleFills
<1>3. \A c \in Class : Associated(c)'
  BY <1>1, <1>2, FilledMatches
<1>4. alive' = [alive EXCEPT ![s] = @ + 1] /\ alive \in [Static -> Int] /\ alive[s] >= 0
  BY <1>1, Creates
<1>5. Staying
  BY <1>4 DEF Staying
<1>6. CallbackOf[s] \in Function /\ Present(CallbackOf[s])'
  <2>1. CallbackOf[s] \in Function /\ CallbackOf[s].of = s
    BY RegistriesAssumption DEF Function
  <2>2. alive'[s] > 0
    BY <1>4
  <2>3. QED
    BY <2>1, <2>2 DEF Present
<1>7. /\ DOMAIN fnMap' = Class \X Class /\ DOMAIN functorMap' = Class \X Class
      /\ \A k \in Class \X Class : Entry(k)'
  BY <1>1, <1>5, <1>6, CallbackAdded
<1>8. QED
  BY <1>1, <1>2, <1>3, <1>7 DEF RegistriesInv, HasFilled

LEMMA DestroyModuleKeeps ==
  ASSUME StaticsInv, RegistriesInv, NEW s \in Static, DestroyModule(s)
  PROVE  RegistriesInv'
<1>1. /\ AtExitFn(s) /\ types' = types
      /\ factory' = UnregisterSet(factory, ClassesOf[s])
      /\ clones' = UnregisterCloneSet(clones, ClassesOf[s])
  BY DEF DestroyModule
<1>2. HasErased(s)
  BY <1>1, ModuleErases
<1>3. \A c \in Class : Associated(c)'
  BY <1>1, <1>2, ErasedMatches
<1>4. QED
  BY <1>1, <1>2, <1>3, CallbackOfModuleRemoved DEF RegistriesInv, HasErased

LEMMA MainAddsKeeps ==
  ASSUME RegistriesInv, MainAdds
  PROVE  RegistriesInv'
<1>1. PICK f \in MainFunction, symmetric \in BOOLEAN : AddCallback(f, symmetric)
  BY DEF MainAdds
<1>2. types' = types /\ factory' = factory /\ clones' = clones /\ alive' = alive
  BY DEF MainAdds, staticVars, queue
<1>3. f \in Function /\ f.of = "main"
  BY RegistriesAssumption DEF Function
<1>4. Present(f)' /\ Staying
  BY <1>2, <1>3 DEF Present, Staying
<1>5. /\ DOMAIN fnMap' = Class \X Class /\ DOMAIN functorMap' = Class \X Class
      /\ \A k \in Class \X Class : Entry(k)'
  BY <1>1, <1>3, <1>4, CallbackAdded
<1>6. QED
  BY <1>2, <1>5 DEF RegistriesInv, Associated

LEMMA MainRemovesKeeps ==
  ASSUME RegistriesInv, MainRemoves
  PROVE  RegistriesInv'
<1>1. PICK a \in Class, b \in Class : RemoveCallback(a, b)
  BY DEF MainRemoves
<1>2. types' = types /\ factory' = factory /\ clones' = clones /\ alive' = alive
  BY DEF MainRemoves, staticVars, queue
<1>3. /\ DOMAIN fnMap' = Class \X Class /\ DOMAIN functorMap' = Class \X Class
      /\ \A k \in Class \X Class : Entry(k)'
  BY <1>1, <1>2, CallbackRemoved DEF Staying
<1>4. QED
  BY <1>2, <1>3 DEF RegistriesInv, Associated

LEMMA RegistriesInvStep ==
  ASSUME StaticsInv, RegistriesInv, [RegistriesNext]_vars
  PROVE  RegistriesInv'
<1>1. CASE UNCHANGED <<alive, types, registries>>
  BY <1>1 DEF registries, RegistriesInv, Associated, Entry, Present, SameCallback
<1>2. CASE \E s \in Static : CreateModule(s)
  BY <1>2, CreateModuleKeeps
<1>3. CASE \E s \in Static : DestroyModule(s)
  BY <1>3, DestroyModuleKeeps
<1>4. CASE MainAdds \/ MainRemoves
  BY <1>4, MainAddsKeeps, MainRemovesKeeps
<1>5. CASE /\ (\E s \in Static : Load(s)) \/ Main \/ Pass \/ NextLongevity \/ EndCreation \/ Exit
           /\ UNCHANGED <<types, registries>>
  <2>1. alive' = alive
    BY <1>5 DEF Load, Main, Pass, NextLongevity, EndCreation, Exit, queue
  <2>2. QED
    BY <1>1, <1>5, <2>1
<1>6. CASE UNCHANGED vars
  <2>1. UNCHANGED <<alive, types, registries>>
    BY <1>6 DEF vars, staticVars, queue
  <2>2. QED
    BY <1>1, <2>1
<1>7. QED
  BY <1>2, <1>3, <1>4, <1>5, <1>6 DEF RegistriesNext, Proceeds

LEMMA InvMatchesLife ==
  ASSUME RegistriesInv
  PROVE  RegistriesMatchLife
<1>1. ASSUME NEW c \in Class
      PROVE  /\ factory[c] # NoCreator =>
                  alive[factory[c]] > 0 /\ Contains(ClassesOf[factory[c]], c)
             /\ (factory[c] = NoCreator) <=> (clones[c] = NoCreator)
             /\ clones[c] \in {c, NoCreator}
  BY CreatorsAssumption DEF RegistriesInv, Associated
<1>2. ASSUME NEW k \in Class \X Class, fnMap[k] # NoCallback
      PROVE  fnMap[k].fun.of = "main" \/ alive[fnMap[k].fun.of] > 0
  BY <1>2 DEF RegistriesInv, Entry, Present, SameCallback
<1>3. QED
  BY <1>1, <1>2 DEF RegistriesInv, Associated, RegistriesMatchLife

(* No creator and no callback of a module outlives it, and the classes that *)
(* one module alone registers can be made and cloned exactly while it is    *)
(* there, whatever the modules, their lists and the order of their lives    *)
(* (Register.h, Factory.h, MultiMethods.h and OrderedStatic.cpp together).  *)
THEOREM RegistriesAlwaysMatchLife ==
  Spec => []RegistriesMatchLife
<1>1. RegistriesInit => StaticsInv /\ RegistriesInv
  BY StaticsInvInit, RegistriesInvInit DEF RegistriesInit
<1>2. StaticsInv /\ RegistriesInv /\ [RegistriesNext]_vars => StaticsInv' /\ RegistriesInv'
  BY StepOfStatics, StaticsInvStep, RegistriesInvStep
<1>3. RegistriesInv => RegistriesMatchLife
  BY InvMatchesLife
<1>4. QED
  BY <1>1, <1>2, <1>3, PTL DEF Spec

-----------------------------------------------------------------------------
(* Classes and their bases *)

\* S has c, and every base of what it has.
Covers(S, c) == S \in SUBSET Class /\ c \in S /\ Upward(S)

(* A base is in every set that has the class and the bases of what it has. *)
LEMMA BaseIs ==
  ASSUME NEW c \in Class, NEW b
  PROVE  b \in BasesOf[c] <=> b \in Class /\ \A S : Covers(S, c) => b \in S
<1> DEFINE Bases(d) == {e \in Class : \A S \in SUBSET Class : d \in S /\ Upward(S) => e \in S}
<1>1. BasesOf = [d \in Class |-> Bases(d)]
  BY DEF BasesOf
<1>2. BasesOf[c] = Bases(c)
  BY <1>1
<1>3. QED
  BY <1>2 DEF Covers

LEMMA BaseOfItself ==
  ASSUME NEW c \in Class
  PROVE  c \in BasesOf[c]
  BY BaseIs DEF Covers

(* A cast to an object's own class. *)
LEMMA CastToOwn ==
  ASSUME NEW object, object.class \in Class
  PROVE  Cast(object.class, object) = object
  BY BaseOfItself DEF Cast

LEMMA InvDispatchersAgree ==
  ASSUME RegistriesInv
  PROVE  DispatchersAgree
<1> SUFFICES ASSUME NEW a \in Class, NEW b \in Class
             PROVE  LET x == [class |-> a, side |-> "lhs"]
                        y == [class |-> b, side |-> "rhs"]
                        call == FnGo(fnMap, x, y)
                    IN  /\ FunctorGo(functorMap, x, y) = call
                        /\ call # NoCallback =>
                             /\ call.args \in {<<x, y>>, <<y, x>>}
                             /\ call.args[1].class = call.fun.lhs /\ call.args[2].class = call.fun.rhs
  BY DEF DispatchersAgree
<1> DEFINE x == [class |-> a, side |-> "lhs"]
           y == [class |-> b, side |-> "rhs"]
           fn == fnMap[<<a, b>>]
           functor == functorMap[<<a, b>>]
<1>1. x.class = a /\ y.class = b
  OBVIOUS
<1>2. Cast(a, x) = x /\ Cast(b, y) = y
  BY <1>1, CastToOwn
<1>3. /\ FnGo(fnMap, x, y) =
           IF fn = NoCallback THEN NoCallback
           ELSE IF fn.tag = "Trampoline" THEN Trampoline(fn.fun, x, y) ELSE TrampolineR(fn.fun, x, y)
      /\ FunctorGo(functorMap, x, y) =
           IF functor = NoCallback THEN NoCallback ELSE Fire(functor.fun, x, y, functor.swapArgs)
  BY <1>1 DEF FnGo, FunctorGo
<1>4. Entry(<<a, b>>)
  BY DEF RegistriesInv
<1> HIDE DEF x, y, fn, functor
<1>5. CASE fn = NoCallback /\ functor = NoCallback
  BY <1>3, <1>5 DEF x, y
<1>6. ASSUME NEW f \in Function, SameCallback(<<a, b>>, f, fn, functor)
      PROVE  \E call :
               /\ FnGo(fnMap, x, y) = call /\ FunctorGo(functorMap, x, y) = call
               /\ call.args \in {<<x, y>>, <<y, x>>}
               /\ call.args[1].class = call.fun.lhs /\ call.args[2].class = call.fun.rhs
  <2>1. CASE /\ <<a, b>> = <<f.lhs, f.rhs>>
             /\ fn = [tag |-> "Trampoline", fun |-> f] /\ functor = [swapArgs |-> FALSE, fun |-> f]
    <3>1. a = f.lhs /\ b = f.rhs
      BY <2>1
    <3>2. fn # NoCallback /\ functor # NoCallback
      BY <2>1, NoCallbackAssumption
    <3>3. FnGo(fnMap, x, y) = Call(f, x, y)
      BY <1>3, <2>1, <3>2 DEF Trampoline
    <3>4. FunctorGo(functorMap, x, y) = Call(f, x, y)
      BY <1>3, <2>1, <3>2 DEF Fire
    <3>5. Call(f, x, y) = [fun |-> f, args |-> <<x, y>>]
      BY <1>2, <3>1 DEF Call
    <3>6. QED
      BY <1>1, <3>1, <3>3, <3>4, <3>5
  <2>2. CASE /\ <<a, b>> = <<f.rhs, f.lhs>>
             /\ fn = [tag |-> "TrampolineR", fun |-> f] /\ functor = [swapArgs |-> TRUE, fun |-> f]
    <3>1. a = f.rhs /\ b = f.lhs
      BY <2>2
    <3>2. fn # NoCallback /\ functor # NoCallback
      BY <2>2, NoCallbackAssumption
    <3>3. FnGo(fnMap, x, y) = Call(f, y, x)
      BY <1>3, <2>2, <3>2 DEF Trampoline, TrampolineR
    <3>4. FunctorGo(functorMap, x, y) = Call(f, y, x)
      BY <1>3, <2>2, <3>2 DEF Fire
    <3>5. Call(f, y, x) = [fun |-> f, args |-> <<y, x>>]
      BY <1>2, <3>1 DEF Call
    <3>6. QED
      BY <1>1, <3>1, <3>3, <3>4, <3>5
  <2>3. QED
    BY <1>6, <2>1, <2>2 DEF SameCallback
<1>7. CASE \E f \in Function : SameCallback(<<a, b>>, f, fn, functor)
  BY <1>6, <1>7 DEF x, y
<1>8. QED
  BY <1>4, <1>5, <1>7 DEF Entry, fn, functor

(* The bases of a class cover it, *)
LEMMA BasesCover ==
  ASSUME NEW c \in Class
  PROVE  Covers(BasesOf[c], c)
<1>1. BasesOf[c] \in SUBSET Class /\ c \in BasesOf[c]
  BY BaseIs, BaseOfItself
<1>2. ASSUME NEW d \in BasesOf[c], NEW e \in ParentsOf[d] PROVE e \in BasesOf[c]
  <2>1. d \in Class /\ e \in Class
    BY <1>1, ClassesAssumption
  <2>2. ASSUME NEW S, Covers(S, c) PROVE e \in S
    <3>1. d \in S
      BY <2>2, BaseIs
    <3>2. QED
      BY <2>2, <3>1 DEF Covers, Upward
  <2>3. QED
    BY <2>1, <2>2, BaseIs
<1>3. QED
  BY <1>1, <1>2 DEF Covers, Upward

(* so that a base of a base is a base. *)
LEMMA BaseOfBase ==
  ASSUME NEW c \in Class, NEW b \in BasesOf[c], NEW a \in BasesOf[b]
  PROVE  a \in BasesOf[c]
<1>1. b \in Class
  BY BaseIs
<1>2. Covers(BasesOf[c], b)
  BY BasesCover DEF Covers
<1>3. QED
  BY <1>1, <1>2, BaseIs

(* The bases of a class are itself and its parents'. *)
LEMMA BasesUp ==
  ASSUME NEW c \in Class, NEW b \in BasesOf[c], b # c
  PROVE  \E p \in ParentsOf[c] : b \in BasesOf[p]
<1> DEFINE S == {c} \cup UNION {BasesOf[p] : p \in ParentsOf[c]}
<1>1. \A p \in ParentsOf[c] : p \in Class /\ Covers(BasesOf[p], p)
  BY ClassesAssumption, BasesCover
<1>2. S \in SUBSET Class /\ c \in S
  BY <1>1 DEF Covers
<1>3. ASSUME NEW d \in S PROVE ParentsOf[d] \subseteq S
  <2>1. CASE d = c
    BY <1>1, <2>1 DEF Covers
  <2>2. CASE d # c
    <3>1. PICK p \in ParentsOf[c] : d \in BasesOf[p]
      BY <2>2
    <3>2. ParentsOf[d] \subseteq BasesOf[p]
      BY <1>1, <3>1 DEF Covers, Upward
    <3>3. QED
      BY <3>1, <3>2
  <2>3. QED
    BY <2>1, <2>2
<1>4. b \in S
  <2>1. Covers(S, c)
    BY <1>2, <1>3 DEF Covers, Upward
  <2>2. QED
    BY <2>1, BaseIs
<1>5. QED
  BY <1>4

(* Two classes are not each derived from the other. *)
LEMMA NotEachOthersBase ==
  ASSUME NEW a \in Class, NEW b \in BasesOf[a], a \in BasesOf[b]
  PROVE  a = b
<1> SUFFICES ASSUME a # b PROVE FALSE
  OBVIOUS
<1>1. PICK p \in ParentsOf[a] : b \in BasesOf[p]
  BY BasesUp
<1>2. p \in Class
  BY ClassesAssumption
<1>3. a \in BasesOf[p]
  BY <1>1, <1>2, BaseOfBase
<1>4. QED
  BY <1>3, NoneItsOwnParent

-----------------------------------------------------------------------------
(* mp_partition and mp_sort *)

(* What a partition keeps of a list. *)
LEMMA KeptIs ==
  ASSUME NEW list \in Seq(Class), NEW S
  PROVE  /\ Kept(list, S) \in Seq(Class) /\ Len(Kept(list, S)) <= Len(list)
         /\ \A c : Contains(Kept(list, S), c) <=> Contains(list, c) /\ c \in S
<1> DEFINE n == Len(list)
           pass == [k \in 1 .. Len(list) |->
                      [kept \in Seq(Class) |-> IF list[k] \in S THEN Append(kept, list[k]) ELSE kept]]
           g == Passes(pass, <<>>, n)
           Good(kept, k) == /\ kept \in Seq(Class) /\ Len(kept) <= k
                            /\ \A c : Contains(kept, c) <=> Within(list, k, c) /\ c \in S
           P == {k \in 0 .. n : Good(g[k], k)}
<1>1. n \in Nat /\ \A k \in 1 .. n : list[k] \in Class
  BY ElementOfSeq
<1>2. \A k \in 1 .. n, v \in Seq(Class) :
        pass[k][v] = IF list[k] \in S THEN Append(v, list[k]) ELSE v
  OBVIOUS
<1>3. Kept(list, S) = Loop(pass, <<>>, n)
  BY DEF Kept
<1> HIDE DEF pass, n
<1>4. Keeps(pass, <<>>, n, Seq(Class))
  <2>1. ASSUME NEW k \in 1 .. n, NEW v \in Seq(Class) PROVE pass[k][v] \in Seq(Class)
    <3>1. Append(v, list[k]) \in Seq(Class)
      BY <1>1
    <3>2. QED
      BY <1>2, <3>1
  <2>2. <<>> \in Seq(Class)
    OBVIOUS
  <2>3. QED
    BY <1>1, <2>1, <2>2 DEF Keeps
<1>5. /\ g \in [0 .. n -> Seq(Class)] /\ g[0] = <<>> /\ Loop(pass, <<>>, n) = g[n]
      /\ \A k \in 1 .. n : g[k] = pass[k][g[k - 1]]
  BY <1>4, PassesAre
<1> HIDE DEF g
<1>6. 0 \in P
  <2>1. g[0] \in Seq(Class) /\ Len(g[0]) = 0
    BY <1>5
  <2>2. QED
    BY <1>1, <2>1 DEF Contains, Within
<1>7. ASSUME NEW k \in 1 .. n, k - 1 \in P PROVE k \in P
  <2> DEFINE v == g[k - 1]
             d == list[k]
  <2>1. /\ v \in Seq(Class) /\ Len(v) \in Nat /\ Len(v) <= k - 1 /\ k \in Nat
        /\ \A c : Contains(v, c) <=> Within(list, k - 1, c) /\ c \in S
    BY <1>1, <1>7
  <2>2. g[k] = IF d \in S THEN Append(v, d) ELSE v
    BY <1>2, <1>5, <2>1
  <2>3. d \in Class
    BY <1>1
  <2>4. ASSUME NEW c PROVE Within(list, k, c) <=> Within(list, k - 1, c) \/ c = d
    <3>1. \A j \in 1 .. k : j \in 1 .. k - 1 \/ j = k
      BY <1>1
    <3>2. (\A j \in 1 .. k - 1 : j \in 1 .. k) /\ k \in 1 .. k
      BY <1>1
    <3>3. QED
      BY <3>1, <3>2 DEF Within
  <2> HIDE DEF v, d
  <2>5. CASE d \in S
    <3>1. g[k] = Append(v, d)
      BY <2>2, <2>5
    <3>2. Append(v, d) \in Seq(Class) /\ Len(Append(v, d)) = Len(v) + 1
      BY <2>1, <2>3
    <3>3. ASSUME NEW c PROVE Contains(Append(v, d), c) <=> Contains(v, c) \/ c = d
      <4>1. /\ \A j \in 1 .. Len(v) : Append(v, d)[j] = v[j]
            /\ Append(v, d)[Len(v) + 1] = d
        BY <2>1, <2>3
      <4>2. \A j \in 1 .. Len(v) + 1 : j \in 1 .. Len(v) \/ j = Len(v) + 1
        BY <2>1
      <4>3. (\A j \in 1 .. Len(v) : j \in 1 .. Len(v) + 1) /\ Len(v) + 1 \in 1 .. Len(v) + 1
        BY <2>1
      <4>4. QED
        BY <3>2, <4>1, <4>2, <4>3 DEF Contains
    <3>4. Len(g[k]) <= k
      BY <2>1, <3>1, <3>2
    <3>5. \A c : Contains(g[k], c) <=> Within(list, k, c) /\ c \in S
      BY <2>1, <2>4, <2>5, <3>1, <3>3
    <3>6. g[k] \in Seq(Class)
      BY <3>1, <3>2
    <3>7. k \in 0 .. n
      BY <1>1
    <3>8. QED
      BY <3>4, <3>5, <3>6, <3>7
  <2>6. CASE d \notin S
    <3>1. g[k] = v
      BY <2>2, <2>6
    <3>2. Len(g[k]) <= k
      BY <2>1, <3>1
    <3>3. \A c : Contains(g[k], c) <=> Within(list, k, c) /\ c \in S
      BY <2>1, <2>4, <2>6, <3>1
    <3>4. QED
      BY <1>1, <2>1, <3>1, <3>2, <3>3
  <2>7. QED
    BY <2>5, <2>6
<1>8. n \in P
  <2> HIDE DEF P
  <2>1. \A k \in 0 .. n : k \in P
    BY <1>1, <1>6, <1>7, EachAfterTheOneBefore
  <2>2. QED
    BY <1>1, <2>1
<1>9. Good(Kept(list, S), n)
  BY <1>3, <1>5, <1>8
<1>10. QED
  BY <1>9 DEF Within, Contains, n

\* What follows the first type of a list, divided: the types that are no base
\* of the first, and its bases.
Before(list) == Kept(Tail(list), Class \ BasesOf[Head(list)])
After(list) == Kept(Tail(list), BasesOf[Head(list)])

\* mp_sort, with g for what it is called with.
SortOf(g, list) ==
  IF list = <<>> THEN <<>> ELSE g[Before(list)] \o <<Head(list)>> \o g[After(list)]

\* Lists of at most n types.
UpToLen(n) == {list \in Seq(Class) : Len(list) <= n}

(* Both parts are shorter. *)
LEMMA PartsShorter ==
  ASSUME NEW list \in Seq(Class), list # <<>>
  PROVE  /\ Len(list) \in Nat \ {0} /\ Head(list) \in Class
         /\ Before(list) \in UpToLen(Len(list) - 1) /\ After(list) \in UpToLen(Len(list) - 1)
<1>1. Len(list) \in Nat \ {0} /\ Head(list) \in Class
      /\ Tail(list) \in Seq(Class) /\ Len(Tail(list)) = Len(list) - 1
  OBVIOUS
<1> DEFINE rest == Tail(list)
<1>2. rest \in Seq(Class) /\ Len(rest) = Len(list) - 1
  BY <1>1
<1> HIDE DEF rest
<1>3. \A S : Kept(rest, S) \in Seq(Class) /\ Len(Kept(rest, S)) <= Len(list) - 1
  BY <1>2, KeptIs
<1>4. \A S : Kept(rest, S) \in UpToLen(Len(list) - 1)
  BY <1>3 DEF UpToLen
<1>5. QED
  BY <1>1, <1>4 DEF Before, After, rest

\* g sorts the lists of a set.
Sorts(g, D) == g = [list \in D |-> SortOf(g, list)]

LEMMA SortsPointwise ==
  ASSUME NEW g, NEW D, Sorts(g, D), NEW list \in D
  PROVE  g[list] = SortOf(g, list)
<1> DEFINE h == [l \in D |-> SortOf(g, l)]
<1>1. g = h
  BY DEF Sorts
<1>2. h[list] = SortOf(g, list)
  OBVIOUS
<1> HIDE DEF h
<1>3. QED
  BY <1>1, <1>2

\* g and h do the same with shorter lists than this one.
SameBelow(g, h, list) ==
  list # <<>> => g[Before(list)] = h[Before(list)] /\ g[After(list)] = h[After(list)]

LEMMA SortsAlike ==
  ASSUME NEW g, NEW h, NEW list, SameBelow(g, h, list)
  PROVE  SortOf(g, list) = SortOf(h, list)
  BY DEF SameBelow, SortOf

(* There is one way to sort the lists of at most n types. *)
LEMMA SortsAgree ==
  ASSUME NEW m \in Nat, NEW n \in Nat, m <= n, NEW g, NEW h,
         Sorts(g, UpToLen(m)), Sorts(h, UpToLen(n))
  PROVE  \A list \in UpToLen(m) : g[list] = h[list]
<1> DEFINE P == {k \in 0 .. m : \A list \in UpToLen(k) : g[list] = h[list]}
<1>1. ASSUME NEW k \in 0 .. m, NEW list \in UpToLen(k), SameBelow(g, h, list)
      PROVE  g[list] = h[list]
  <2>1. list \in UpToLen(m) /\ list \in UpToLen(n)
    BY DEF UpToLen
  <2>2. g[list] = SortOf(g, list) /\ h[list] = SortOf(h, list)
    BY <2>1, SortsPointwise
  <2>3. QED
    BY <1>1, <2>2, SortsAlike
<1>2. 0 \in P
  <2>1. ASSUME NEW list \in UpToLen(0) PROVE SameBelow(g, h, list)
    BY PartsShorter DEF UpToLen, SameBelow
  <2>2. QED
    BY <1>1, <2>1
<1>3. ASSUME NEW k \in 1 .. m, k - 1 \in P PROVE k \in P
  <2>1. ASSUME NEW list \in UpToLen(k) PROVE SameBelow(g, h, list)
    <3>1. CASE list # <<>>
      <4>1. list \in Seq(Class) /\ Len(list) <= k
        BY DEF UpToLen
      <4>2. /\ Len(list) \in Nat \ {0}
            /\ Before(list) \in UpToLen(Len(list) - 1) /\ After(list) \in UpToLen(Len(list) - 1)
        BY <3>1, <4>1, PartsShorter
      <4>3. Before(list) \in UpToLen(k - 1) /\ After(list) \in UpToLen(k - 1)
        BY <4>1, <4>2 DEF UpToLen
      <4>4. QED
        BY <1>3, <4>3 DEF SameBelow
    <3>2. QED
      BY <3>1 DEF SameBelow
  <2>2. \A list \in UpToLen(k) : g[list] = h[list]
    BY <1>1, <2>1
  <2>3. QED
    BY <2>2
<1> HIDE DEF P
<1>4. \A k \in 0 .. m : k \in P
  BY <1>2, <1>3, EachAfterTheOneBefore
<1>5. m \in P
  BY <1>4
<1>6. QED
  BY <1>5 DEF P

(* The lists of at most n types can be sorted. *)
LEMMA SortsExist ==
  ASSUME NEW n \in Nat
  PROVE  \E g : Sorts(g, UpToLen(n))
<1> DEFINE P == {k \in Nat : \E g : Sorts(g, UpToLen(k))}
<1>1. 0 \in P
  <2> DEFINE g == [list \in UpToLen(0) |-> <<>>]
  <2>1. \A list \in UpToLen(0) : list = <<>>
    BY PartsShorter DEF UpToLen
  <2>2. \A list \in UpToLen(0) : SortOf(g, list) = <<>>
    BY <2>1 DEF SortOf
  <2>3. g = [list \in UpToLen(0) |-> SortOf(g, list)]
    BY <2>2
  <2>4. Sorts(g, UpToLen(0))
    BY <2>3 DEF Sorts
  <2>5. QED
    BY <2>4
<1>2. ASSUME NEW k \in 1 .. n, k - 1 \in P PROVE k \in P
  <2>1. PICK g : Sorts(g, UpToLen(k - 1))
    BY <1>2
  <2> DEFINE h == [list \in UpToLen(k) |-> SortOf(g, list)]
  <2>2. ASSUME NEW list \in UpToLen(k - 1) PROVE h[list] = g[list]
    <3>1. list \in UpToLen(k)
      BY DEF UpToLen
    <3>2. QED
      BY <2>1, <3>1, SortsPointwise
  <2>3. ASSUME NEW list \in UpToLen(k) PROVE SortOf(g, list) = SortOf(h, list)
    <3>1. CASE list # <<>>
      <4>1. list \in Seq(Class) /\ Len(list) <= k
        BY DEF UpToLen
      <4>2. /\ Len(list) \in Nat \ {0}
            /\ Before(list) \in UpToLen(Len(list) - 1) /\ After(list) \in UpToLen(Len(list) - 1)
        BY <3>1, <4>1, PartsShorter
      <4>3. Before(list) \in UpToLen(k - 1) /\ After(list) \in UpToLen(k - 1)
        BY <4>1, <4>2 DEF UpToLen
      <4> HIDE DEF h
      <4>4. SameBelow(g, h, list)
        BY <2>2, <4>3 DEF SameBelow
      <4>5. QED
        BY <4>4, SortsAlike
    <3>2. QED
      BY <3>1 DEF SortOf
  <2>4. h = [list \in UpToLen(k) |-> SortOf(h, list)]
    BY <2>3
  <2> HIDE DEF h
  <2>5. Sorts(h, UpToLen(k))
    BY <2>4 DEF Sorts
  <2>6. k \in Nat
    OBVIOUS
  <2>7. QED
    BY <2>5, <2>6
<1> HIDE DEF P
<1>3. \A k \in 0 .. n : k \in P
  BY <1>1, <1>2, EachAfterTheOneBefore
<1>4. n \in P
  BY <1>3
<1>5. QED
  BY <1>4 DEF P

(* MpSort is what its definition says, for every list. *)
LEMMA MpSortIs ==
  ASSUME NEW list \in Seq(Class)
  PROVE  MpSort[list] = SortOf(MpSort, list)
<1> DEFINE Best(n) == CHOOSE g : Sorts(g, UpToLen(n))
           G == [l \in Seq(Class) |-> Best(Len(l))[l]]
<1>1. ASSUME NEW n \in Nat PROVE Sorts(Best(n), UpToLen(n))
  BY SortsExist
<1> HIDE DEF Best
<1>2. ASSUME NEW n \in Nat, NEW l \in UpToLen(n) PROVE G[l] = Best(n)[l]
  <2>1. l \in Seq(Class) /\ Len(l) \in Nat /\ Len(l) <= n /\ l \in UpToLen(Len(l))
    BY DEF UpToLen
  <2>2. G[l] = Best(Len(l))[l]
    BY <2>1
  <2>3. QED
    BY <1>1, <2>1, <2>2, SortsAgree
<1> HIDE DEF G
<1>3. ASSUME NEW l \in Seq(Class) PROVE G[l] = SortOf(G, l)
  <2> DEFINE n == Len(l)
             g == Best(n)
  <2>1. n \in Nat /\ l \in UpToLen(n)
    BY DEF UpToLen
  <2>2. G[l] = g[l]
    BY <1>2, <2>1
  <2>3. Sorts(g, UpToLen(n))
    BY <1>1, <2>1
  <2>4. g[l] = SortOf(g, l)
    BY <2>1, <2>3, SortsPointwise
  <2>5. SameBelow(g, G, l)
    <3>1. CASE l # <<>>
      <4>1. Before(l) \in UpToLen(n) /\ After(l) \in UpToLen(n)
        BY <3>1, PartsShorter DEF UpToLen
      <4>2. QED
        BY <1>2, <2>1, <4>1 DEF SameBelow
    <3>2. QED
      BY <3>1 DEF SameBelow
  <2>6. QED
    BY <2>2, <2>4, <2>5, SortsAlike
<1>4. Sorts(G, Seq(Class))
  <2>1. G = [l \in Seq(Class) |-> G[l]]
    BY DEF G
  <2>2. QED
    BY <1>3, <2>1 DEF Sorts
<1>5. MpSort = CHOOSE g : Sorts(g, Seq(Class))
  BY DEF MpSort, Sorts, SortOf, Before, After
<1>6. Sorts(MpSort, Seq(Class))
  BY <1>4, <1>5
<1>7. QED
  BY <1>6, SortsPointwise

\* No type comes before one that is derived from it.
DerivedFirst(s) ==
  \A i, j \in 1 .. Len(s) : i < j /\ s[i] \in BasesOf[s[j]] => s[j] \in BasesOf[s[i]]

\* s is the list, sorted.
SortedFrom(s, list) ==
  s \in Seq(Class) /\ DerivedFirst(s) /\ \A c : Contains(s, c) <=> Contains(list, c)

\* new is e between s and t.
Around(new, s, e, t) ==
  /\ Len(new) = Len(s) + 1 + Len(t)
  /\ \A i \in 1 .. Len(s) : new[i] = s[i]
  /\ new[Len(s) + 1] = e
  /\ \A i \in Len(s) + 2 .. Len(s) + 1 + Len(t) : new[i] = t[i - Len(s) - 1]

LEMMA AroundIs ==
  ASSUME NEW S, NEW s \in Seq(S), NEW t \in Seq(S), NEW e \in S
  PROVE  s \o <<e>> \o t \in Seq(S) /\ Around(s \o <<e>> \o t, s, e, t)
<1> DEFINE start == s \o <<e>>
           n == Len(s)
           m == Len(t)
<1>1. n \in Nat /\ m \in Nat
  OBVIOUS
<1>2. start \in Seq(S) /\ Len(start) = n + 1 /\ (\A j \in 1 .. n : start[j] = s[j]) /\ start[n + 1] = e
  BY <1>1
<1>3. s \o <<e>> \o t = start \o t
  OBVIOUS
<1> HIDE DEF start
<1>4. start \o t \in Seq(S) /\ Len(start \o t) = Len(start) + m
  BY <1>1, <1>2, ConcatProperties
<1>5. /\ \A j \in 1 .. Len(start) : (start \o t)[j] = start[j]
      /\ \A j \in 1 .. Len(start) + m : j > Len(start) => (start \o t)[j] = t[j - Len(start)]
  BY <1>1, <1>2
<1> HIDE DEF n, m
<1>6. \A j \in n + 2 .. n + 1 + m : (start \o t)[j] = t[j - n - 1]
  <2>1. ASSUME NEW j \in n + 2 .. n + 1 + m PROVE (start \o t)[j] = t[j - n - 1]
    <3>1. j \in 1 .. Len(start) + m /\ j > Len(start) /\ j - Len(start) = j - n - 1
      BY <1>1, <1>2
    <3>2. QED
      BY <1>5, <3>1
  <2>2. QED
    BY <2>1
<1>7. \A j \in 1 .. n : (start \o t)[j] = s[j]
  BY <1>1, <1>2, <1>5
<1>8. (start \o t)[n + 1] = e
  BY <1>1, <1>2, <1>5
<1>9. Len(start \o t) = n + 1 + m
  BY <1>1, <1>2, <1>4
<1>10. QED
  BY <1>3, <1>4, <1>6, <1>7, <1>8, <1>9 DEF Around, n, m

LEMMA AroundContains ==
  ASSUME NEW S, NEW s \in Seq(S), NEW t \in Seq(S), NEW e \in S, NEW new, Around(new, s, e, t), NEW c
  PROVE  Contains(new, c) <=> Contains(s, c) \/ c = e \/ Contains(t, c)
<1> DEFINE n == Len(s)
           m == Len(t)
<1>1. n \in Nat /\ m \in Nat
  OBVIOUS
<1>2. /\ Len(new) = n + 1 + m /\ new[n + 1] = e
      /\ \A i \in 1 .. n : new[i] = s[i]
      /\ \A i \in n + 2 .. n + 1 + m : new[i] = t[i - n - 1]
  BY DEF Around
<1> HIDE DEF n, m
<1>3. ASSUME NEW i \in 1 .. n + 1 + m, new[i] = c
      PROVE  (\E j \in 1 .. n : s[j] = c) \/ c = e \/ (\E j \in 1 .. m : t[j] = c)
  <2>1. CASE i <= n
    BY <1>1, <1>2, <1>3, <2>1
  <2>2. CASE i = n + 1
    BY <1>2, <1>3, <2>2
  <2>3. CASE i > n + 1
    <3>1. i \in n + 2 .. n + 1 + m /\ i - n - 1 \in 1 .. m
      BY <1>1, <2>3
    <3>2. QED
      BY <1>2, <1>3, <3>1
  <2>4. QED
    BY <1>1, <2>1, <2>2, <2>3
<1>4. ASSUME NEW j \in 1 .. n, s[j] = c PROVE \E i \in 1 .. n + 1 + m : new[i] = c
  BY <1>1, <1>2, <1>4
<1>5. ASSUME NEW j \in 1 .. m, t[j] = c PROVE \E i \in 1 .. n + 1 + m : new[i] = c
  <2>1. n + 1 + j \in 1 .. n + 1 + m /\ n + 1 + j \in n + 2 .. n + 1 + m /\ (n + 1 + j) - n - 1 = j
    BY <1>1
  <2>2. new[n + 1 + j] = t[j]
    BY <1>2, <2>1
  <2>3. QED
    BY <1>5, <2>1, <2>2
<1>6. n + 1 \in 1 .. n + 1 + m
  BY <1>1
<1>7. QED
  BY <1>2, <1>3, <1>4, <1>5, <1>6 DEF Contains, n, m

(* Between the types that are no base of it and its bases, a type keeps the   *)
(* order.                                                                     *)
LEMMA AroundDerivedFirst ==
  ASSUME NEW s \in Seq(Class), NEW t \in Seq(Class), NEW e \in Class, NEW new, Around(new, s, e, t),
         DerivedFirst(s), DerivedFirst(t),
         \A c : Contains(s, c) => c \notin BasesOf[e],
         \A c : Contains(t, c) => c \in BasesOf[e]
  PROVE  DerivedFirst(new)
<1> DEFINE n == Len(s)
           m == Len(t)
<1>1. n \in Nat /\ m \in Nat
  OBVIOUS
<1>2. /\ Len(new) = n + 1 + m /\ new[n + 1] = e
      /\ \A i \in 1 .. n : new[i] = s[i]
      /\ \A i \in n + 2 .. n + 1 + m : new[i] = t[i - n - 1]
  BY DEF Around
<1>3. /\ \A i \in 1 .. n : s[i] \notin BasesOf[e]
      /\ \A i \in 1 .. m : t[i] \in BasesOf[e]
  BY DEF Contains
<1>4. /\ \A i, j \in 1 .. n : i < j /\ s[i] \in BasesOf[s[j]] => s[j] \in BasesOf[s[i]]
      /\ \A i, j \in 1 .. m : i < j /\ t[i] \in BasesOf[t[j]] => t[j] \in BasesOf[t[i]]
  BY DEF DerivedFirst
<1> HIDE DEF n, m
<1>5. ASSUME NEW i \in 1 .. n + 1 + m, NEW j \in 1 .. n + 1 + m, i < j, new[i] \in BasesOf[new[j]]
      PROVE  new[j] \in BasesOf[new[i]]
  <2>1. CASE j <= n
    <3>1. i \in 1 .. n /\ j \in 1 .. n
      BY <1>1, <1>5, <2>1
    <3>2. QED
      BY <1>2, <1>4, <1>5, <3>1
  <2>2. CASE j > n /\ i <= n
    <3>1. i \in 1 .. n /\ new[i] = s[i] /\ s[i] \notin BasesOf[e]
      BY <1>1, <1>2, <1>3, <2>2
    <3>2. CASE j = n + 1
      BY <1>2, <1>5, <3>1, <3>2
    <3>3. CASE j > n + 1
      <4>1. j \in n + 2 .. n + 1 + m /\ j - n - 1 \in 1 .. m
        BY <1>1, <3>3
      <4>2. new[j] \in BasesOf[e]
        BY <1>2, <1>3, <4>1
      <4>3. new[i] \in BasesOf[e]
        BY <1>5, <4>2, BaseOfBase
      <4>4. QED
        BY <3>1, <4>3
    <3>4. QED
      BY <1>1, <2>2, <3>2, <3>3
  <2>3. CASE i = n + 1
    <3>1. j \in n + 2 .. n + 1 + m /\ j - n - 1 \in 1 .. m
      BY <1>1, <1>5, <2>3
    <3>2. QED
      BY <1>2, <1>3, <2>3, <3>1
  <2>4. CASE i > n + 1
    <3>1. /\ i \in n + 2 .. n + 1 + m /\ i - n - 1 \in 1 .. m
          /\ j \in n + 2 .. n + 1 + m /\ j - n - 1 \in 1 .. m /\ i - n - 1 < j - n - 1
      BY <1>1, <1>5, <2>4
    <3>2. new[i] = t[i - n - 1] /\ new[j] = t[j - n - 1]
      BY <1>2, <3>1
    <3>3. QED
      BY <1>4, <1>5, <3>1, <3>2
  <2>5. QED
    BY <1>1, <2>1, <2>2, <2>3, <2>4
<1>6. QED
  BY <1>2, <1>5 DEF DerivedFirst

(* mp_sort keeps the types of a list and puts none before one derived from it, *)
(* though its predicate is no order on unrelated types.                        *)
LEMMA MpSortSorts ==
  ASSUME NEW list \in Seq(Class)
  PROVE  SortedFrom(MpSort[list], list)
<1> DEFINE n == Len(list)
           P == {k \in 0 .. n : \A l \in UpToLen(k) : SortedFrom(MpSort[l], l)}
<1>1. n \in Nat /\ list \in UpToLen(n)
  BY DEF UpToLen
<1>2. SortedFrom(MpSort[<<>>], <<>>)
  <2>1. <<>> \in Seq(Class) /\ Len(<<>>) = 0
    OBVIOUS
  <2>2. MpSort[<<>>] = <<>>
    BY <2>1, MpSortIs DEF SortOf
  <2>3. QED
    BY <2>1, <2>2 DEF SortedFrom, DerivedFirst
<1>3. 0 \in P
  <2>1. \A l \in UpToLen(0) : l = <<>>
    BY PartsShorter DEF UpToLen
  <2>2. QED
    BY <1>1, <1>2, <2>1
<1>4. ASSUME NEW k \in 1 .. n, k - 1 \in P PROVE k \in P
  <2>1. ASSUME NEW l \in UpToLen(k), l # <<>> PROVE SortedFrom(MpSort[l], l)
    <3> DEFINE b == Before(l)
               a == After(l)
               h == Head(l)
               s == MpSort[b]
               t == MpSort[a]
    <3>1. l \in Seq(Class) /\ Len(l) <= k
      BY DEF UpToLen
    <3>2. /\ Len(l) \in Nat \ {0} /\ h \in Class
          /\ b \in UpToLen(Len(l) - 1) /\ a \in UpToLen(Len(l) - 1)
      BY <2>1, <3>1, PartsShorter
    <3>3. b \in UpToLen(k - 1) /\ a \in UpToLen(k - 1)
      BY <3>1, <3>2 DEF UpToLen
    <3>4. SortedFrom(s, b) /\ SortedFrom(t, a)
      BY <1>4, <3>3
    <3>5. MpSort[l] = s \o <<h>> \o t
      BY <2>1, <3>1, MpSortIs DEF SortOf
    <3>6. Tail(l) \in Seq(Class)
      BY <2>1, <3>1
    <3>7. /\ \A c : Contains(b, c) <=> Contains(Tail(l), c) /\ c \in Class \ BasesOf[h]
          /\ \A c : Contains(a, c) <=> Contains(Tail(l), c) /\ c \in BasesOf[h]
      BY <3>6, KeptIs DEF Before, After
    <3> HIDE DEF a, b, h, s, t
    <3>8. /\ s \in Seq(Class) /\ DerivedFirst(s) /\ \A c : Contains(s, c) <=> Contains(b, c)
          /\ t \in Seq(Class) /\ DerivedFirst(t) /\ \A c : Contains(t, c) <=> Contains(a, c)
      BY <3>4 DEF SortedFrom
    <3>9. MpSort[l] \in Seq(Class) /\ Around(MpSort[l], s, h, t)
      BY <3>2, <3>5, <3>8, AroundIs
    <3>10. DerivedFirst(MpSort[l])
      BY <3>2, <3>7, <3>8, <3>9, AroundDerivedFirst
    <3>11. ASSUME NEW c PROVE Contains(l, c) <=> c = h \/ (Contains(Tail(l), c) /\ c \in Class)
      <4>1. /\ Len(l) \in Nat \ {0} /\ h = l[1] /\ Len(Tail(l)) = Len(l) - 1
            /\ \A i \in 1 .. Len(l) - 1 : Tail(l)[i] = l[i + 1] /\ l[i + 1] \in Class
        BY <2>1, <3>1 DEF h
      <4>2. ASSUME NEW i \in 1 .. Len(l), l[i] = c
            PROVE  c = h \/ (Contains(Tail(l), c) /\ c \in Class)
        <5>1. CASE i = 1
          BY <4>1, <4>2, <5>1
        <5>2. CASE i # 1
          <6>1. i - 1 \in 1 .. Len(l) - 1 /\ (i - 1) + 1 = i
            BY <4>1, <5>2
          <6>2. Tail(l)[i - 1] = c /\ c \in Class
            BY <4>1, <4>2, <6>1
          <6>3. QED
            BY <4>1, <6>1, <6>2 DEF Contains
        <5>3. QED
          BY <5>1, <5>2
      <4>3. ASSUME NEW i \in 1 .. Len(l) - 1, Tail(l)[i] = c PROVE Contains(l, c)
        <5>1. i + 1 \in 1 .. Len(l) /\ l[i + 1] = c
          BY <4>1, <4>3
        <5>2. QED
          BY <5>1 DEF Contains
      <4>4. c = h => Contains(l, c)
        <5>1. 1 \in 1 .. Len(l)
          BY <4>1
        <5>2. QED
          BY <4>1, <5>1 DEF Contains
      <4>5. Contains(l, c) <=> \E i \in 1 .. Len(l) : l[i] = c
        BY DEF Contains
      <4>6. Contains(Tail(l), c) <=> \E i \in 1 .. Len(l) - 1 : Tail(l)[i] = c
        BY <4>1 DEF Contains
      <4>7. QED
        BY <4>2, <4>3, <4>4, <4>5, <4>6
    <3>12. \A c : Contains(MpSort[l], c) <=> Contains(l, c)
      <4>1. ASSUME NEW c PROVE Contains(MpSort[l], c) <=> Contains(s, c) \/ c = h \/ Contains(t, c)
        BY <3>2, <3>8, <3>9, AroundContains
      <4>2. h \in Class /\ BasesOf[h] \in SUBSET Class
        BY <3>2, BaseIs
      <4>3. ASSUME NEW c PROVE Contains(MpSort[l], c) <=> Contains(l, c)
        <5>1. Contains(s, c) <=> Contains(Tail(l), c) /\ c \in Class \ BasesOf[h]
          BY <3>7, <3>8
        <5>2. Contains(t, c) <=> Contains(Tail(l), c) /\ c \in BasesOf[h]
          BY <3>7, <3>8
        <5>3. Contains(l, c) <=> c = h \/ (Contains(Tail(l), c) /\ c \in Class)
          BY <3>11
        <5>4. QED
          BY <4>1, <4>2, <5>1, <5>2, <5>3
      <4>4. QED
        BY <4>3
    <3>13. QED
      BY <3>9, <3>10, <3>12 DEF SortedFrom
  <2>2. k \in 0 .. n
    BY <1>1
  <2>3. QED
    BY <1>2, <2>1, <2>2
<1>5. n \in P
  <2> HIDE DEF P
  <2>1. \A k \in 0 .. n : k \in P
    BY <1>1, <1>3, <1>4, EachAfterTheOneBefore
  <2>2. QED
    BY <1>1, <2>1
<1>6. QED
  BY <1>1, <1>5

\* i is the first place in s of a base of c, 0 if there is none.
IsFirstBase(i, s, c) ==
  \/ i = 0 /\ \A j \in 1 .. Len(s) : s[j] \notin BasesOf[c]
  \/ i \in 1 .. Len(s) /\ s[i] \in BasesOf[c] /\ \A j \in 1 .. Len(s) : s[j] \in BasesOf[c] => i <= j

LEMMA FirstBaseIs ==
  ASSUME NEW s \in Seq(Class), NEW c \in Class
  PROVE  IsFirstBase(FirstBase(s, c), s, c)
<1> DEFINE I == {i \in 1 .. Len(s) : s[i] \in BasesOf[c]}
<1>1. FirstBase(s, c) = IF I # {} THEN Min(I) ELSE 0
  BY DEF FirstBase, SelectInSeq
<1>2. CASE I = {}
  BY <1>1, <1>2 DEF IsFirstBase
<1>3. CASE I # {}
  <2>1. \E i \in I : \A j \in I : i <= j
    <3>1. I \in SUBSET Nat
      OBVIOUS
    <3> HIDE DEF I
    <3>2. QED
      BY <1>3, <3>1, NatLeast
  <2>2. Min(I) \in I /\ \A j \in I : Min(I) <= j
    BY <2>1 DEF Min
  <2>3. FirstBase(s, c) = Min(I)
    BY <1>1, <1>3
  <2> DEFINE i == Min(I)
  <2> HIDE DEF i
  <2>4. i \in I /\ \A j \in I : i <= j
    BY <2>2 DEF i
  <2>5. IsFirstBase(i, s, c)
    BY <2>4 DEF IsFirstBase
  <2>6. QED
    BY <2>3, <2>5 DEF i
<1>4. QED
  BY <1>2, <1>3

(* From the first base found in a sorted list no other derives. *)
LEMMA FirstBaseNearest ==
  ASSUME NEW list \in Seq(Class), NEW s, SortedFrom(s, list), NEW c \in Class,
         NEW i, IsFirstBase(i, s, c), i # 0
  PROVE  IsNearest(list, s[i], c)
<1>1. /\ s \in Seq(Class) /\ DerivedFirst(s) /\ \A d : Contains(s, d) <=> Contains(list, d)
      /\ i \in 1 .. Len(s) /\ s[i] \in BasesOf[c]
      /\ \A j \in 1 .. Len(s) : s[j] \in BasesOf[c] => i <= j
  BY DEF SortedFrom, IsFirstBase
<1>2. \A d : d \in ToSet(list) <=> Contains(list, d)
  BY DEF ToSet, Contains
<1>3. s[i] \in ToSet(list)
  BY <1>1, <1>2 DEF Contains
<1>4. ASSUME NEW d \in BasesOf[c], d \in ToSet(list), s[i] \in BasesOf[d] PROVE d = s[i]
  <2>1. PICK j \in 1 .. Len(s) : s[j] = d
    BY <1>1, <1>2, <1>4 DEF Contains
  <2>2. i <= j /\ i \in Nat /\ j \in Nat /\ s[i] \in Class /\ d \in Class
    BY <1>1, <2>1, ElementOfSeq
  <2>3. CASE i = j
    BY <2>1, <2>3
  <2>4. CASE i < j
    <3>1. d \in BasesOf[s[i]]
      BY <1>1, <1>4, <2>1, <2>4 DEF DerivedFirst
    <3>2. QED
      BY <1>4, <2>2, <3>1, NotEachOthersBase
  <2>5. QED
    BY <2>2, <2>3, <2>4
<1>5. QED
  BY <1>1, <1>3, <1>4 DEF IsNearest

(* It is found if the list's base is the object's. *)
LEMMA FirstBaseFound ==
  ASSUME NEW list \in Seq(Class), list # <<>>, NEW c \in Class, Base(list) \in BasesOf[c]
  PROVE  FirstBase(MpSort[list], c) # 0
<1> DEFINE s == MpSort[list]
<1>1. SortedFrom(s, list)
  BY MpSortSorts
<1>2. Base(list) = s[Len(s)]
  BY DEF Base, Last
<1> HIDE DEF s
<1>3. s \in Seq(Class) /\ \A d : Contains(s, d) <=> Contains(list, d)
  BY <1>1 DEF SortedFrom
<1>4. Contains(list, list[1])
  <2>1. 1 \in 1 .. Len(list)
    OBVIOUS
  <2>2. QED
    BY <2>1 DEF Contains
<1>5. PICK j \in 1 .. Len(s) : s[j] = list[1]
  BY <1>3, <1>4 DEF Contains
<1>6. Len(s) \in 1 .. Len(s)
  <2>1. Len(s) \in Nat
    BY <1>3
  <2>2. QED
    BY <1>5, <2>1
<1>7. IsFirstBase(FirstBase(s, c), s, c)
  BY <1>3, FirstBaseIs
<1>8. QED
  BY <1>2, <1>6, <1>7 DEF IsFirstBase, s

\* What StaticDispatcher makes of the places found in both lists.
Dispatched(l, r, symmetric, i, j) == DoDispatch(As(l[i], "lhs"), As(r[j], "rhs"), symmetric /\ j < i)

LEMMA StaticDispatchIs ==
  ASSUME NEW lhs \in Seq(Class), NEW rhs \in Seq(Class), lhs # <<>>, rhs # <<>>, NEW symmetric,
         NEW a \in Class, NEW b \in Class, Base(lhs) \in BasesOf[a], Base(rhs) \in BasesOf[b]
  PROVE  StaticDispatch(lhs, rhs, symmetric, a, b) =
           Dispatched(MpSort[lhs], MpSort[rhs], symmetric,
                      FirstBase(MpSort[lhs], a), FirstBase(MpSort[rhs], b))
<1>1. FirstBase(MpSort[lhs], a) # 0 /\ FirstBase(MpSort[rhs], b) # 0
  BY FirstBaseFound
<1>2. QED
  BY <1>1 DEF StaticDispatch, DispatchRhs, Dispatched

\* Each argument of a call is seen as the nearest of its listed bases.
SeenAsNearest(call, lhs, rhs, a, b) ==
  \A i \in 1 .. 2 :
    IF call[i].side = "lhs" THEN IsNearest(lhs, call[i].type, a) ELSE IsNearest(rhs, call[i].type, b)

LEMMA DispatchedNearest ==
  ASSUME NEW lhs \in Seq(Class), NEW rhs \in Seq(Class), NEW l, NEW r,
         SortedFrom(l, lhs), SortedFrom(r, rhs), NEW symmetric \in BOOLEAN, NEW a \in Class, NEW b \in Class,
         NEW i, NEW j, IsFirstBase(i, l, a), IsFirstBase(j, r, b), i # 0, j # 0
  PROVE  /\ Dispatched(l, r, symmetric, i, j) # OnError
         /\ SeenAsNearest(Dispatched(l, r, symmetric, i, j), lhs, rhs, a, b)
<1> DEFINE x == As(l[i], "lhs")
           y == As(r[j], "rhs")
<1>1. IsNearest(lhs, l[i], a) /\ IsNearest(rhs, r[j], b)
  BY FirstBaseNearest
<1>2. x.side = "lhs" /\ x.type = l[i] /\ y.side = "rhs" /\ y.type = r[j]
  BY DEF As
<1> HIDE DEF x, y
<1>3. Dispatched(l, r, symmetric, i, j) \in {<<x, y>>, <<y, x>>}
  BY DEF Dispatched, DoDispatch, x, y
<1>4. <<x, y>> # OnError /\ <<y, x>> # OnError
  BY DEF OnError
<1>5. SeenAsNearest(<<x, y>>, lhs, rhs, a, b) /\ SeenAsNearest(<<y, x>>, lhs, rhs, a, b)
  BY <1>1, <1>2 DEF SeenAsNearest
<1>6. QED
  BY <1>3, <1>4, <1>5

\* A call and the call with the arguments exchanged.
Mirrored(call, back) ==
  \A i \in 1 .. 2 :
    /\ call[i].type = back[i].type
    /\ call[1].type # call[2].type => call[i].side # back[i].side

LEMMA MirroredPairs ==
  ASSUME NEW x, NEW y, NEW u, NEW v, x.type = u.type, y.type = v.type,
         x.type # y.type => x.side # u.side /\ y.side # v.side
  PROVE  Mirrored(<<x, y>>, <<u, v>>)
<1> DEFINE call == <<x, y>>
           back == <<u, v>>
<1>1. call[1] = x /\ call[2] = y /\ back[1] = u /\ back[2] = v
  OBVIOUS
<1> HIDE DEF call, back
<1>2. \A i \in 1 .. 2 : i = 1 \/ i = 2
  OBVIOUS
<1>3. Mirrored(call, back)
  BY <1>1, <1>2 DEF Mirrored
<1>4. QED
  BY <1>3 DEF call, back

LEMMA DispatchedMirrored ==
  ASSUME NEW l, NEW i \in Nat, NEW j \in Nat
  PROVE  Mirrored(Dispatched(l, l, TRUE, i, j), Dispatched(l, l, TRUE, j, i))
<1> DEFINE x == As(l[i], "lhs")
           y == As(l[j], "rhs")
           backX == As(l[j], "lhs")
           backY == As(l[i], "rhs")
<1>1. /\ x.side = "lhs" /\ x.type = l[i] /\ y.side = "rhs" /\ y.type = l[j]
      /\ backX.side = "lhs" /\ backX.type = l[j] /\ backY.side = "rhs" /\ backY.type = l[i]
  BY DEF As
<1> HIDE DEF x, y, backX, backY
<1>2. CASE j < i
  <2>1. /\ Dispatched(l, l, TRUE, i, j) = <<y, x>>
        /\ Dispatched(l, l, TRUE, j, i) = <<backX, backY>>
    BY <1>2 DEF Dispatched, DoDispatch, x, y, backX, backY
  <2>2. QED
    BY <1>1, <2>1, MirroredPairs
<1>3. CASE i < j
  <2>1. /\ Dispatched(l, l, TRUE, i, j) = <<x, y>>
        /\ Dispatched(l, l, TRUE, j, i) = <<backY, backX>>
    BY <1>3 DEF Dispatched, DoDispatch, x, y, backX, backY
  <2>2. QED
    BY <1>1, <2>1, MirroredPairs
<1>4. CASE i = j
  <2>1. /\ Dispatched(l, l, TRUE, i, j) = <<x, y>>
        /\ Dispatched(l, l, TRUE, j, i) = <<backX, backY>>
    BY <1>4 DEF Dispatched, DoDispatch, x, y, backX, backY
  <2>2. QED
    BY <1>1, <1>4, <2>1, MirroredPairs
<1>5. i < j \/ j < i \/ i = j
  OBVIOUS
<1>6. QED
  BY <1>2, <1>3, <1>4, <1>5

LEMMA InvDispatchNearest ==
  ASSUME RegistriesInv
  PROVE  StaticDispatchNearest
<1> DEFINE lhs == types.lhs
           rhs == types.rhs
           l == MpSort[lhs]
           r == MpSort[rhs]
<1>1. lhs \in Seq(Class) /\ lhs # <<>> /\ rhs \in Seq(Class) /\ rhs # <<>>
  BY RegistriesAssumption DEF RegistriesInv
<1>2. SortedFrom(l, lhs) /\ SortedFrom(r, rhs)
  BY <1>1, MpSortSorts
<1>3. l \in Seq(Class) /\ r \in Seq(Class)
  BY <1>2 DEF SortedFrom
<1> HIDE DEF lhs, rhs, l, r
<1>4. ASSUME NEW a \in Class, NEW b \in Class, NEW symmetric \in BOOLEAN,
             Base(lhs) \in BasesOf[a], Base(rhs) \in BasesOf[b],
             NEW call, call = StaticDispatch(lhs, rhs, symmetric, a, b),
             NEW back, back = StaticDispatch(rhs, lhs, symmetric, b, a)
      PROVE  /\ call # OnError /\ SeenAsNearest(call, lhs, rhs, a, b)
             /\ symmetric /\ lhs = rhs => Mirrored(call, back)
  <2> DEFINE i == FirstBase(l, a)
             j == FirstBase(r, b)
  <2>1. IsFirstBase(i, l, a) /\ IsFirstBase(j, r, b)
    BY <1>3, FirstBaseIs
  <2>2. i # 0 /\ j # 0
    BY <1>1, <1>4, FirstBaseFound DEF l, r
  <2>3. i \in Nat /\ j \in Nat
    BY <1>3, <2>1 DEF IsFirstBase
  <2>4. call = Dispatched(l, r, symmetric, i, j)
    BY <1>1, <1>4, StaticDispatchIs DEF l, r
  <2>5. back = Dispatched(r, l, symmetric, j, i)
    BY <1>1, <1>4, StaticDispatchIs DEF l, r
  <2> HIDE DEF i, j
  <2>6. call # OnError /\ SeenAsNearest(call, lhs, rhs, a, b)
    BY <1>1, <1>2, <2>1, <2>2, <2>4, DispatchedNearest
  <2>7. ASSUME symmetric, lhs = rhs PROVE Mirrored(call, back)
    <3>1. r = l
      BY <2>7 DEF l, r
    <3>2. symmetric = TRUE
      BY <2>7
    <3>3. call = Dispatched(l, l, TRUE, i, j) /\ back = Dispatched(l, l, TRUE, j, i)
      BY <2>4, <2>5, <3>1, <3>2
    <3>4. QED
      BY <2>3, <3>3, DispatchedMirrored
  <2>8. QED
    BY <2>6, <2>7
<1>5. QED
  BY <1>4 DEF StaticDispatchNearest, SeenAsNearest, Mirrored, lhs, rhs

(* FnDispatcher and FunctorDispatcher make the same call, with objects of      *)
(* exactly the callback's classes, whatever was added, overwritten and         *)
(* removed; StaticDispatcher calls its executor with each object as the        *)
(* nearest of its listed bases, for any hierarchy and any two typelists that   *)
(* compile, and with symmetry answers exchanged arguments with the exchanged   *)
(* call (MultiMethods.h).                                                      *)
THEOREM DispatchAlwaysSound ==
  Spec => []DispatchSound
<1>1. RegistriesInit => StaticsInv /\ RegistriesInv
  BY StaticsInvInit, RegistriesInvInit DEF RegistriesInit
<1>2. StaticsInv /\ RegistriesInv /\ [RegistriesNext]_vars => StaticsInv' /\ RegistriesInv'
  BY StepOfStatics, StaticsInvStep, RegistriesInvStep
<1>3. RegistriesInv => DispatchSound
  BY InvDispatchersAgree, InvDispatchNearest DEF DispatchSound
<1>4. QED
  BY <1>1, <1>2, <1>3, PTL DEF Spec

-----------------------------------------------------------------------------
(* Words as sets of bits, whatever their width. *)

Digit(S, i) == IF i \in S THEN 1 ELSE 0

\* Number's passes, and what it has read after each.
Reading(S) == [k \in Bit |-> [high \in Nat |-> 2 * high + (IF Width - k + 1 \in S THEN 1 ELSE 0)]]
Top(S) == Passes(Reading(S), 0, Width)

LEMMA ReadingReads ==
  ASSUME NEW S, NEW k \in 1 .. Width, NEW v \in Nat
  PROVE  Reading(S)[k][v] = 2 * v + Digit(S, Width - k + 1) /\ Reading(S)[k][v] \in Nat
  BY WidthAssumption DEF Reading, Bit, Digit

(* A word, from its senior bit on. *)
LEMMA TopIs ==
  ASSUME NEW S
  PROVE  /\ Top(S) \in [0 .. Width -> Nat]
         /\ Top(S)[0] = 0
         /\ \A k \in 1 .. Width : Top(S)[k] = 2 * Top(S)[k - 1] + Digit(S, Width - k + 1)
         /\ Number(S) = Top(S)[Width]
         /\ Number(S) \in Nat
<1>1. Keeps(Reading(S), 0, Width, Nat)
  BY ReadingReads, WidthAssumption DEF Keeps
<1>2. Width \in Nat /\ 0 \in Nat
  BY WidthAssumption
<1> DEFINE p == Reading(S)
<1>3. Number(S) = Loop(p, 0, Width)
  BY DEF Number, Reading
<1>4. \A k \in 1 .. Width, v \in Nat : p[k][v] = 2 * v + Digit(S, Width - k + 1)
  BY ReadingReads
<1>5. Top(S) = Passes(p, 0, Width)
  BY DEF Top
<1> HIDE DEF p
<1>6. /\ Top(S) \in [0 .. Width -> Nat]
      /\ Top(S)[0] = 0
      /\ \A k \in 1 .. Width : Top(S)[k] = p[k][Top(S)[k - 1]]
      /\ Number(S) = Top(S)[Width]
      /\ Number(S) \in Nat
  <2>1. Keeps(p, 0, Width, Nat)
    BY <1>1 DEF p
  <2> DEFINE g == Passes(p, 0, Width)
  <2>2. /\ g \in [0 .. Width -> Nat]
        /\ g[0] = 0
        /\ \A k \in 1 .. Width : g[k] = p[k][g[k - 1]]
        /\ Loop(p, 0, Width) = g[Width]
        /\ Loop(p, 0, Width) \in Nat
    BY <2>1, PassesAre
  <2> HIDE DEF g
  <2>3. Top(S) = g
    BY <1>5 DEF g
  <2>4. QED
    BY <1>3, <2>2, <2>3
<1>7. ASSUME NEW k \in 1 .. Width PROVE Top(S)[k] = 2 * Top(S)[k - 1] + Digit(S, Width - k + 1)
  <2>1. k - 1 \in 0 .. Width
    BY <1>2
  <2>2. Top(S)[k - 1] \in Nat
    BY <1>6, <2>1
  <2>3. QED
    BY <1>4, <1>6, <2>2
<1>8. QED
  BY <1>6, <1>7

LEMMA DigitIs ==
  ASSUME NEW S, NEW i
  PROVE  Digit(S, i) \in {0, 1} /\ (Digit(S, i) = 1 <=> i \in S)
  BY DEF Digit

(* A set reads the same as another up to where they are the same. *)
LEMMA TopMonotone ==
  ASSUME NEW S, NEW T, S \cap Bit \subseteq T
  PROVE  \A k \in 0 .. Width : Top(S)[k] <= Top(T)[k]
<1> DEFINE P == {k \in 0 .. Width : Top(S)[k] <= Top(T)[k]}
<1>1. 0 \in P
  BY TopIs, WidthAssumption
<1>2. ASSUME NEW k \in 1 .. Width, k - 1 \in P PROVE k \in P
  <2>1. Width - k + 1 \in Bit /\ k - 1 \in 0 .. Width /\ k \in 0 .. Width
    BY WidthAssumption DEF Bit
  <2>2. Digit(S, Width - k + 1) <= Digit(T, Width - k + 1)
    BY <2>1 DEF Digit
  <2>3. /\ Top(S)[k] = 2 * Top(S)[k - 1] + Digit(S, Width - k + 1)
        /\ Top(T)[k] = 2 * Top(T)[k - 1] + Digit(T, Width - k + 1)
        /\ Top(S)[k - 1] \in Nat /\ Top(T)[k - 1] \in Nat
    BY <2>1, TopIs
  <2>4. Top(S)[k] <= Top(T)[k]
    BY <1>2, <2>2, <2>3, DigitIs
  <2>5. QED
    BY <2>1, <2>4
<1> HIDE DEF P
<1>3. \A k \in 0 .. Width : k \in P
  BY <1>1, <1>2, EachAfterTheOneBefore, WidthAssumption
<1>4. QED
  BY <1>3 DEF P

LEMMA NumberMonotone ==
  ASSUME NEW S, NEW T, S \cap Bit \subseteq T
  PROVE  Number(S) <= Number(T)
<1>1. Width \in 0 .. Width
  BY WidthAssumption
<1>2. Top(S)[Width] <= Top(T)[Width]
  BY <1>1, TopMonotone
<1>3. QED
  BY <1>2, TopIs

(* Every set of bits is a word. *)
LEMMA NumberIsWord ==
  ASSUME NEW S
  PROVE  Number(S) \in Word
<1>1. Number(S) <= Number(Bit)
  BY NumberMonotone
<1>2. QED
  BY <1>1, TopIs DEF Word

(* The complement of a word is that of its set. *)
LEMMA ComplementIs ==
  ASSUME NEW S \in SUBSET Bit
  PROVE  Complement(Number(S)) = Number(Bit \ S)
<1> DEFINE C == Bit \ S
           P == {k \in 0 .. Width : Top(S)[k] + Top(C)[k] = Top(Bit)[k]}
<1>0. \A i \in Bit : i \in C <=> i \notin S
  OBVIOUS
<1> HIDE DEF C
<1>1. 0 \in P
  <2>1. Top(S)[0] = 0 /\ Top(C)[0] = 0 /\ Top(Bit)[0] = 0
    BY TopIs
  <2>2. QED
    BY <2>1, WidthAssumption
<1>2. ASSUME NEW k \in 1 .. Width, k - 1 \in P PROVE k \in P
  <2>1. Width - k + 1 \in Bit /\ k - 1 \in 0 .. Width /\ k \in 0 .. Width
    BY WidthAssumption DEF Bit
  <2>2. Digit(S, Width - k + 1) + Digit(C, Width - k + 1) = Digit(Bit, Width - k + 1)
    BY <1>0, <2>1 DEF Digit
  <2>3. /\ Top(S)[k] = 2 * Top(S)[k - 1] + Digit(S, Width - k + 1)
        /\ Top(C)[k] = 2 * Top(C)[k - 1] + Digit(C, Width - k + 1)
        /\ Top(Bit)[k] = 2 * Top(Bit)[k - 1] + Digit(Bit, Width - k + 1)
        /\ Top(S)[k - 1] \in Nat /\ Top(C)[k - 1] \in Nat /\ Top(Bit)[k - 1] \in Nat
    BY <2>1, TopIs
  <2>4. Top(S)[k] + Top(C)[k] = Top(Bit)[k]
    BY <1>2, <2>2, <2>3, DigitIs
  <2>5. QED
    BY <2>1, <2>4
<1> HIDE DEF P
<1>3. \A k \in 0 .. Width : k \in P
  BY <1>1, <1>2, EachAfterTheOneBefore, WidthAssumption
<1>4. Width \in P
  BY <1>3, WidthAssumption
<1>5. Number(S) + Number(C) = Number(Bit)
  BY <1>4, TopIs DEF P
<1>6. QED
  BY <1>5, TopIs DEF Complement, C

-----------------------------------------------------------------------------
(* Shifts *)

Halving(s) == [k \in 1 .. s |-> [w \in Nat |-> w \div 2]]

(* Each halving of a word loses its junior bit. *)
LEMMA ShiftRightIs ==
  ASSUME NEW S, NEW s \in 0 .. Width
  PROVE  ShiftRight(Number(S), s) = Top(S)[Width - s]
<1> DEFINE p == Halving(s)
           g == Passes(p, Number(S), s)
           P == {k \in 0 .. s : g[k] = Top(S)[Width - k]}
<1>1. \A k \in 1 .. s, v \in Nat : p[k][v] = v \div 2 /\ p[k][v] \in Nat
  BY DEF Halving
<1>2. s \in Nat /\ Number(S) \in Nat /\ Width \in Nat
  BY TopIs, WidthAssumption
<1>3. ShiftRight(Number(S), s) = Loop(p, Number(S), s)
  BY DEF ShiftRight, Halving
<1> HIDE DEF p
<1>10. Keeps(p, Number(S), s, Nat)
  BY <1>1, <1>2 DEF Keeps
<1>4. /\ g[0] = Number(S)
      /\ \A k \in 1 .. s : g[k] = p[k][g[k - 1]]
      /\ ShiftRight(Number(S), s) = g[s]
  BY <1>2, <1>3, <1>10, PassesAre
<1> HIDE DEF g
<1>5. 0 \in P
  BY <1>2, <1>4, TopIs
<1>6. ASSUME NEW k \in 1 .. s, k - 1 \in P PROVE k \in P
  <2> DEFINE j == Width - k + 1
  <2>1. j \in 1 .. Width /\ j - 1 = Width - k /\ Width - (k - 1) = j /\ k \in 0 .. s
        /\ j - 1 \in 0 .. Width
    BY <1>2
  <2>2. g[k - 1] = Top(S)[j] /\ Top(S)[j] = 2 * Top(S)[j - 1] + Digit(S, Width - j + 1)
        /\ Top(S)[j - 1] \in Nat
    BY <1>6, <2>1, TopIs
  <2>3. Top(S)[j] \div 2 = Top(S)[j - 1] /\ Top(S)[j] \in Nat
    BY <2>2, DigitIs
  <2>4. g[k] = Top(S)[j] \div 2
    BY <1>1, <1>4, <2>2, <2>3
  <2>5. QED
    BY <2>1, <2>3, <2>4
<1> HIDE DEF P
<1>7. \A k \in 0 .. s : k \in P
  BY <1>2, <1>5, <1>6, EachAfterTheOneBefore
<1>8. s \in P
  BY <1>2, <1>7
<1>9. QED
  BY <1>4, <1>8 DEF P

(* The bits of a word are those that it was made of. *)
LEMMA BitsOfNumber ==
  ASSUME NEW S \in SUBSET Bit
  PROVE  BitsOf(Number(S)) = S
<1>1. ASSUME NEW i \in Bit PROVE ShiftRight(Number(S), i - 1) % 2 = 1 <=> i \in S
  <2> DEFINE j == Width - i + 1
  <2>1. i - 1 \in 0 .. Width /\ j = Width - (i - 1) /\ j \in 1 .. Width /\ Width - j + 1 = i
        /\ j - 1 \in 0 .. Width
    BY WidthAssumption DEF Bit
  <2>2. ShiftRight(Number(S), i - 1) = Top(S)[j]
    BY <2>1, ShiftRightIs
  <2>3. Top(S)[j] = 2 * Top(S)[j - 1] + Digit(S, i) /\ Top(S)[j - 1] \in Nat
    BY <2>1, TopIs
  <2>4. QED
    BY <2>2, <2>3, DigitIs
<1>2. QED
  BY <1>1 DEF BitsOf

LEMMA NumberInjective ==
  ASSUME NEW S \in SUBSET Bit, NEW T \in SUBSET Bit
  PROVE  Number(S) = Number(T) <=> S = T
  BY BitsOfNumber

LEMMA NumberOfNone ==
  Number({}) = 0
<1> DEFINE P == {k \in 0 .. Width : Top({})[k] = 0}
<1>1. 0 \in P
  BY TopIs, WidthAssumption
<1>2. ASSUME NEW k \in 1 .. Width, k - 1 \in P PROVE k \in P
  BY <1>2, TopIs DEF Digit
<1> HIDE DEF P
<1>3. \A k \in 0 .. Width : k \in P
  BY <1>1, <1>2, EachAfterTheOneBefore, WidthAssumption
<1>4. Width \in P
  BY <1>3, WidthAssumption
<1>5. QED
  BY <1>4, TopIs DEF P

(* Two sets that are the same beyond the bits shifted in read the same. *)
LEMMA ShiftRightMoves ==
  ASSUME NEW S \in SUBSET Bit, NEW s \in 0 .. Width
  PROVE  ShiftRight(Number(S), s) = Number({i - s : i \in S} \cap Bit)
<1> DEFINE Q == {i - s : i \in S} \cap Bit
           P == {k \in 0 .. Width : Top(Q)[k] = IF k <= s THEN 0 ELSE Top(S)[k - s]}
<1>0. Width \in Nat /\ s \in Nat /\ Width \in 1 .. Width
  BY WidthAssumption
<1>1. \A i \in Bit : i \in Q <=> i + s \in S
  BY <1>0 DEF Bit
<1>2. 0 \in P
  BY <1>0, TopIs
<1> HIDE DEF Q
<1>3. ASSUME NEW k \in 1 .. Width, k - 1 \in P PROVE k \in P
  <2>1. Width - k + 1 \in Bit /\ k - 1 \in 0 .. Width /\ k \in 0 .. Width
    BY <1>0 DEF Bit
  <2>2. Top(Q)[k] = 2 * Top(Q)[k - 1] + Digit(Q, Width - k + 1)
    BY TopIs
  <2>3. CASE k <= s
    <3>1. Width - k + 1 + s \notin S
      BY <1>0, <2>3 DEF Bit
    <3>2. Digit(Q, Width - k + 1) = 0
      BY <1>1, <2>1, <3>1 DEF Digit
    <3>3. Top(Q)[k - 1] = 0
      BY <1>0, <1>3, <2>1, <2>3
    <3>4. QED
      BY <2>1, <2>2, <2>3, <3>2, <3>3
  <2>4. CASE ~(k <= s)
    <3> DEFINE j == k - s
    <3>1. j \in 1 .. Width /\ Width - j + 1 = Width - k + 1 + s /\ j - 1 = k - 1 - s
          /\ j - 1 \in 0 .. Width
      BY <1>0, <2>4
    <3>2. Digit(Q, Width - k + 1) = Digit(S, Width - j + 1)
      BY <1>1, <2>1, <3>1 DEF Digit
    <3>3. Top(Q)[k - 1] = Top(S)[j - 1]
      <4>1. CASE k - 1 <= s
        <5>1. j - 1 = 0
          BY <1>0, <2>4, <4>1
        <5>2. Top(S)[0] = 0
          BY TopIs
        <5>3. Top(Q)[k - 1] = 0
          BY <1>3, <4>1
        <5>4. QED
          BY <5>1, <5>2, <5>3
      <4>2. CASE ~(k - 1 <= s)
        BY <1>3, <3>1, <4>2
      <4>3. QED
        BY <4>1, <4>2
    <3>4. Top(S)[j] = 2 * Top(S)[j - 1] + Digit(S, Width - j + 1)
      BY <3>1, TopIs
    <3>5. QED
      BY <2>1, <2>2, <2>4, <3>2, <3>3, <3>4
  <2>5. QED
    BY <2>3, <2>4
<1> HIDE DEF P
<1>4. \A k \in 0 .. Width : k \in P
  BY <1>0, <1>2, <1>3, EachAfterTheOneBefore
<1>5. Top(Q)[Width] = IF Width <= s THEN 0 ELSE Top(S)[Width - s]
  BY <1>0, <1>4 DEF P
<1>6. Top(Q)[Width] = Top(S)[Width - s]
  <2>1. CASE Width <= s
    <3>1. Width - s = 0
      BY <1>0, <2>1
    <3>2. QED
      BY <1>5, <2>1, <3>1, TopIs
  <2>2. CASE ~(Width <= s)
    BY <1>5, <2>2
  <2>3. QED
    BY <2>1, <2>2
<1>7. QED
  BY <1>6, ShiftRightIs, TopIs DEF Q

(* Doubling a word loses its senior bit. *)
LEMMA DoubleMoves ==
  ASSUME NEW S \in SUBSET Bit
  PROVE  2 * Number(S) % (Number(Bit) + 1) = Number({i + 1 : i \in S} \cap Bit)
<1> DEFINE Q == {i + 1 : i \in S} \cap Bit
           L == Width - 1
           P == {k \in 0 .. L :
                   Top(S)[k + 1] = IF Width \in S THEN Top(Bit)[k] + 1 + Top(Q)[k] ELSE Top(Q)[k]}
<1>0. Width \in Nat /\ Width >= 1 /\ L \in Nat /\ L + 1 = Width /\ 1 \in 1 .. Width
      /\ 0 \in 0 .. L /\ L \in 0 .. L
  BY WidthAssumption
<1>1. \A i \in Bit : i \in Q <=> i - 1 \in S
  BY <1>0 DEF Bit
<1>2. 1 \notin Q
  BY <1>0 DEF Bit
<1> HIDE DEF Q
<1>3. Top(S)[0] = 0 /\ Top(Q)[0] = 0 /\ Top(Bit)[0] = 0
  BY TopIs
<1>4. 0 \in P
  <2>1. Top(S)[1] = 2 * Top(S)[1 - 1] + Digit(S, Width - 1 + 1)
    BY <1>0, TopIs
  <2>2. Top(S)[1] = Digit(S, Width)
    <3>1. Width - 1 + 1 = Width /\ 1 - 1 = 0
      BY <1>0
    <3>2. Top(S)[1] = 2 * 0 + Digit(S, Width)
      BY <1>3, <2>1, <3>1
    <3>3. QED
      BY <3>2, DigitIs
  <2>3. QED
    BY <1>0, <1>3, <2>2 DEF Digit
<1>5. ASSUME NEW k \in 1 .. L, k - 1 \in P PROVE k \in P
  <2>1. /\ k \in 1 .. Width /\ k + 1 \in 1 .. Width /\ (k + 1) - 1 = k /\ (k - 1) + 1 = k
        /\ k \in 0 .. L /\ k \in 0 .. Width /\ k - 1 \in 0 .. Width
        /\ Width - k + 1 \in Bit /\ Width - (k + 1) + 1 = (Width - k + 1) - 1
    BY <1>0 DEF Bit
  <2>2. /\ Top(S)[k + 1] = 2 * Top(S)[k] + Digit(S, (Width - k + 1) - 1)
        /\ Top(Q)[k] = 2 * Top(Q)[k - 1] + Digit(Q, Width - k + 1)
        /\ Top(Bit)[k] = 2 * Top(Bit)[k - 1] + Digit(Bit, Width - k + 1)
    <3>1. Top(S)[k + 1] = 2 * Top(S)[(k + 1) - 1] + Digit(S, Width - (k + 1) + 1)
      BY <2>1, TopIs
    <3>2. QED
      BY <2>1, <3>1, TopIs
  <2>3. Digit(S, (Width - k + 1) - 1) = Digit(Q, Width - k + 1) /\ Digit(Bit, Width - k + 1) = 1
    BY <1>1, <2>1 DEF Digit
  <2>4. /\ Top(S)[k] \in Nat /\ Top(Q)[k - 1] \in Nat /\ Top(Bit)[k - 1] \in Nat
        /\ Digit(Q, Width - k + 1) \in Nat
    <3>1. /\ Top(S) \in [0 .. Width -> Nat] /\ Top(Q) \in [0 .. Width -> Nat]
          /\ Top(Bit) \in [0 .. Width -> Nat]
      BY TopIs
    <3>2. Digit(Q, Width - k + 1) \in Nat
      BY DEF Digit
    <3>3. QED
      BY <2>1, <3>1, <3>2
  <2>5. Top(S)[k] = IF Width \in S THEN Top(Bit)[k - 1] + 1 + Top(Q)[k - 1] ELSE Top(Q)[k - 1]
    BY <1>5, <2>1
  <2>6. QED
    BY <2>1, <2>2, <2>3, <2>4, <2>5
<1> HIDE DEF P
<1>6. \A k \in 0 .. L : k \in P
  BY <1>0, <1>4, <1>5, EachAfterTheOneBefore
<1>7. Top(S)[Width] = IF Width \in S THEN Top(Bit)[L] + 1 + Top(Q)[L] ELSE Top(Q)[L]
  BY <1>0, <1>6 DEF P
<1>8. Number(Q) = 2 * Top(Q)[L] /\ Number(Bit) = 2 * Top(Bit)[L] + 1
      /\ Top(Q)[L] \in Nat /\ Top(Bit)[L] \in Nat
  <2>1. Width \in 1 .. Width /\ Width - Width + 1 = 1 /\ Width - 1 = L /\ L \in 0 .. Width /\ 1 \in Bit
    BY <1>0 DEF Bit
  <2>2. /\ Top(Q)[Width] = 2 * Top(Q)[L] + Digit(Q, 1)
        /\ Top(Bit)[Width] = 2 * Top(Bit)[L] + Digit(Bit, 1)
        /\ Top(Q)[L] \in Nat /\ Top(Bit)[L] \in Nat
    BY <2>1, TopIs
  <2>3. Digit(Q, 1) = 0 /\ Digit(Bit, 1) = 1
    BY <1>2, <2>1 DEF Digit
  <2>4. QED
    BY <2>2, <2>3, TopIs
<1>9. Number(Q) \in 0 .. Number(Bit)
  BY NumberIsWord DEF Word
<1>10. 2 * Number(S) = (IF Width \in S THEN Number(Bit) + 1 ELSE 0) + Number(Q)
  <2>1. Number(S) = Top(S)[Width]
    BY TopIs
  <2>2. QED
    BY <1>7, <1>8, <2>1
<1>11. Number(Bit) \in Nat /\ Number(S) \in Nat
  BY TopIs
<1>12. QED
  <2> DEFINE m == Number(Bit) + 1
             r == Number(Q)
  <2>1. m \in Nat /\ m > 0 /\ r \in 0 .. m - 1
    BY <1>9, <1>11
  <2>2. 2 * Number(S) = r \/ 2 * Number(S) = m + r
    BY <1>9, <1>10, <1>11
  <2> HIDE DEF m, r
  <2>3. r % m = r /\ (m + r) % m = r
    BY <2>1
  <2>4. QED
    BY <2>2, <2>3 DEF m, r, Q

Doubling(s) == [k \in 1 .. s |-> [w \in Nat |-> 2 * w % (Number(Bit) + 1)]]

(* Shifting a word to the left moves each of its bits. *)
LEMMA ShiftLeftMoves ==
  ASSUME NEW S \in SUBSET Bit, NEW s \in Nat
  PROVE  ShiftLeft(Number(S), s) = Number({i + s : i \in S} \cap Bit)
<1> DEFINE p == Doubling(s)
           g == Passes(p, Number(S), s)
           M(k) == {i + k : i \in S} \cap Bit
           P == {k \in 0 .. s : g[k] = Number(M(k))}
<1>1. \A k \in 1 .. s, v \in Nat : p[k][v] = 2 * v % (Number(Bit) + 1)
  BY DEF Doubling
<1>2. Number(S) \in Nat /\ Number(Bit) \in Nat
  BY TopIs
<1>3. \A v \in Nat : 2 * v % (Number(Bit) + 1) \in Nat
  <2> DEFINE m == Number(Bit) + 1
  <2>1. m \in Nat /\ m > 0
    BY <1>2
  <2> HIDE DEF m
  <2>2. \A v \in Nat : 2 * v % m \in Nat
    BY <2>1
  <2>3. QED
    BY <2>2 DEF m
<1>4. ShiftLeft(Number(S), s) = Loop(p, Number(S), s)
  BY DEF ShiftLeft, Doubling
<1> HIDE DEF p
<1>5. Keeps(p, Number(S), s, Nat)
  BY <1>1, <1>2, <1>3 DEF Keeps
<1>6. /\ g[0] = Number(S)
      /\ \A k \in 1 .. s : g[k] = p[k][g[k - 1]]
      /\ ShiftLeft(Number(S), s) = g[s]
  BY <1>4, <1>5, PassesAre
<1> HIDE DEF g
<1>7. 0 \in P
  <2>1. \A i \in S : i + 0 = i /\ i \in Bit
    BY WidthAssumption DEF Bit
  <2>2. M(0) = S
    BY <2>1
  <2> HIDE DEF M
  <2>3. g[0] = Number(M(0)) /\ 0 \in 0 .. s
    BY <1>6, <2>2
  <2>4. QED
    BY <2>3
<1>8. ASSUME NEW k \in 1 .. s, k - 1 \in P PROVE k \in P
  <2> DEFINE T == M(k - 1)
  <2>1. k \in 0 .. s /\ T \in SUBSET Bit /\ k - 1 \in Nat
    OBVIOUS
  <2>2. {i + 1 : i \in T} \cap Bit = M(k)
    <3>1. ASSUME NEW i \in {j + 1 : j \in T} \cap Bit PROVE i \in M(k)
      <4>1. PICK j \in S : i = (j + (k - 1)) + 1 /\ i \in Bit
        BY <3>1
      <4>2. i = j + k
        BY <4>1, WidthAssumption DEF Bit
      <4>3. QED
        BY <4>1, <4>2
    <3>2. ASSUME NEW i \in M(k) PROVE i \in {j + 1 : j \in T} \cap Bit
      <4>1. PICK j \in S : i = j + k /\ i \in Bit
        BY <3>2
      <4>2. i = (j + (k - 1)) + 1 /\ j + (k - 1) \in Bit
        BY <4>1, WidthAssumption DEF Bit
      <4>3. QED
        BY <4>1, <4>2
    <3>3. QED
      BY <3>1, <3>2
  <2> HIDE DEF T
  <2>3. 2 * Number(T) % (Number(Bit) + 1) = Number({i + 1 : i \in T} \cap Bit)
    BY <2>1, DoubleMoves
  <2>4. g[k - 1] = Number(T) /\ Number(T) \in Nat
    BY <1>8, TopIs DEF T
  <2>5. g[k] = Number(M(k))
    BY <1>1, <1>6, <2>2, <2>3, <2>4
  <2>6. QED
    BY <2>1, <2>5
<1> HIDE DEF P
<1>9. \A k \in 0 .. s : k \in P
  BY <1>7, <1>8, EachAfterTheOneBefore
<1>10. s \in P
  BY <1>9
<1>11. QED
  BY <1>6, <1>10 DEF P

LEMMA NumberOfJunior ==
  Number({1}) = 1
<1> DEFINE P == {k \in 0 .. Width - 1 : Top({1})[k] = 0}
<1>0. Width \in Nat /\ Width >= 1 /\ Width - 1 \in Nat
  BY WidthAssumption
<1>1. 0 \in P
  BY <1>0, TopIs
<1>2. ASSUME NEW k \in 1 .. Width - 1, k - 1 \in P PROVE k \in P
  <2>1. k \in 1 .. Width /\ Width - k + 1 # 1
    BY <1>0
  <2>2. Digit({1}, Width - k + 1) = 0
    BY <2>1 DEF Digit
  <2>3. QED
    BY <1>2, <2>1, <2>2, TopIs
<1> HIDE DEF P
<1>3. \A k \in 0 .. Width - 1 : k \in P
  BY <1>0, <1>1, <1>2, EachAfterTheOneBefore
<1>4. Top({1})[Width - 1] = 0
  BY <1>0, <1>3 DEF P
<1>5. Top({1})[Width] = 2 * Top({1})[Width - 1] + Digit({1}, Width - Width + 1)
  BY <1>0, TopIs
<1>6. Digit({1}, Width - Width + 1) = 1
  BY <1>0 DEF Digit
<1>7. QED
  BY <1>4, <1>5, <1>6, TopIs

(* LOKI_BIT_CONST makes the word of its one bit, or of none. *)
LEMMA BitConstIs ==
  ASSUME NEW i \in {0} \cup Bit
  PROVE  MakeBitConst(i) = Number({i} \ {0}) /\ {i} \ {0} \in SUBSET Bit
<1>1. CASE i = 0
  <2>1. {i} \ {0} = {}
    BY <1>1
  <2>2. QED
    BY <1>1, <2>1, NumberOfNone DEF MakeBitConst
<1>2. CASE i # 0
  <2>1. i \in Bit /\ i - 1 \in Nat /\ 1 \in Bit /\ i > 0
    BY <1>2, WidthAssumption DEF Bit
  <2>2. ShiftLeft(Number({1}), i - 1) = Number({j + (i - 1) : j \in {1}} \cap Bit)
    <3>1. {1} \in SUBSET Bit
      BY <2>1
    <3>2. QED
      BY <2>1, <3>1, ShiftLeftMoves
  <2>3. {j + (i - 1) : j \in {1}} \cap Bit = {i} /\ {i} \ {0} = {i}
    <3>1. 1 + (i - 1) = i
      BY <2>1 DEF Bit
    <3>2. QED
      BY <1>2, <2>1, <3>1
  <2>4. QED
    BY <2>1, <2>2, <2>3, NumberOfJunior DEF MakeBitConst
<1>3. QED
  BY <1>1, <1>2

(* |, & and ^ are union, intersection and symmetric difference. *)
LEMMA OperatorsAre ==
  ASSUME NEW S \in SUBSET Bit, NEW T \in SUBSET Bit, NEW op \in {"or", "and", "xor"}
  PROVE  /\ BitByBit(Number(S), Number(T))[op] = Number(CombinedFlags(op, S, T))
         /\ CombinedFlags(op, S, T) \in SUBSET Bit
<1>1. BitsOf(Number(S)) = S /\ BitsOf(Number(T)) = T
  BY BitsOfNumber
<1>2. BitByBit(Number(S), Number(T)) =
        [or |-> Number(S \cup T), and |-> Number(S \cap T), xor |-> Number((S \ T) \cup (T \ S))]
  BY <1>1 DEF BitByBit
<1>3. CASE op = "or"
  BY <1>2, <1>3 DEF CombinedFlags
<1>4. CASE op = "and"
  BY <1>2, <1>4 DEF CombinedFlags
<1>5. CASE op = "xor"
  BY <1>2, <1>5 DEF CombinedFlags
<1>6. QED
  BY <1>3, <1>4, <1>5

LEMMA AndIs ==
  ASSUME NEW S \in SUBSET Bit, NEW T \in SUBSET Bit
  PROVE  IsSet(BitByBit(Number(S), Number(T)).and) <=> S \cap T # {}
<1>1. BitByBit(Number(S), Number(T)).and = Number(S \cap T)
  BY BitsOfNumber DEF BitByBit
<1>2. S \cap T \in SUBSET Bit /\ {} \in SUBSET Bit
  OBVIOUS
<1>3. Number(S \cap T) = Number({}) <=> S \cap T = {}
  BY <1>2, NumberInjective
<1>4. QED
  BY <1>1, <1>3, NumberOfNone DEF IsSet

-----------------------------------------------------------------------------
(* Fields *)

\* The word holds just the labels that are meant.
Meant(v) == v.flags \in SUBSET Bit /\ v.word = Number(v.flags)

ReturnValue == [type : Kind, word : Word, flags : SUBSET Bit]

Return == [chain : Chain, value : ReturnValue, checked : BOOLEAN, copied : BOOLEAN]

FieldInv ==
  /\ word \in [Field -> Word]
  /\ flags \in [Field -> SUBSET Bit]
  /\ \A f \in Field : word[f] = Number(flags[f])

ReturnInv ==
  /\ returned \in [Slot -> Return \cup {NoReturn}]
  /\ \A r \in There : Meant(returned[r].value)

LEMMA ValueFields ==
  ASSUME NEW type, NEW w, NEW s
  PROVE  Value(type, w, s).type = type /\ Value(type, w, s).word = w /\ Value(type, w, s).flags = s
  BY DEF Value

LEMMA ValueMeant ==
  ASSUME NEW type, NEW w, NEW S \in SUBSET Bit, w = Number(S)
  PROVE  Meant(Value(type, w, S))
  BY ValueFields DEF Meant

(* Whatever is of a kind, and not a condition, is as it is meant to be. *)
LEMMA OperandsMeant ==
  ASSUME FieldInv, NEW x \in Fields \cup Constants
  PROVE  Meant(x) /\ x.word \in Word /\ x \notin Conditions /\ x.type \in Kind
<1>1. ASSUME NEW f \in Field, x = FieldValue(f)
      PROVE  Meant(x) /\ x.type \in Kind
  BY <1>1, ValueFields DEF FieldInv, FieldValue, Meant, Kind
<1>2. ASSUME NEW k \in Kind, NEW i \in {0} \cup Bit, x = Value(k, MakeBitConst(i), {i} \ {0})
      PROVE  Meant(x) /\ x.type \in Kind
  <2> DEFINE S == {i} \ {0}
  <2>1. MakeBitConst(i) = Number(S) /\ S \in SUBSET Bit
    BY BitConstIs
  <2> HIDE DEF S
  <2>2. Meant(Value(k, MakeBitConst(i), S))
    BY <2>1, ValueMeant
  <2>3. x.type = k
    BY <1>2, ValueFields
  <2>4. QED
    BY <1>2, <2>2, <2>3 DEF S
<1>3. ASSUME NEW k \in Kind, NEW i \in Bit,
             x = Value(k, ConstOperators(MakeBitConst(1), MakeBitConst(i)).or, {1, i})
      PROVE  Meant(x) /\ x.type \in Kind
  <2>1. /\ MakeBitConst(1) = Number({1} \ {0}) /\ {1} \ {0} \in SUBSET Bit
        /\ MakeBitConst(i) = Number({i} \ {0}) /\ {i} \ {0} \in SUBSET Bit
    <3>1. 1 \in {0} \cup Bit /\ i \in {0} \cup Bit
      BY WidthAssumption DEF Bit
    <3>2. QED
      BY <3>1, BitConstIs
  <2>2. {1} \ {0} = {1} /\ {i} \ {0} = {i}
    BY DEF Bit
  <2>3. BitsOf(MakeBitConst(1)) = {1} /\ BitsOf(MakeBitConst(i)) = {i}
    BY <2>1, <2>2, BitsOfNumber
  <2>4. ConstOperators(MakeBitConst(1), MakeBitConst(i)).or = Number({1} \cup {i})
    BY <2>3 DEF ConstOperators, BitByBit
  <2>5. {1, i} = {1} \cup {i} /\ {1, i} \in SUBSET Bit
    BY <2>1, <2>2
  <2> DEFINE S == {1, i}
             w == ConstOperators(MakeBitConst(1), MakeBitConst(i)).or
  <2>6. w = Number(S) /\ S \in SUBSET Bit
    BY <2>4, <2>5
  <2>7. x = Value(k, w, S)
    BY <1>3
  <2> HIDE DEF S, w
  <2>8. Meant(Value(k, w, S)) /\ Value(k, w, S).type = k
    BY <2>6, ValueMeant, ValueFields
  <2>9. QED
    BY <2>7, <2>8
<1>4. Meant(x) /\ x.type \in Kind
  <2>1. CASE x \in Fields
    <3>1. PICK f \in Field : x = FieldValue(f)
      BY <2>1 DEF Fields
    <3>2. QED
      BY <1>1, <3>1
  <2> DEFINE A == {Value(k, MakeBitConst(i), {i} \ {0}) : k \in Kind, i \in {0} \cup Bit}
             B == {Value(k, ConstOperators(MakeBitConst(1), MakeBitConst(i)).or, {1, i}) : k \in Kind, i \in Bit}
  <2>2. CASE x \in A
    <3>1. PICK k \in Kind, i \in {0} \cup Bit : x = Value(k, MakeBitConst(i), {i} \ {0})
      BY <2>2
    <3>2. QED
      BY <1>2, <3>1
  <2>3. CASE x \in B
    <3>1. PICK k \in Kind, i \in Bit :
            x = Value(k, ConstOperators(MakeBitConst(1), MakeBitConst(i)).or, {1, i})
      BY <2>3
    <3>2. QED
      BY <1>3, <3>1
  <2>4. Constants = A \cup B
    BY DEF Constants
  <2> HIDE DEF A, B
  <2>5. QED
    BY <2>1, <2>2, <2>3, <2>4
<1>5. x \notin Conditions
  BY <1>4, ValueFields, KindAssumption DEF Conditions, Kind
<1>6. QED
  BY <1>4, <1>5, NumberIsWord DEF Meant

(* What a condition may be combined with does not compile. *)
LEMMA CombinedMeant ==
  ASSUME FieldInv, NEW f \in Field, NEW x \in Operands, NEW y \in Operands,
         NEW op \in {"or", "and", "xor"},
         y.type = KindOf[f],
         x \in Conditions => ~BoolForbids(op)
  PROVE  Meant(Combine(op, x, y)) /\ Combine(op, x, y).type = KindOf[f]
<1>1. x \in Fields \cup Constants
  BY DEF Operands, BoolForbids
<1>2. y \in Fields \cup Constants
  BY ValueFields, KindAssumption DEF Operands, Conditions
<1>3. Meant(x) /\ Meant(y)
  BY <1>1, <1>2, OperandsMeant
<1>4. /\ BitByBit(x.word, y.word)[op] = Number(CombinedFlags(op, x.flags, y.flags))
      /\ CombinedFlags(op, x.flags, y.flags) \in SUBSET Bit
  BY <1>3, OperatorsAre DEF Meant
<1>5. Combine(op, x, y) =
        Value(y.type, BitByBit(x.word, y.word)[op], CombinedFlags(op, x.flags, y.flags))
  BY DEF Combine, ConstOperators, FieldOperators
<1>6. QED
  BY <1>4, <1>5, ValueFields DEF Meant

(* A field is set to what is meant, and means it. *)
LEMMA SetFieldKeeps ==
  ASSUME FieldInv, NEW f \in Field, NEW v, Meant(v), SetField(f, v)
  PROVE  FieldInv'
<1>1. /\ v.word \in Word /\ v.flags \in SUBSET Bit /\ v.word = Number(v.flags)
  BY NumberIsWord DEF Meant
<1>2. word' = [word EXCEPT ![f] = v.word] /\ flags' = [flags EXCEPT ![f] = v.flags]
  BY DEF SetField
<1>3. QED
  BY <1>1, <1>2 DEF FieldInv

LEMMA AssignKeeps ==
  ASSUME FieldInv, NEW f \in Field, Assign(f)
  PROVE  FieldInv'
<1>1. ASSUME NEW x \in Operands, SetField(f, x) PROVE FieldInv'
  <2>1. x \in Fields \cup Constants
    BY <1>1, ValueFields, KindAssumption DEF Operands, Conditions, SetField
  <2>2. QED
    BY <1>1, <2>1, OperandsMeant, SetFieldKeeps
<1>2. ASSUME NEW x \in Operands, NEW y \in Operands, NEW op \in {"or", "and", "xor"},
             y.type = KindOf[f], x \in Conditions => ~BoolForbids(op),
             SetField(f, Combine(op, x, y))
      PROVE  FieldInv'
  BY <1>2, CombinedMeant, SetFieldKeeps
<1>3. QED
  BY <1>1, <1>2 DEF Assign

LEMMA CompoundAssignsKeep ==
  ASSUME FieldInv, NEW f \in Field, CompoundAssigns(f)
  PROVE  FieldInv'
<1>1. PICK x \in Operands, op \in {"or", "and", "xor"} :
        /\ x.type = KindOf[f]
        /\ SetField(f, Value(KindOf[f], CompoundAssign(word[f], x.word)[op].field,
                             CombinedFlags(op, flags[f], x.flags)))
  BY DEF CompoundAssigns, FieldForbids
<1>2. x \in Fields \cup Constants
  BY <1>1, ValueFields, KindAssumption DEF Operands, Conditions
<1>3. Meant(x)
  BY <1>2, OperandsMeant
<1>4. CompoundAssign(word[f], x.word)[op].field = BitByBit(word[f], x.word)[op]
  BY DEF CompoundAssign, FieldOperators
<1>5. /\ BitByBit(word[f], x.word)[op] = Number(CombinedFlags(op, flags[f], x.flags))
      /\ CombinedFlags(op, flags[f], x.flags) \in SUBSET Bit
  BY <1>3, OperatorsAre DEF Meant, FieldInv
<1>6. QED
  BY <1>1, <1>4, <1>5, ValueFields, SetFieldKeeps DEF Meant

LEMMA ComplementsKeep ==
  ASSUME FieldInv, NEW f \in Field, Complements(f)
  PROVE  FieldInv'
<1>1. flags[f] \in SUBSET Bit /\ word[f] = Number(flags[f])
  BY DEF FieldInv
<1> DEFINE C == Bit \ flags[f]
<1>2. Complement(word[f]) = Number(C) /\ C \in SUBSET Bit
  BY <1>1, ComplementIs
<1>3. SetField(f, Value(KindOf[f], Complement(word[f]), C))
  BY DEF Complements
<1> HIDE DEF C
<1>4. Meant(Value(KindOf[f], Complement(word[f]), C))
  BY <1>2, ValueMeant
<1>5. QED
  BY <1>3, <1>4, SetFieldKeeps

LEMMA ShiftsKeep ==
  ASSUME FieldInv, NEW f \in Field, Shifts(f)
  PROVE  FieldInv'
<1>1. flags[f] \in SUBSET Bit /\ word[f] = Number(flags[f])
  BY DEF FieldInv
<1>2. PICK s \in 0 .. Width - 1 :
        \/ SetField(f, Value(KindOf[f], ShiftAssign(word[f], s).left.field, {i + s : i \in flags[f]} \cap Bit))
        \/ SetField(f, Value(KindOf[f], ShiftAssign(word[f], s).right.field, {i - s : i \in flags[f]} \cap Bit))
  BY DEF Shifts
<1>3. /\ ShiftAssign(word[f], s).left.field = ShiftLeft(word[f], s)
      /\ ShiftAssign(word[f], s).right.field = ShiftRight(word[f], s)
  BY DEF ShiftAssign, FieldShift, ConstShift
<1>4. s \in Nat /\ s \in 0 .. Width
  BY WidthAssumption
<1> DEFINE L == {i + s : i \in flags[f]} \cap Bit
           R == {i - s : i \in flags[f]} \cap Bit
<1>5. ShiftLeft(word[f], s) = Number(L) /\ L \in SUBSET Bit
  BY <1>1, <1>4, ShiftLeftMoves
<1>6. ShiftRight(word[f], s) = Number(R) /\ R \in SUBSET Bit
  BY <1>1, <1>4, ShiftRightMoves
<1>7. \/ SetField(f, Value(KindOf[f], Number(L), L))
      \/ SetField(f, Value(KindOf[f], Number(R), R))
  BY <1>2, <1>3, <1>5, <1>6
<1> HIDE DEF L, R
<1>8. Meant(Value(KindOf[f], Number(L), L)) /\ Meant(Value(KindOf[f], Number(R), R))
  BY <1>5, <1>6, ValueFields DEF Meant
<1>9. QED
  BY <1>7, <1>8, SetFieldKeeps

-----------------------------------------------------------------------------
(* The theorem on fields *)

LEMMA ReturnIsThere ==
  ASSUME NEW x \in Return
  PROVE  x # NoReturn
  BY DEF Return, NoReturn

CheckedInv == FieldInv /\ ReturnInv

LEMMA ReturnsKeeps ==
  ASSUME CheckedInv, NEW r \in Slot, NEW h \in Chain, NEW f \in Field, Returns(r, h, f)
  PROVE  CheckedInv'
<1> DEFINE x == [chain |-> h, value |-> FieldValue(f), checked |-> FALSE, copied |-> FALSE]
<1>1. returned' = [returned EXCEPT ![r] = x] /\ UNCHANGED <<word, flags>>
  BY DEF Returns
<1>2. FieldValue(f) \in ReturnValue /\ Meant(FieldValue(f))
  BY DEF CheckedInv, FieldInv, FieldValue, Value, ReturnValue, Meant, Kind
<1>3. x \in Return /\ Meant(x.value)
  BY <1>2 DEF Return
<1> HIDE DEF x
<1>4. FieldInv'
  BY <1>1 DEF CheckedInv, FieldInv
<1>5. QED
  BY <1>1, <1>3, <1>4 DEF CheckedInv, ReturnInv, There

LEMMA HandOnKeeps ==
  ASSUME CheckedInv, NEW r \in Slot, NEW that \in Slot, HandOn(r, that)
  PROVE  CheckedInv'
<1> DEFINE x == [returned[that] EXCEPT !.checked = FALSE, !.copied = FALSE]
           y == [returned[that] EXCEPT !.checked = TRUE, !.copied = TRUE]
<1>1. that \in There /\ r \notin There /\ r # that /\ UNCHANGED <<word, flags>>
  BY DEF HandOn
<1>2. returned[that] \in Return /\ Meant(returned[that].value)
  BY <1>1 DEF CheckedInv, ReturnInv, There
<1>3. returned' = [returned EXCEPT ![r] = x, ![that].checked = TRUE, ![that].copied = TRUE]
  BY DEF HandOn
<1>4. \A s \in Slot : returned'[s] = IF s = r THEN x ELSE IF s = that THEN y ELSE returned[s]
  BY <1>1, <1>2, <1>3 DEF CheckedInv, ReturnInv, Return
<1>5. x \in Return /\ Meant(x.value) /\ y \in Return /\ Meant(y.value)
  BY <1>2 DEF Return, Meant
<1>6. returned' = [s \in Slot |-> returned'[s]]
  BY <1>3 DEF CheckedInv, ReturnInv
<1> HIDE DEF x, y
<1>7. FieldInv'
  BY <1>1 DEF CheckedInv, FieldInv
<1>8. \A s \in Slot : returned'[s] \in Return \cup {NoReturn}
  BY <1>4, <1>5 DEF CheckedInv, ReturnInv
<1>9. returned' \in [Slot -> Return \cup {NoReturn}]
  BY <1>6, <1>8
<1>10. \A s \in There' : Meant(returned'[s].value)
  BY <1>4, <1>5 DEF CheckedInv, ReturnInv, There, Meant
<1>11. QED
  BY <1>7, <1>9, <1>10 DEF CheckedInv, ReturnInv, Meant

LEMMA LookKeeps ==
  ASSUME CheckedInv, NEW r \in Slot, NEW f \in Field, Look(r, f)
  PROVE  CheckedInv'
<1> DEFINE x == [returned[r] EXCEPT !.checked = TRUE]
<1>1. r \in There /\ SetField(f, returned[r].value) /\ returned' = [returned EXCEPT ![r].checked = TRUE]
  BY DEF Look
<1>2. returned[r] \in Return /\ Meant(returned[r].value)
  BY <1>1 DEF CheckedInv, ReturnInv, There
<1>3. FieldInv'
  BY <1>1, <1>2, SetFieldKeeps DEF CheckedInv
<1>4. returned' = [returned EXCEPT ![r] = x]
  BY <1>1
<1>5. x \in Return /\ Meant(x.value)
  BY <1>2 DEF Return, Meant
<1> HIDE DEF x
<1>6. QED
  BY <1>3, <1>4, <1>5 DEF CheckedInv, ReturnInv, There, Meant

LEMMA DestroyKeeps ==
  ASSUME CheckedInv, NEW r \in Slot, Destroy(r)
  PROVE  CheckedInv'
<1>1. returned' = [returned EXCEPT ![r] = NoReturn] /\ UNCHANGED <<word, flags>>
  BY DEF Destroy
<1>2. FieldInv'
  BY <1>1 DEF CheckedInv, FieldInv
<1>3. QED
  BY <1>1, <1>2 DEF CheckedInv, ReturnInv, There, Meant

LEMMA CheckedInvInit ==
  CheckedInit => CheckedInv
<1>1. CheckedInit => FieldInv
  <2>1. {} \in SUBSET Bit /\ 0 \in Word
    BY TopIs DEF Word
  <2>2. QED
    BY <2>1, NumberOfNone DEF CheckedInit, FieldInv
<1>2. CheckedInit => ReturnInv
  BY DEF CheckedInit, ReturnInv, There
<1>3. QED
  BY <1>1, <1>2 DEF CheckedInv

LEMMA CheckedInvStep ==
  CheckedInv /\ [CheckedNext]_checkedVars => CheckedInv'
<1> SUFFICES ASSUME CheckedInv, [CheckedNext]_checkedVars PROVE CheckedInv'
  OBVIOUS
<1>1. ASSUME NEW f \in Field, Assign(f) \/ CompoundAssigns(f) \/ Complements(f) \/ Shifts(f)
      PROVE  CheckedInv'
  <2>1. FieldInv'
    BY <1>1, AssignKeeps, CompoundAssignsKeep, ComplementsKeep, ShiftsKeep DEF CheckedInv
  <2>2. returned' = returned
    BY <1>1 DEF Assign, CompoundAssigns, Complements, Shifts
  <2>3. QED
    BY <2>1, <2>2 DEF CheckedInv, ReturnInv, There, Meant
<1>2. CASE UNCHANGED checkedVars
  BY <1>2 DEF checkedVars, CheckedInv, FieldInv, ReturnInv, There, Meant
<1>3. QED
  BY <1>1, <1>2, ReturnsKeeps, HandOnKeeps, LookKeeps, DestroyKeeps DEF CheckedNext

LEMMA CompareIs ==
  ASSUME NEW x \in Nat, NEW y \in Nat
  PROVE  LET answer == FieldCompare(x, y) IN
         /\ answer.eq <=> x = y
         /\ answer.ne = ~answer.eq
         /\ answer.le <=> x <= y
         /\ answer.gt <=> x > y
         /\ answer.lt = ~answer.ge
<1>1. /\ FieldCompare(x, y).eq = (x = y)
      /\ FieldCompare(x, y).ne = (x # y)
      /\ FieldCompare(x, y).le = (x <= y)
      /\ FieldCompare(x, y).gt = (x > y)
      /\ FieldCompare(x, y).lt = (x < y)
      /\ FieldCompare(x, y).ge = (x >= y)
  BY DEF FieldCompare, ConstCompare
<1>2. (x # y) = ~(x = y)
  OBVIOUS
<1>3. (x < y) = ~(x >= y)
  OBVIOUS
<1>4. QED
  BY <1>1, <1>2, <1>3

(* Every word compares as its set does. *)
LEMMA FieldsAreSetsHold ==
  CheckedInv => FieldsAreSets
<1> SUFFICES ASSUME CheckedInv PROVE FieldsAreSets
  OBVIOUS
<1>1. word \in [Field -> Word] /\ \A f \in Field : word[f] = Number(flags[f])
  BY DEF CheckedInv, FieldInv
<1>2. \A r \in There : returned[r].value.word = Number(returned[r].value.flags)
  BY DEF CheckedInv, ReturnInv, Meant
<1>3. ASSUME NEW f \in Field, NEW x \in Fields \cup Constants, x.type = KindOf[f]
      PROVE  LET answer == FieldCompare(word[f], x.word) IN
             /\ IsSet(FieldOperators(word[f], x.word).and) <=> flags[f] \cap x.flags # {}
             /\ answer.eq <=> flags[f] = x.flags
             /\ answer.ne = ~answer.eq
             /\ flags[f] \subseteq x.flags => answer.le /\ ~answer.gt
             /\ answer.lt = ~answer.ge
  <2> DEFINE answer == FieldCompare(word[f], x.word)
             S == flags[f]
             T == x.flags
  <2>1. x.word = Number(T) /\ T \in SUBSET Bit
    BY <1>3, OperandsMeant DEF CheckedInv, Meant
  <2>2. word[f] = Number(S) /\ S \in SUBSET Bit
    BY DEF CheckedInv, FieldInv
  <2>3. IsSet(FieldOperators(word[f], x.word).and) <=> S \cap T # {}
    BY <2>1, <2>2, AndIs DEF FieldOperators
  <2>4. word[f] = x.word <=> S = T
    BY <2>1, <2>2, NumberInjective
  <2>5. S \subseteq T => word[f] <= x.word
    BY <2>1, <2>2, NumberMonotone
  <2>6. word[f] \in Nat /\ x.word \in Nat
    BY <2>1, <2>2, TopIs
  <2> HIDE DEF S, T
  <2>7. /\ answer.eq <=> word[f] = x.word
        /\ answer.ne = ~answer.eq
        /\ answer.le <=> word[f] <= x.word
        /\ answer.gt <=> word[f] > x.word
        /\ answer.lt = ~answer.ge
    BY <2>6, CompareIs
  <2>8. QED
    BY <2>3, <2>4, <2>5, <2>6, <2>7 DEF S, T
<1>4. QED
  BY <1>1, <1>2, <1>3 DEF FieldsAreSets

(* However a program combines, shifts, hands on and looks at them, its      *)
(* fields and what functions return of them are the sets of labels that are *)
(* meant, for words of any width (SafeBits.h, CheckReturn.h).               *)
THEOREM FieldsAreSetsAlways ==
  CheckedSpec => []FieldsAreSets
<1>1. CheckedSpec => []CheckedInv
  BY CheckedInvInit, CheckedInvStep, PTL DEF CheckedSpec
<1>2. QED
  BY <1>1, FieldsAreSetsHold, PTL

-----------------------------------------------------------------------------
(* CheckReturn's duty *)

Fate == {"unused", "unseen", "seen", "complained"}

\* A chain is in use once there is an object of it; an object was looked at
\* when it was copied, so that the unchecked ones of a chain that was not
\* forked are one, the last; and nobody knows of an unseen value but by it.
DutyInv ==
  /\ returned \in [Slot -> Return \cup {NoReturn}]
  /\ fate \in [Chain -> Fate]
  /\ \A r \in There : fate[returned[r].chain] # "unused"
  /\ \A r \in There : returned[r].copied => returned[r].checked
  /\ \A h \in Chain : fate[h] = "unseen" => \E r \in There : returned[r].chain = h /\ ~returned[r].checked
  /\ \A r, t \in There :
       returned[r].chain = returned[t].chain /\ returned[r].chain \notin forked
       /\ ~returned[r].copied /\ ~returned[t].copied => r = t

LEMMA DutyHandedOn ==
  ASSUME DutyInv, NEW r \in Slot, NEW that \in Slot, HandOn(r, that)
  PROVE  DutyInv'
<1> DEFINE x == [returned[that] EXCEPT !.checked = FALSE, !.copied = FALSE]
           y == [returned[that] EXCEPT !.checked = TRUE, !.copied = TRUE]
           h == returned[that].chain
<1>1. that \in There /\ r \notin There /\ r # that /\ fate' = fate
  BY DEF HandOn
<1>2. returned[that] \in Return
  BY <1>1 DEF DutyInv, There
<1>3. returned' = [returned EXCEPT ![r] = x, ![that].checked = TRUE, ![that].copied = TRUE]
  BY DEF HandOn
<1>4. \A s \in Slot : returned'[s] = IF s = r THEN x ELSE IF s = that THEN y ELSE returned[s]
  BY <1>1, <1>2, <1>3 DEF DutyInv, Return
<1>5. /\ x \in Return /\ x.chain = h /\ ~x.checked /\ ~x.copied
      /\ y \in Return /\ y.chain = h /\ y.checked /\ y.copied
  BY <1>2 DEF Return
<1>6. returned' = [s \in Slot |-> returned'[s]]
  BY <1>3 DEF DutyInv
<1>7. forked' = IF returned[that].copied THEN forked \cup {h} ELSE forked
  BY DEF HandOn
<1> HIDE DEF x, y
<1>8. x # NoReturn /\ y # NoReturn
  BY <1>5, ReturnIsThere
<1>9. There' = There \cup {r}
  BY <1>1, <1>4, <1>8 DEF There
<1>10. returned' \in [Slot -> Return \cup {NoReturn}]
  <2>1. \A s \in Slot : returned'[s] \in Return \cup {NoReturn}
    BY <1>4, <1>5 DEF DutyInv
  <2>2. QED
    BY <1>6, <2>1
<1>11. \A s \in There : s \in Slot
  BY DEF There
<1>12. \A s \in There' : fate'[returned'[s].chain] # "unused"
  BY <1>1, <1>4, <1>5, <1>9, <1>11 DEF DutyInv
<1>13. \A s \in There' : returned'[s].copied => returned'[s].checked
  BY <1>1, <1>4, <1>5, <1>9, <1>11 DEF DutyInv
<1>14. ASSUME NEW k \in Chain, fate'[k] = "unseen"
       PROVE  \E s \in There' : returned'[s].chain = k /\ ~returned'[s].checked
  <2>1. PICK s \in There : returned[s].chain = k /\ ~returned[s].checked
    BY <1>1, <1>14 DEF DutyInv
  <2>2. CASE s = that
    BY <1>4, <1>5, <1>9, <2>1, <2>2
  <2>3. CASE s # that
    BY <1>1, <1>4, <1>9, <1>11, <2>1, <2>3
  <2>4. QED
    BY <2>2, <2>3
<1>15. ASSUME NEW s \in There', NEW t \in There',
              returned'[s].chain = returned'[t].chain, returned'[s].chain \notin forked',
              ~returned'[s].copied, ~returned'[t].copied
       PROVE  s = t
  <2>1. s # that /\ t # that
    BY <1>1, <1>4, <1>5, <1>15
  <2>2. (s = r \/ s \in There) /\ (t = r \/ t \in There)
    BY <1>9
  <2>3. ASSUME NEW p \in There, p # that, returned[p].chain = h, ~returned[p].copied, h \notin forked'
        PROVE  FALSE
    BY <1>1, <1>7, <2>3 DEF DutyInv
  <2>4. \A p \in There : p # that => returned'[p] = returned[p]
    BY <1>1, <1>4, <1>11
  <2>5. returned'[r].chain = h
    BY <1>4, <1>5
  <2>6. CASE s = r
    BY <1>15, <2>1, <2>2, <2>3, <2>4, <2>5, <2>6
  <2>7. CASE t = r
    BY <1>15, <2>1, <2>2, <2>3, <2>4, <2>5, <2>7
  <2>8. CASE s \in There /\ t \in There
    <3>1. returned[s].chain \notin forked
      BY <1>7, <1>15, <2>1, <2>4, <2>8
    <3>2. QED
      BY <1>15, <2>1, <2>4, <2>8, <3>1 DEF DutyInv
  <2>9. QED
    BY <2>2, <2>6, <2>7, <2>8
<1>16. QED
  BY <1>1, <1>10, <1>12, <1>13, <1>14, <1>15 DEF DutyInv

LEMMA DutyTaken ==
  ASSUME DutyInv, NEW r \in Slot, NEW h \in Chain, NEW f \in Field, Returns(r, h, f),
         FieldValue(f) \in ReturnValue
  PROVE  DutyInv'
<1> DEFINE x == [chain |-> h, value |-> FieldValue(f), checked |-> FALSE, copied |-> FALSE]
<1>1. returned' = [returned EXCEPT ![r] = x] /\ r \notin There /\ fate[h] = "unused"
      /\ fate' = [fate EXCEPT ![h] = "unseen"] /\ forked' = forked
  BY DEF Returns
<1>2. x \in Return /\ x.chain = h /\ ~x.checked /\ ~x.copied
  BY DEF Return
<1> HIDE DEF x
<1>3. returned' \in [Slot -> Return \cup {NoReturn}] /\ fate' \in [Chain -> Fate]
  BY <1>1, <1>2 DEF DutyInv, Fate
<1>4. There' = There \cup {r} /\ \A s \in There : s \in Slot /\ s # r /\ returned'[s] = returned[s]
  BY <1>1, <1>2, ReturnIsThere DEF There, DutyInv
<1>5. returned'[r] = x
  BY <1>1 DEF DutyInv
<1>6. \A s \in There : returned[s].chain # h /\ returned[s].chain \in Chain
  BY <1>1 DEF DutyInv, There, Return
<1>7. \A s \in There' : fate'[returned'[s].chain] # "unused"
  BY <1>1, <1>2, <1>4, <1>5, <1>6 DEF DutyInv
<1>8. \A s \in There' : returned'[s].copied => returned'[s].checked
  BY <1>2, <1>4, <1>5 DEF DutyInv
<1>9. \A k \in Chain : fate'[k] = "unseen" =>
        \E s \in There' : returned'[s].chain = k /\ ~returned'[s].checked
  BY <1>1, <1>2, <1>4, <1>5 DEF DutyInv
<1>10. \A s, t \in There' :
         returned'[s].chain = returned'[t].chain /\ returned'[s].chain \notin forked'
         /\ ~returned'[s].copied /\ ~returned'[t].copied => s = t
  BY <1>1, <1>2, <1>4, <1>5, <1>6 DEF DutyInv
<1>11. QED
  BY <1>3, <1>7, <1>8, <1>9, <1>10 DEF DutyInv

LEMMA DutyDone ==
  ASSUME DutyInv, NEW r \in Slot, NEW f \in Field, Look(r, f)
  PROVE  DutyInv'
<1> DEFINE x == [returned[r] EXCEPT !.checked = TRUE]
           h == returned[r].chain
<1>1. r \in There /\ returned' = [returned EXCEPT ![r].checked = TRUE] /\ forked' = forked
      /\ fate' = [fate EXCEPT ![h] = "seen"]
  BY DEF Look
<1>2. returned[r] \in Return /\ h \in Chain
  BY <1>1 DEF DutyInv, There, Return
<1>3. returned' = [returned EXCEPT ![r] = x]
  BY <1>1
<1>4. x \in Return /\ x.checked /\ x.chain = h /\ x.copied = returned[r].copied
  BY <1>2 DEF Return
<1> HIDE DEF x
<1>13. r \in There /\ r \in Slot
  BY <1>1 DEF There
<1>14. fate' = [fate EXCEPT ![h] = "seen"]
  BY <1>1
<1> HIDE DEF h
<1>5. returned' \in [Slot -> Return \cup {NoReturn}] /\ fate' \in [Chain -> Fate]
  <2>1. returned' \in [Slot -> Return \cup {NoReturn}]
    BY <1>3, <1>4, <1>13 DEF DutyInv
  <2>2. fate' \in [Chain -> Fate]
    BY <1>2, <1>14 DEF DutyInv, Fate
  <2>3. QED
    BY <2>1, <2>2
<1>6. There' = There /\ returned'[r] = x
      /\ \A s \in There : s \in Slot /\ (s # r => returned'[s] = returned[s])
  <2>1. x # NoReturn
    BY <1>4, ReturnIsThere
  <2>2. returned'[r] = x /\ \A s \in Slot : s # r => returned'[s] = returned[s]
    BY <1>3, <1>13 DEF DutyInv
  <2>3. QED
    BY <1>13, <2>1, <2>2 DEF There
<1>7. \A s \in There : returned'[s].chain = returned[s].chain /\ returned'[s].copied = returned[s].copied
                       /\ (returned[s].checked => returned'[s].checked)
                       /\ (s # r => returned'[s].checked = returned[s].checked)
  BY <1>4, <1>6 DEF h
<1>8. \A s \in There' : fate'[returned'[s].chain] # "unused"
  BY <1>1, <1>2, <1>6, <1>7 DEF DutyInv, Fate
<1>9. \A s \in There' : returned'[s].copied => returned'[s].checked
  BY <1>6, <1>7 DEF DutyInv
<1>10. \A k \in Chain : fate'[k] = "unseen" =>
        \E s \in There' : returned'[s].chain = k /\ ~returned'[s].checked
  <2>1. ASSUME NEW k \in Chain, fate'[k] = "unseen"
        PROVE  \E s \in There' : returned'[s].chain = k /\ ~returned'[s].checked
    <3>1. k # h /\ fate[k] = "unseen"
      BY <1>1, <1>2, <2>1 DEF DutyInv
    <3>2. PICK s \in There : returned[s].chain = k /\ ~returned[s].checked
      BY <3>1 DEF DutyInv
    <3>3. QED
      BY <1>6, <1>7, <3>1, <3>2 DEF h
  <2>2. QED
    BY <2>1
<1>11. \A s, t \in There' :
         returned'[s].chain = returned'[t].chain /\ returned'[s].chain \notin forked'
         /\ ~returned'[s].copied /\ ~returned'[t].copied => s = t
  BY <1>1, <1>6, <1>7 DEF DutyInv
<1>12. QED
  BY <1>5, <1>8, <1>9, <1>10, <1>11 DEF DutyInv

LEMMA DutyEnds ==
  ASSUME DutyInv, NEW r \in Slot, Destroy(r)
  PROVE  DutyInv'
<1> DEFINE h == returned[r].chain
<1>1. r \in There /\ returned' = [returned EXCEPT ![r] = NoReturn] /\ forked' = forked
      /\ fate' = IF returned[r].checked THEN fate ELSE [fate EXCEPT ![h] = "complained"]
  BY DEF Destroy
<1>2. returned[r] \in Return /\ h \in Chain
  BY <1>1 DEF DutyInv, There, Return
<1>3. returned' \in [Slot -> Return \cup {NoReturn}] /\ fate' \in [Chain -> Fate]
  BY <1>1 DEF DutyInv, Fate
<1>4. \A s \in There' : s \in There /\ s # r /\ returned'[s] = returned[s]
  BY <1>1 DEF There, DutyInv
<1>5. \A s \in There : s # r => s \in There' /\ returned'[s] = returned[s]
  BY <1>1 DEF There, DutyInv
<1>6. \A s \in There' : fate'[returned'[s].chain] # "unused"
  BY <1>1, <1>2, <1>4 DEF DutyInv, Fate
<1>7. \A s \in There' : returned'[s].copied => returned'[s].checked
  BY <1>4 DEF DutyInv
<1>8. ASSUME NEW k \in Chain, fate'[k] = "unseen"
      PROVE  \E s \in There' : returned'[s].chain = k /\ ~returned'[s].checked
  <2>1. fate[k] = "unseen" /\ (k = h => returned[r].checked)
    BY <1>1, <1>2, <1>8 DEF DutyInv
  <2>2. PICK s \in There : returned[s].chain = k /\ ~returned[s].checked
    BY <2>1 DEF DutyInv
  <2>3. QED
    BY <1>5, <2>1, <2>2
<1>9. \A s, t \in There' :
         returned'[s].chain = returned'[t].chain /\ returned'[s].chain \notin forked'
         /\ ~returned'[s].copied /\ ~returned'[t].copied => s = t
  BY <1>1, <1>4 DEF DutyInv
<1>10. QED
  BY <1>3, <1>6, <1>7, <1>8, <1>9 DEF DutyInv

LEMMA DutyInvStep ==
  CheckedInv /\ DutyInv /\ [CheckedNext]_checkedVars => DutyInv'
<1> SUFFICES ASSUME CheckedInv, DutyInv, [CheckedNext]_checkedVars PROVE DutyInv'
  OBVIOUS
<1>1. ASSUME NEW f \in Field, Assign(f) \/ CompoundAssigns(f) \/ Complements(f) \/ Shifts(f)
      PROVE  UNCHANGED <<returned, fate, forked>>
  BY <1>1 DEF Assign, CompoundAssigns, Complements, Shifts
<1>2. ASSUME UNCHANGED <<returned, fate, forked>> PROVE DutyInv'
  BY <1>2 DEF DutyInv, There
<1>3. \A f \in Field : FieldValue(f) \in ReturnValue
  BY DEF CheckedInv, FieldInv, FieldValue, Value, ReturnValue, Kind
<1>4. CASE UNCHANGED checkedVars
  BY <1>2, <1>4 DEF checkedVars
<1>5. QED
  BY <1>1, <1>2, <1>3, <1>4, DutyTaken, DutyHandedOn, DutyDone, DutyEnds DEF CheckedNext

LEMMA DutyInvInit ==
  CheckedInit => DutyInv
  BY DEF CheckedInit, DutyInv, There, Fate

LEMMA AtMostOne ==
  ASSUME NEW S, \A x, y \in S : x = y
  PROVE  Cardinality(S) <= 1
<1>1. CASE S = {}
  BY <1>1, FS_EmptySet
<1>2. CASE S # {}
  <2>1. PICK x \in S : S = {x}
    BY <1>2
  <2>2. Cardinality({x}) = 1
    BY FS_Singleton
  <2>3. QED
    BY <2>1, <2>2
<1>3. QED
  BY <1>1, <1>2

LEMMA DutyIsCarried ==
  DutyInv => OneCarriesTheDuty
<1> SUFFICES ASSUME DutyInv, NEW h \in Chain
             PROVE  /\ fate[h] = "unseen" => Unchecked(h) # {}
                    /\ h \notin forked => Cardinality(Unchecked(h)) <= 1
                    /\ \A r \in Unchecked(h) : ~returned[r].copied
  BY DEF OneCarriesTheDuty
<1>1. fate[h] = "unseen" => Unchecked(h) # {}
  BY DEF DutyInv, Unchecked
<1>2. \A r \in Unchecked(h) : ~returned[r].copied /\ r \in There /\ returned[r].chain = h
  BY DEF DutyInv, Unchecked, There, Return
<1>3. h \notin forked => \A r, t \in Unchecked(h) : r = t
  BY <1>2 DEF DutyInv
<1>4. h \notin forked => Cardinality(Unchecked(h)) <= 1
  BY <1>3, AtMostOne
<1>5. QED
  BY <1>1, <1>2, <1>4

(* A value that a function returned is looked at, or complained of, or some *)
(* copy of it will: the one that was not copied, whatever number of         *)
(* functions hand it on (CheckReturn.h).                                    *)
THEOREM OneAlwaysCarriesTheDuty ==
  CheckedSpec => []OneCarriesTheDuty
<1>1. CheckedSpec => [](CheckedInv /\ DutyInv)
  BY CheckedInvInit, DutyInvInit, CheckedInvStep, DutyInvStep, PTL DEF CheckedSpec
<1>2. QED
  BY <1>1, DutyIsCarried, PTL
==============================================================================
