------------------------ MODULE SharedSingletonsProofs ------------------------
(***************************************************************************)
(* Theorems about SharedSingletons.tla, for any threads and hosts and any  *)
(* number of calls.                                                        *)
(***************************************************************************)
EXTENDS SharedSingletons, SequenceTheorems, TLAPS

-----------------------------------------------------------------------------
(* The inductive invariant *)

Ats == {"enter", "lock", "recheck", "construct", "schedule", "destroy", "destroyed",
        "inside", "leave", "unwind"}

\* A call that is past its lock has it.
FrameFits(f) ==
  /\ f.fn \in Served => f.on = Allocator
  /\ f.at \in {"inside", "recheck", "construct", "schedule", "destroy", "destroyed", "leave"} => f.guard

FramesFit == \A t \in Thread : \A i \in 1..Len(stack[t]) : FrameFits(stack[t][i])

\* The call of thread t at depth i is to release mutex m.
Holds(t, i, m) ==
  i \in 1..Len(stack[t]) /\ stack[t][i].guard /\ MutexOf(stack[t][i]) = m

LocksFit ==
  /\ \A m \in Mutex, t \in Thread, i \in Nat : Holds(t, i, m) => owner[m] = t
  /\ \A m \in Mutex, t \in Thread, i, j \in Nat : Holds(t, i, m) /\ Holds(t, j, m) => i = j

LockInv == TypeOK /\ FramesFit /\ LocksFit

\* The holders whose MakeInstance locks a mutex.
Real(h) == h \in Host \/ model = "class"

\* The call of thread t at depth i makes the instance of h, and is at "at".
Making(t, i, h, at) ==
  /\ i \in 1..Len(stack[t])
  /\ stack[t][i].fn = "instance" /\ stack[t][i].on = h /\ stack[t][i].at = at

\* Where a call makes an object, queues its turn, or destroys it again.
Makings == {"construct", "schedule", "destroy", "destroyed"}

InstanceFits(h) ==
  /\ alive[h] \in 0..1 /\ turns[h] \in 0..alive[h]
  /\ alive[h] = 1 => there[h]
  /\ \A t \in Thread, i \in Nat, a \in {"construct", "destroyed"} : Making(t, i, h, a) => alive[h] = 0
  /\ \A t \in Thread, i \in Nat, a \in {"schedule", "destroy"} :
       Making(t, i, h, a) => alive[h] = 1 /\ turns[h] = 0

InstancesFit == \A h \in Holder : Real(h) => InstanceFits(h)

IInv == LockInv /\ InstancesFit

-----------------------------------------------------------------------------
(* Stacks *)

LEMMA Types ==
  /\ Served \subseteq {"new", "delete", "clear"}
  /\ Allocator \in Holder
  /\ \A f \in Frame : MutexOf(f) \in Mutex \cup {NoMutex}
  /\ NoMutex \notin Mutex
  /\ \A h \in Holder : <<"make", h>> \in Mutex /\ <<"object", h>> \in Mutex
  /\ <<"allocator", Allocator>> \in Mutex
<1>1. Allocator \in Holder
  BY DEF Holder
<1>2. \A f \in Frame : MutexOf(f) \in Mutex \cup {NoMutex}
  BY <1>1 DEF Frame, MutexOf, Mutex, Served
<1>3. NoMutex \notin Mutex
  BY DEF NoMutex, Mutex
<1> QED
  BY <1>1, <1>2, <1>3 DEF Served, Mutex

LEMMA FrontAndLast ==
  ASSUME NEW S, NEW s \in Seq(S), s # <<>>
  PROVE  /\ Len(s) \in Nat \ {0} /\ Last(s) = s[Len(s)] /\ Last(s) \in S
         /\ Front(s) \in Seq(S) /\ Len(Front(s)) = Len(s) - 1
         /\ \A i \in 1..(Len(s) - 1) : Front(s)[i] = s[i]
<1>1. Len(s) \in Nat \ {0}
  BY EmptySeq
<1>2. \A i \in 1..(Len(s) - 1) : s[i] \in S
  BY <1>1, ElementOfSeq
<1>3. s[Len(s)] \in S
  BY <1>1, ElementOfSeq
<1>4. /\ SubSeq(s, 1, Len(s) - 1) \in Seq(S)
      /\ Len(SubSeq(s, 1, Len(s) - 1)) = IF 1 <= Len(s) - 1 THEN Len(s) - 1 - 1 + 1 ELSE 0
      /\ \A i \in 1..(Len(s) - 1 - 1 + 1) : SubSeq(s, 1, Len(s) - 1)[i] = s[1 + i - 1]
  BY <1>1, <1>2, SubSeqProperties
<1>5. 1..(Len(s) - 1 - 1 + 1) = 1..(Len(s) - 1) /\ \A i \in 1..(Len(s) - 1) : 1 + i - 1 = i
  BY <1>1
<1>6. \A n \in Nat \ {0} : (IF 1 <= n - 1 THEN n - 1 - 1 + 1 ELSE 0) = n - 1
  OBVIOUS
<1> QED
  BY <1>1, <1>3, <1>4, <1>5, <1>6, Zenon DEF Front, Last

\* Frame f, gone on to be g.
GoneOn(f, g, at, guard) == g.fn = f.fn /\ g.on = f.on /\ g.at = at /\ g.guard = guard

\* The stacks after a step of thread t, whose own has the length n.
Moved(t, n) ==
  /\ stack' \in [Thread -> Seq(Frame)]
  /\ \A u \in Thread \ {t} : stack'[u] = stack[u]
  /\ Len(stack'[t]) = n

LEMMA FramesOfGoto ==
  ASSUME TypeOK, NEW t \in Thread, stack[t] # <<>>, NEW at \in Ats, NEW guard \in BOOLEAN,
         Goto(t, at, guard)
  PROVE  /\ Moved(t, Len(stack[t]))
         /\ \A i \in 1..(Len(stack[t]) - 1) : stack'[t][i] = stack[t][i]
         /\ GoneOn(Top(t), stack'[t][Len(stack[t])], at, guard)
<1> DEFINE s == stack[t]  f == [Last(s) EXCEPT !.at = at, !.guard = guard]
<1>1. s \in Seq(Frame)
  BY DEF TypeOK
<1>2. Last(s) \in Frame /\ Front(s) \in Seq(Frame) /\ Len(Front(s)) = Len(s) - 1
      /\ Len(s) \in Nat \ {0} /\ \A i \in 1..(Len(s) - 1) : Front(s)[i] = s[i]
  BY <1>1, FrontAndLast
<1>3. f \in Frame /\ GoneOn(Last(s), f, at, guard)
  BY <1>2 DEF Frame, Ats, GoneOn
<1>4. stack' = [stack EXCEPT ![t] = Append(Front(s), f)]
  BY DEF Goto
<1> HIDE DEF f
<1>5. Append(Front(s), f) \in Seq(Frame) /\ Len(Append(Front(s), f)) = Len(s)
      /\ Append(Front(s), f)[Len(s)] = f
      /\ \A i \in 1..(Len(s) - 1) : Append(Front(s), f)[i] = s[i]
  BY <1>2, <1>3
<1>6. stack'[t] = Append(Front(s), f)
  BY <1>4 DEF TypeOK
<1> QED
  BY <1>3, <1>4, <1>5, <1>6 DEF TypeOK, Moved, Top

LEMMA FramesOfInvoke ==
  ASSUME TypeOK, NEW t \in Thread, stack[t] # <<>>, NEW at \in Ats, NEW guard \in BOOLEAN,
         NEW g \in Frame, Invoke(t, at, guard, g)
  PROVE  /\ Moved(t, Len(stack[t]) + 1)
         /\ \A i \in 1..(Len(stack[t]) - 1) : stack'[t][i] = stack[t][i]
         /\ GoneOn(Top(t), stack'[t][Len(stack[t])], at, guard)
         /\ stack'[t][Len(stack[t]) + 1] = g
<1> DEFINE s == stack[t]  f == [Last(s) EXCEPT !.at = at, !.guard = guard]
<1>1. s \in Seq(Frame)
  BY DEF TypeOK
<1>2. Last(s) \in Frame /\ Front(s) \in Seq(Frame) /\ Len(Front(s)) = Len(s) - 1
      /\ Len(s) \in Nat \ {0} /\ \A i \in 1..(Len(s) - 1) : Front(s)[i] = s[i]
  BY <1>1, FrontAndLast
<1>3. f \in Frame /\ GoneOn(Last(s), f, at, guard)
  BY <1>2 DEF Frame, Ats, GoneOn
<1>4. stack' = [stack EXCEPT ![t] = Front(s) \o <<f, g>>]
  BY DEF Invoke
<1> HIDE DEF f
<1> DEFINE r == Front(s) \o <<f, g>>
<1>5. <<f, g>> \in Seq(Frame) /\ Len(<<f, g>>) = 2
  BY <1>3
<1>6. /\ r \in Seq(Frame) /\ Len(r) = Len(Front(s)) + Len(<<f, g>>)
      /\ \A i \in 1..(Len(Front(s)) + Len(<<f, g>>)) :
           r[i] = IF i <= Len(Front(s)) THEN Front(s)[i] ELSE <<f, g>>[i - Len(Front(s))]
  BY <1>2, <1>5, ConcatProperties
<1> HIDE DEF r
<1>7. /\ Len(r) = Len(s) + 1 /\ r[Len(s)] = f /\ r[Len(s) + 1] = g
      /\ \A i \in 1..(Len(s) - 1) : r[i] = s[i]
  <2>1. Len(Front(s)) + Len(<<f, g>>) = Len(s) + 1
    BY <1>2, <1>5
  <2>2. r[Len(s)] = <<f, g>>[1] /\ r[Len(s) + 1] = <<f, g>>[2]
    <3>1. Len(s) \in 1..(Len(s) + 1) /\ Len(s) + 1 \in 1..(Len(s) + 1)
      BY <1>2
    <3>2. ~(Len(s) <= Len(Front(s))) /\ ~(Len(s) + 1 <= Len(Front(s)))
      BY <1>2
    <3>3. Len(s) - Len(Front(s)) = 1 /\ Len(s) + 1 - Len(Front(s)) = 2
      BY <1>2
    <3> QED
      BY <1>6, <2>1, <3>1, <3>2, <3>3
  <2>3. ASSUME NEW i \in 1..(Len(s) - 1) PROVE r[i] = s[i]
    <3>1. i \in 1..(Len(s) + 1) /\ i <= Len(Front(s))
      BY <1>2
    <3> QED
      BY <1>2, <1>6, <2>1, <3>1
  <2> QED
    BY <1>6, <2>1, <2>2, <2>3
<1>8. stack'[t] = r
  BY <1>4 DEF TypeOK, r
<1> QED
  BY <1>3, <1>4, <1>6, <1>7, <1>8 DEF TypeOK, Moved, Top

LEMMA FramesOfReturn ==
  ASSUME TypeOK, NEW t \in Thread, stack[t] # <<>>, Return(t)
  PROVE  /\ Moved(t, Len(stack[t]) - 1)
         /\ \A i \in 1..(Len(stack[t]) - 1) : stack'[t][i] = stack[t][i]
<1>1. stack[t] \in Seq(Frame)
  BY DEF TypeOK
<1>2. stack' = [stack EXCEPT ![t] = Front(stack[t])]
  BY DEF Return
<1>3. stack'[t] = Front(stack[t])
  BY <1>2 DEF TypeOK
<1> QED
  BY <1>1, <1>2, <1>3, FrontAndLast DEF TypeOK, Moved

\* What an exception leaves of the call it reaches.
Caught(f, g) ==
  \/ g = [f EXCEPT !.at = "unwind"]
  \/ f.at = "schedule" /\ g = [f EXCEPT !.at = "destroy"]

LEMMA CaughtFrame ==
  ASSUME NEW f \in Frame, NEW g, Caught(f, g)
  PROVE  /\ g \in Frame /\ g.fn = f.fn /\ g.on = f.on /\ g.guard = f.guard
         /\ g.at = "unwind" \/ (f.at = "schedule" /\ g.at = "destroy")
BY DEF Caught, Frame

LEMMA FramesOfThrow ==
  ASSUME TypeOK, NEW t \in Thread, stack[t] # <<>>, Throw(t)
  PROVE  LET n == Len(stack[t]) IN
         /\ Moved(t, n - 1)
         /\ \A i \in 1..(n - 1) : i # n - 1 => stack'[t][i] = stack[t][i]
         /\ n > 1 => Caught(stack[t][n - 1], stack'[t][n - 1])
<1> DEFINE s == stack[t]
<1>1. s \in Seq(Frame) /\ Len(s) \in Nat \ {0}
  BY EmptySeq DEF TypeOK
<1>2. PICK k \in Nat : k = Len(s) - 1
  BY <1>1
<1>3. /\ Front(s) \in Seq(Frame) /\ Len(Front(s)) = k
      /\ \A i \in 1..k : Front(s)[i] = s[i]
  BY <1>1, <1>2, FrontAndLast
<1>4. ASSUME k = 0, Return(t)
      PROVE  Moved(t, k) /\ \A i \in 1..k : i # k => stack'[t][i] = s[i]
  BY <1>2, <1>4, FramesOfReturn
<1>5. ASSUME NEW at \in {"unwind", "destroy"}, at = "destroy" => s[k].at = "schedule", k > 0,
             stack' = [stack EXCEPT ![t] = [Front(s) EXCEPT ![k].at = at]]
      PROVE  /\ Moved(t, k)
             /\ \A i \in 1..k : i # k => stack'[t][i] = s[i]
             /\ Caught(s[k], stack'[t][k])
  <2> DEFINE e == [Front(s)[k] EXCEPT !.at = at]
             r == [Front(s) EXCEPT ![k] = e]
  <2>1. k \in 1..Len(Front(s))
    BY <1>3, <1>5
  <2>2. Front(s)[k] \in Frame /\ Front(s)[k] = s[k]
    BY <1>3, <2>1, ElementOfSeq
  <2>3. e \in Frame /\ Caught(s[k], e)
    BY <1>5, <2>2 DEF Frame, Caught
  <2> HIDE DEF e
  <2>4. /\ r \in Seq(Frame) /\ Len(r) = Len(Front(s))
        /\ \A j \in 1..Len(Front(s)) : r[j] = IF j = k THEN e ELSE Front(s)[j]
    BY <1>3, <2>1, <2>3, ExceptSeq
  <2>5. stack' = [stack EXCEPT ![t] = r]
    BY <1>5 DEF e
  <2> HIDE DEF r
  <2>6. stack'[t] = r
    BY <2>5 DEF TypeOK
  <2>7. \A i \in 1..k : i # k => stack'[t][i] = s[i]
    BY <1>3, <2>1, <2>4, <2>6 DEF Front
  <2>8. stack'[t][k] = e
    BY <2>1, <2>4, <2>6
  <2>9. Moved(t, k)
    BY <1>1, <1>3, <2>4, <2>5, <2>6 DEF Moved, TypeOK
  <2> QED
    BY <2>3, <2>7, <2>8, <2>9
<1>6. \/ k = 0 /\ Return(t)
      \/ /\ k > 0
         /\ \E at \in {"unwind"} \cup (IF s[k].at = "schedule" THEN {"destroy"} ELSE {}) :
              stack' = [stack EXCEPT ![t] = [Front(s) EXCEPT ![k].at = at]]
  BY <1>2 DEF Throw
<1>7. Len(s) - 1 = k /\ (Len(s) > 1 => k > 0)
  BY <1>2
<1>8. CASE k = 0 /\ Return(t)
  BY <1>4, <1>7, <1>8
<1>9. CASE k > 0
  <2>1. PICK at \in {"unwind"} \cup (IF s[k].at = "schedule" THEN {"destroy"} ELSE {}) :
          stack' = [stack EXCEPT ![t] = [Front(s) EXCEPT ![k].at = at]]
    BY <1>6, <1>9
  <2> QED
    BY <1>5, <1>7, <1>9, <2>1
<1> QED
  BY <1>6, <1>8, <1>9

LEMMA FramesOfCall ==
  ASSUME TypeOK, NEW t \in Thread, NEW g \in Frame, stack' = [stack EXCEPT ![t] = Append(@, g)]
  PROVE  /\ Moved(t, Len(stack[t]) + 1)
         /\ \A i \in 1..Len(stack[t]) : stack'[t][i] = stack[t][i]
         /\ stack'[t][Len(stack[t]) + 1] = g
<1>1. stack[t] \in Seq(Frame) /\ stack'[t] = Append(stack[t], g)
  BY DEF TypeOK
<1> QED
  BY <1>1 DEF TypeOK, Moved

-----------------------------------------------------------------------------
(* What a step of one thread does to its calls *)

NewCall(f) ==
  \E fn \in Served \cup {"instance", "use"}, h \in Holder :
    f = Enter(fn, h) /\ (fn \in Served => h = Allocator)

\* The innermost call goes on, having perhaps made a call.
Topped(t, at, guard) ==
  LET n == Len(stack[t]) IN
  /\ Moved(t, n) \/ (Moved(t, n + 1) /\ NewCall(stack'[t][n + 1]))
  /\ \A i \in 1..(n - 1) : stack'[t][i] = stack[t][i]
  /\ GoneOn(Top(t), stack'[t][n], at, guard)

\* The innermost call is over; the next may have to unwind.
Popped(t) ==
  /\ Moved(t, Len(stack[t]) - 1)
  /\ \A i \in 1..(Len(stack[t]) - 1) :
       stack'[t][i] = stack[t][i] \/ Caught(stack[t][i], stack'[t][i])

Pushed(t) ==
  /\ Moved(t, Len(stack[t]) + 1)
  /\ NewCall(stack'[t][Len(stack[t]) + 1])
  /\ \A i \in 1..Len(stack[t]) : stack'[t][i] = stack[t][i]

LEMMA NewCallFacts ==
  ASSUME NEW f, NewCall(f)
  PROVE  f \in Frame /\ FrameFits(f) /\ ~f.guard /\ f.at = "enter"
BY DEF NewCall, Enter, Frame, FrameFits

LEMMA ToppedByGoto ==
  ASSUME TypeOK, NEW t \in Thread, stack[t] # <<>>, NEW at \in Ats, NEW guard \in BOOLEAN,
         Goto(t, at, guard)
  PROVE  Topped(t, at, guard)
<1>1. /\ Moved(t, Len(stack[t]))
      /\ \A i \in 1..(Len(stack[t]) - 1) : stack'[t][i] = stack[t][i]
      /\ GoneOn(Top(t), stack'[t][Len(stack[t])], at, guard)
  BY FramesOfGoto, Zenon
<1> QED
  BY <1>1, Zenon DEF Topped

LEMMA ToppedByInvoke ==
  ASSUME TypeOK, NEW t \in Thread, stack[t] # <<>>, NEW at \in Ats, NEW guard \in BOOLEAN,
         NEW fn \in Served \cup {"instance", "use"}, NEW h \in Holder, fn \in Served => h = Allocator,
         Invoke(t, at, guard, Enter(fn, h))
  PROVE  Topped(t, at, guard)
<1>1. NewCall(Enter(fn, h))
  BY DEF NewCall
<1>2. Enter(fn, h) \in Frame
  BY <1>1, NewCallFacts
<1>3. PICK g \in Frame : g = Enter(fn, h)
  BY <1>2
<1>4. Invoke(t, at, guard, g)
  BY <1>3
<1>5. /\ Moved(t, Len(stack[t]) + 1)
      /\ \A i \in 1..(Len(stack[t]) - 1) : stack'[t][i] = stack[t][i]
      /\ GoneOn(Top(t), stack'[t][Len(stack[t])], at, guard)
      /\ stack'[t][Len(stack[t]) + 1] = g
  BY <1>4, FramesOfInvoke, SMTT(30)
<1>6. NewCall(stack'[t][Len(stack[t]) + 1])
  BY <1>1, <1>3, <1>5
<1> QED
  BY <1>5, <1>6, Zenon DEF Topped

LEMMA TopFacts ==
  ASSUME TypeOK, NEW t \in Thread, stack[t] # <<>>
  PROVE  /\ Len(stack[t]) \in Nat \ {0} /\ Len(stack[t]) \in 1..Len(stack[t])
         /\ Top(t) = stack[t][Len(stack[t])] /\ Top(t) \in Frame
<1>1. stack[t] \in Seq(Frame)
  BY DEF TypeOK
<1>2. Len(stack[t]) \in Nat \ {0} /\ Last(stack[t]) = stack[t][Len(stack[t])] /\ Last(stack[t]) \in Frame
  BY <1>1, FrontAndLast
<1> QED
  BY <1>2 DEF Top

LEMMA PoppedByReturn ==
  ASSUME TypeOK, NEW t \in Thread, stack[t] # <<>>, Return(t)
  PROVE  Popped(t)
BY FramesOfReturn DEF Popped

LEMMA PoppedByThrow ==
  ASSUME TypeOK, NEW t \in Thread, stack[t] # <<>>, Throw(t)
  PROVE  Popped(t)
<1>1. PICK n \in Nat : n = Len(stack[t])
  BY TopFacts
<1>2. /\ Moved(t, n - 1)
      /\ \A i \in 1..(n - 1) : i # n - 1 => stack'[t][i] = stack[t][i]
      /\ n > 1 => Caught(stack[t][n - 1], stack'[t][n - 1])
  BY <1>1, FramesOfThrow
<1>3. \A i \in 1..(n - 1) : i = n - 1 => n > 1
  BY <1>1
<1> QED
  BY <1>1, <1>2, <1>3 DEF Popped

\* The positions of a stack after a step, each with what is there.
LEMMA ToppedFrames ==
  ASSUME TypeOK, NEW t \in Thread, stack[t] # <<>>, NEW at, NEW guard, Topped(t, at, guard),
         NEW i \in 1..Len(stack'[t])
  PROVE  \/ i \in 1..Len(stack[t]) /\ i # Len(stack[t]) /\ stack'[t][i] = stack[t][i]
         \/ i = Len(stack[t]) /\ GoneOn(Top(t), stack'[t][i], at, guard)
         \/ i = Len(stack[t]) + 1 /\ NewCall(stack'[t][i])
<1> DEFINE n == Len(stack[t])
<1>1. n \in Nat \ {0}
  BY TopFacts
<1>2. /\ Len(stack'[t]) = n \/ (Len(stack'[t]) = n + 1 /\ NewCall(stack'[t][n + 1]))
      /\ \A k \in 1..(n - 1) : stack'[t][k] = stack[t][k]
      /\ GoneOn(Top(t), stack'[t][n], at, guard)
  BY DEF Topped, Moved
<1> HIDE DEF n
<1>3. CASE i \in 1..(n - 1)
  BY <1>1, <1>2, <1>3 DEF n
<1>4. CASE i = n
  BY <1>2, <1>4 DEF n
<1>5. CASE i = n + 1
  <2>1. Len(stack'[t]) = n + 1
    BY <1>1, <1>2, <1>5
  <2> QED
    BY <1>1, <1>2, <1>5, <2>1 DEF n
<1>6. i \in 1..(n - 1) \/ i = n \/ i = n + 1
  BY <1>1, <1>2
<1> QED
  BY <1>3, <1>4, <1>5, <1>6

-----------------------------------------------------------------------------
(* Mutexes *)

\* MutexOf, with the model made explicit.
MutexFor(md, f) ==
  CASE f.fn \in {"new", "delete"} -> <<"allocator", Allocator>>
    [] f.fn = "clear" -> IF md = "class" THEN <<"allocator", Allocator>> ELSE NoMutex
    [] f.fn = "instance" -> IF f.on = Allocator /\ md = "passed" THEN NoMutex ELSE <<"make", f.on>>
    [] f.fn = "use" -> <<"object", f.on>>

LEMMA MutexForSame ==
  ASSUME NEW md, NEW f, NEW g, f.fn = g.fn, f.on = g.on
  PROVE  MutexFor(md, f) = MutexFor(md, g)
BY DEF MutexFor

LEMMA HoldsIs ==
  ASSUME NEW t \in Thread, NEW i \in Nat, NEW m
  PROVE  /\ Holds(t, i, m) <=> /\ i \in 1..Len(stack[t]) /\ stack[t][i].guard
                               /\ MutexFor(model, stack[t][i]) = m
         /\ Holds(t, i, m)' <=> /\ i \in 1..Len(stack'[t]) /\ stack'[t][i].guard
                                /\ MutexFor(model', stack'[t][i]) = m
BY DEF Holds, MutexOf, MutexFor

LEMMA TopMutex ==
  ASSUME TypeOK, NEW t \in Thread, stack[t] # <<>>
  PROVE  /\ MutexOf(Top(t)) = MutexFor(model, Top(t))
         /\ MutexOf(Top(t)) \in Mutex \cup {NoMutex}
<1>1. MutexOf(Top(t)) = MutexFor(model, Top(t))
  BY DEF MutexOf, MutexFor
<1> QED
  BY <1>1, TopFacts, Types

LEMMA HoldsTopped ==
  ASSUME TypeOK, NEW t \in Thread, stack[t] # <<>>, NEW at, NEW guard \in BOOLEAN,
         Topped(t, at, guard), model' = model,
         NEW u \in Thread, NEW i \in Nat, NEW m \in Mutex, Holds(u, i, m)'
  PROVE  Holds(u, i, m) \/ (u = t /\ i = Len(stack[t]) /\ m = MutexOf(Top(t)) /\ guard)
<1>1. /\ i \in 1..Len(stack'[u]) /\ stack'[u][i].guard
      /\ MutexFor(model, stack'[u][i]) = m
  BY HoldsIs
<1>2. CASE u # t
  <2>1. stack'[u] = stack[u]
    BY <1>2 DEF Topped, Moved
  <2> QED
    BY <1>1, <2>1, HoldsIs
<1>3. CASE u = t
  <2>1. CASE i \in 1..Len(stack[t]) /\ i # Len(stack[t]) /\ stack'[t][i] = stack[t][i]
    BY <1>1, <1>3, <2>1, HoldsIs
  <2>2. CASE i = Len(stack[t]) /\ GoneOn(Top(t), stack'[t][i], at, guard)
    <3>2. stack'[t][i].fn = Top(t).fn /\ stack'[t][i].on = Top(t).on /\ stack'[t][i].guard = guard
      BY <2>2 DEF GoneOn
    <3>3. MutexFor(model, stack'[t][i]) = MutexFor(model, Top(t))
      BY <3>2, MutexForSame
    <3> QED
      BY <1>1, <1>3, <2>2, <3>2, <3>3, TopMutex
  <2>3. CASE i = Len(stack[t]) + 1 /\ NewCall(stack'[t][i])
    BY <1>1, <1>3, <2>3, NewCallFacts
  <2> QED
    BY <1>1, <1>3, <2>1, <2>2, <2>3, ToppedFrames
<1> QED
  BY <1>2, <1>3

LEMMA HoldsPopped ==
  ASSUME TypeOK, NEW t \in Thread, stack[t] # <<>>, Popped(t), model' = model,
         NEW u \in Thread, NEW i \in Nat, NEW m \in Mutex, Holds(u, i, m)'
  PROVE  Holds(u, i, m) /\ ~(u = t /\ i = Len(stack[t]))
<1>1. /\ i \in 1..Len(stack'[u]) /\ stack'[u][i].guard
      /\ MutexFor(model, stack'[u][i]) = m
  BY HoldsIs
<1>2. CASE u # t
  <2>1. stack'[u] = stack[u]
    BY <1>2 DEF Popped, Moved
  <2> QED
    BY <1>1, <1>2, <2>1, HoldsIs
<1>3. CASE u = t
  <2>1. Len(stack[t]) \in Nat \ {0} /\ Len(stack'[t]) = Len(stack[t]) - 1
    BY TopFacts DEF Popped, Moved
  <2>2. i \in 1..(Len(stack[t]) - 1) /\ i \in 1..Len(stack[t]) /\ i # Len(stack[t])
    BY <1>1, <1>3, <2>1
  <2>3. stack[t][i] \in Frame
    BY <2>2, ElementOfSeq DEF TypeOK
  <2>4. stack'[t][i] = stack[t][i] \/ Caught(stack[t][i], stack'[t][i])
    BY <2>2 DEF Popped
  <2>5. /\ stack'[t][i].fn = stack[t][i].fn /\ stack'[t][i].on = stack[t][i].on
        /\ stack'[t][i].guard = stack[t][i].guard
    BY <2>3, <2>4, CaughtFrame
  <2>6. MutexFor(model, stack'[t][i]) = MutexFor(model, stack[t][i])
    BY <2>5, MutexForSame
  <2> QED
    BY <1>1, <1>3, <2>2, <2>5, <2>6, HoldsIs
<1> QED
  BY <1>2, <1>3

LEMMA HoldsPushed ==
  ASSUME TypeOK, NEW t \in Thread, Pushed(t), model' = model,
         NEW u \in Thread, NEW i \in Nat, NEW m \in Mutex, Holds(u, i, m)'
  PROVE  Holds(u, i, m)
<1>1. /\ i \in 1..Len(stack'[u]) /\ stack'[u][i].guard
      /\ MutexFor(model, stack'[u][i]) = m
  BY HoldsIs
<1>2. CASE u # t
  <2>1. stack'[u] = stack[u]
    BY <1>2 DEF Pushed, Moved
  <2> QED
    BY <1>1, <2>1, HoldsIs
<1>3. CASE u = t
  <2>1. Len(stack[t]) \in Nat /\ Len(stack'[t]) = Len(stack[t]) + 1
    BY LenProperties DEF Pushed, Moved, TypeOK
  <2>2. i # Len(stack[t]) + 1
    BY <1>1, <1>3, NewCallFacts DEF Pushed
  <2>3. i \in 1..Len(stack[t])
    BY <1>1, <1>3, <2>1, <2>2
  <2> QED
    BY <1>1, <1>3, <2>3, HoldsIs DEF Pushed
<1> QED
  BY <1>2, <1>3

\* Nothing is taken that was not held.
LEMMA LocksKept ==
  ASSUME LocksFit, owner' = owner,
         \A u \in Thread, i \in Nat, m \in Mutex : Holds(u, i, m)' => Holds(u, i, m)
  PROVE  LocksFit'
BY DEF LocksFit

LEMMA LocksTaken ==
  ASSUME TypeOK, LocksFit, NEW t \in Thread, stack[t] # <<>>, NEW at, NEW guard \in BOOLEAN,
         Topped(t, at, guard), model' = model, Locked(t)
  PROVE  LocksFit'
<1> DEFINE k == MutexOf(Top(t))  n == Len(stack[t])
<1>1. k \in Mutex \cup {NoMutex} /\ NoMutex \notin Mutex
  BY TopMutex, Types
<1>2. (k # NoMutex => owner[k] = NoThread) /\ owner' = IF k = NoMutex THEN owner ELSE [owner EXCEPT ![k] = t]
  BY DEF Locked
<1>3. \A u \in Thread, i \in Nat, m \in Mutex :
        Holds(u, i, m)' => Holds(u, i, m) \/ (u = t /\ i = n /\ m = k)
  BY HoldsTopped
<1> HIDE DEF k, n
<1>4. owner \in [Mutex -> Thread \cup {NoThread}] /\ NoThread \notin Thread
  BY SharedAssumption DEF TypeOK
<1>5. CASE k = NoMutex
  BY <1>1, <1>2, <1>3, <1>5, LocksKept
<1>6. CASE k # NoMutex
  <2>1. \A u \in Thread, i \in Nat : ~Holds(u, i, k)
    BY <1>1, <1>2, <1>4, <1>6 DEF LocksFit
  <2>2. \A m \in Mutex : owner'[m] = IF m = k THEN t ELSE owner[m]
    BY <1>1, <1>2, <1>4, <1>6
  <2>3. \A m \in Mutex, u \in Thread, i \in Nat : Holds(u, i, m)' => owner'[m] = u
    BY <1>3, <2>1, <2>2 DEF LocksFit
  <2>4. \A m \in Mutex, u \in Thread, i, j \in Nat : Holds(u, i, m)' /\ Holds(u, j, m)' => i = j
    BY <1>3, <2>1 DEF LocksFit
  <2> QED
    BY <2>3, <2>4 DEF LocksFit
<1> QED
  BY <1>5, <1>6

LEMMA LocksDropped ==
  ASSUME TypeOK, LocksFit, NEW t \in Thread, stack[t] # <<>>, Popped(t), model' = model, Unlocked(t)
  PROVE  LocksFit'
<1>1. MutexOf(Top(t)) \in Mutex \cup {NoMutex} /\ Len(stack[t]) \in Nat
  BY TopMutex, TopFacts
<1>2. PICK k \in Mutex \cup {NoMutex} : k = MutexOf(Top(t))
  BY <1>1
<1>3. PICK n \in Nat : n = Len(stack[t])
  BY <1>1
<1>4. k \in Mutex \cup {NoMutex} /\ n \in Nat
  OBVIOUS
<1>5. owner' = IF Top(t).guard /\ k # NoMutex THEN [owner EXCEPT ![k] = NoThread] ELSE owner
  BY <1>2 DEF Unlocked
<1>6. \A u \in Thread, i \in Nat, m \in Mutex :
        Holds(u, i, m)' => Holds(u, i, m) /\ ~(u = t /\ i = n)
  BY <1>3, HoldsPopped
<1>7. Top(t).guard => Holds(t, n, k)
  BY <1>2, <1>3, TopFacts, TopMutex, HoldsIs
<1>8. owner \in [Mutex -> Thread \cup {NoThread}]
  BY DEF TypeOK
<1>9. CASE Top(t).guard /\ k # NoMutex
  <2>1. k \in Mutex /\ Holds(t, n, k)
    BY <1>4, <1>7, <1>9
  <2>2. \A u \in Thread, i \in Nat : Holds(u, i, k) => u = t /\ i = n
    BY <1>4, <2>1 DEF LocksFit
  <2>3. \A m \in Mutex : owner'[m] = IF m = k THEN NoThread ELSE owner[m]
    BY <1>5, <1>8, <1>9
  <2>4. \A m \in Mutex, u \in Thread, i \in Nat : Holds(u, i, m)' => m # k /\ owner[m] = u
    <3>1. SUFFICES ASSUME NEW m \in Mutex, NEW u \in Thread, NEW i \in Nat, Holds(u, i, m)'
                   PROVE  m # k /\ owner[m] = u
      OBVIOUS
    <3>2. Holds(u, i, m) /\ ~(u = t /\ i = n)
      BY <1>6, <3>1
    <3>3. owner[m] = u
      BY <3>2 DEF LocksFit
    <3>4. m = k => Holds(u, i, k)
      BY <3>2
    <3> QED
      BY <2>2, <3>2, <3>3, <3>4
  <2>5. \A m \in Mutex, u \in Thread, i \in Nat : Holds(u, i, m)' => owner'[m] = u
    BY <2>3, <2>4
  <2>6. \A m \in Mutex, u \in Thread, i, j \in Nat : Holds(u, i, m)' /\ Holds(u, j, m)' => i = j
    BY <1>6 DEF LocksFit
  <2> QED
    BY <2>5, <2>6 DEF LocksFit
<1>40. CASE ~(Top(t).guard /\ k # NoMutex)
  BY <1>5, <1>6, <1>40, LocksKept
<1> QED
  BY <1>9, <1>40

-----------------------------------------------------------------------------
(* Each kind of step keeps the stacks and the locks in order *)

PastLock == {"inside", "recheck", "construct", "schedule", "destroy", "destroyed", "leave"}

StacksFit ==
  /\ stack \in [Thread -> Seq(Frame)]
  /\ owner \in [Mutex -> Thread \cup {NoThread}]
  /\ FramesFit
  /\ LocksFit

LEMMA OwnersTyped ==
  ASSUME TypeOK, NEW t \in Thread, stack[t] # <<>>, owner' = owner \/ Locked(t) \/ Unlocked(t)
  PROVE  owner' \in [Mutex -> Thread \cup {NoThread}]
<1>1. owner \in [Mutex -> Thread \cup {NoThread}]
  BY DEF TypeOK
<1>2. MutexOf(Top(t)) \in Mutex \cup {NoMutex}
  BY TopMutex
<1> QED
  BY <1>1, <1>2 DEF Locked, Unlocked

LEMMA ToppedFits ==
  ASSUME LockInv, NEW t \in Thread, stack[t] # <<>>, NEW at \in Ats, NEW guard \in BOOLEAN,
         Topped(t, at, guard), at \in PastLock => guard
  PROVE  FramesFit'
<1>1. TypeOK /\ FramesFit
  BY DEF LockInv
<1>2. SUFFICES ASSUME NEW u \in Thread, NEW i \in 1..Len(stack'[u])
               PROVE  FrameFits(stack'[u][i])
  BY DEF FramesFit, FrameFits
<1>3. CASE u # t
  BY <1>1, <1>2, <1>3 DEF FramesFit, Topped, Moved
<1>4. CASE u = t
  <2>1. CASE i \in 1..Len(stack[t]) /\ stack'[t][i] = stack[t][i]
    BY <1>1, <1>4, <2>1 DEF FramesFit
  <2>2. CASE i = Len(stack[t]) /\ GoneOn(Top(t), stack'[t][i], at, guard)
    <3>1. FrameFits(Top(t))
      BY <1>1, TopFacts DEF FramesFit
    <3> QED
      BY <1>4, <2>2, <3>1 DEF FrameFits, GoneOn, PastLock
  <2>3. CASE NewCall(stack'[t][i])
    BY <1>4, <2>3, NewCallFacts
  <2> QED
    BY <1>1, <1>2, <1>4, <2>1, <2>2, <2>3, ToppedFrames
<1> QED
  BY <1>3, <1>4

LEMMA ToppedLocks ==
  ASSUME LockInv, NEW t \in Thread, stack[t] # <<>>, NEW at \in Ats, NEW guard \in BOOLEAN,
         Topped(t, at, guard), model' = model, at \in PastLock => guard,
         (owner' = owner /\ (guard => Top(t).guard)) \/ Locked(t)
  PROVE  StacksFit'
<1>1. TypeOK /\ FramesFit /\ LocksFit
  BY DEF LockInv
<1>2. stack' \in [Thread -> Seq(Frame)]
  BY DEF Topped, Moved
<1>3. owner' \in [Mutex -> Thread \cup {NoThread}]
  BY <1>1, OwnersTyped
<1>4. FramesFit'
  BY ToppedFits
<1>5. ASSUME owner' = owner /\ (guard => Top(t).guard) PROVE LocksFit'
  <2>1. SUFFICES ASSUME NEW u \in Thread, NEW i \in Nat, NEW m \in Mutex, Holds(u, i, m)'
                 PROVE  Holds(u, i, m)
    BY <1>1, <1>5, LocksKept
  <2>2. CASE u = t /\ i = Len(stack[t]) /\ m = MutexOf(Top(t)) /\ guard
    BY <1>1, <1>5, <2>2, TopFacts, TopMutex, HoldsIs
  <2> QED
    BY <1>1, <2>1, <2>2, HoldsTopped
<1>6. ASSUME Locked(t) PROVE LocksFit'
  BY <1>1, <1>6, LocksTaken
<1>7. LocksFit'
  BY <1>5, <1>6
<1> QED
  BY <1>2, <1>3, <1>4, <1>7 DEF StacksFit

LEMMA PoppedLocks ==
  ASSUME LockInv, NEW t \in Thread, stack[t] # <<>>, Popped(t), model' = model,
         owner' = owner \/ Unlocked(t)
  PROVE  StacksFit'
<1>1. TypeOK /\ FramesFit /\ LocksFit
  BY DEF LockInv
<1>2. stack' \in [Thread -> Seq(Frame)]
  BY DEF Popped, Moved
<1>3. owner' \in [Mutex -> Thread \cup {NoThread}]
  BY <1>1, OwnersTyped
<1>4. FramesFit'
  <2>1. SUFFICES ASSUME NEW u \in Thread, NEW i \in 1..Len(stack'[u])
                 PROVE  FrameFits(stack'[u][i])
    BY DEF FramesFit, FrameFits
  <2>2. CASE u # t
    BY <1>1, <2>1, <2>2 DEF FramesFit, Popped, Moved
  <2>3. CASE u = t
    <3>1. Len(stack[t]) \in Nat \ {0} /\ Len(stack'[t]) = Len(stack[t]) - 1
      BY <1>1, TopFacts DEF Popped, Moved
    <3>2. i \in 1..(Len(stack[t]) - 1) /\ i \in 1..Len(stack[t])
      BY <2>1, <2>3, <3>1
    <3>3. stack[t][i] \in Frame /\ FrameFits(stack[t][i])
      BY <1>1, <3>2, ElementOfSeq DEF TypeOK, FramesFit
    <3>4. stack'[t][i] = stack[t][i] \/ Caught(stack[t][i], stack'[t][i])
      BY <3>2 DEF Popped
    <3> QED
      BY <2>3, <3>3, <3>4, CaughtFrame DEF FrameFits
  <2> QED
    BY <2>2, <2>3
<1>5. ASSUME owner' = owner PROVE LocksFit'
  BY <1>1, <1>5, HoldsPopped, LocksKept
<1>6. ASSUME Unlocked(t) PROVE LocksFit'
  BY <1>1, <1>6, LocksDropped
<1>7. LocksFit'
  BY <1>5, <1>6
<1> QED
  BY <1>2, <1>3, <1>4, <1>7 DEF StacksFit

LEMMA PushedLocks ==
  ASSUME LockInv, NEW t \in Thread, Pushed(t), model' = model, owner' = owner
  PROVE  StacksFit'
<1>1. TypeOK /\ FramesFit /\ LocksFit
  BY DEF LockInv
<1>2. stack' \in [Thread -> Seq(Frame)]
  BY DEF Pushed, Moved
<1>3. FramesFit'
  <2>1. SUFFICES ASSUME NEW u \in Thread, NEW i \in 1..Len(stack'[u])
                 PROVE  FrameFits(stack'[u][i])
    BY DEF FramesFit, FrameFits
  <2>2. CASE u # t
    BY <1>1, <2>1, <2>2 DEF FramesFit, Pushed, Moved
  <2>3. CASE u = t
    <3>1. Len(stack[t]) \in Nat /\ Len(stack'[t]) = Len(stack[t]) + 1
      BY <1>1, LenProperties DEF Pushed, Moved, TypeOK
    <3>2. i \in 1..Len(stack[t]) \/ i = Len(stack[t]) + 1
      BY <2>1, <2>3, <3>1
    <3> QED
      BY <1>1, <2>3, <3>2, NewCallFacts DEF FramesFit, Pushed
  <2> QED
    BY <2>2, <2>3
<1>4. LocksFit'
  BY <1>1, HoldsPushed, LocksKept
<1> QED
  BY <1>1, <1>2, <1>3, <1>4 DEF StacksFit, TypeOK

-----------------------------------------------------------------------------
(* Who makes an instance *)

LEMMA OneMaker ==
  ASSUME LockInv, NEW h \in Holder, Real(h), NEW t \in Thread, NEW u \in Thread,
         NEW i \in Nat, NEW j \in Nat, NEW a \in PastLock, NEW b \in PastLock,
         Making(t, i, h, a), Making(u, j, h, b)
  PROVE  t = u /\ i = j
<1>1. TypeOK /\ FramesFit /\ LocksFit
  BY DEF LockInv
<1>2. <<"make", h>> \in Mutex
  BY Types
<1>3. stack[t][i].guard /\ stack[u][j].guard
  BY <1>1 DEF FramesFit, FrameFits, Making, PastLock
<1>4. MutexOf(stack[t][i]) = <<"make", h>> /\ MutexOf(stack[u][j]) = <<"make", h>>
  <2>1. ~(h = Allocator /\ model = "passed")
    BY SharedAssumption DEF Real
  <2> QED
    BY <2>1 DEF MutexOf, Making
<1>5. Holds(t, i, <<"make", h>>) /\ Holds(u, j, <<"make", h>>)
  BY <1>3, <1>4 DEF Holds, Making
<1> QED
  BY <1>1, <1>2, <1>5 DEF LocksFit

LEMMA ToppedMaking ==
  ASSUME TypeOK, NEW t \in Thread, stack[t] # <<>>, NEW at \in Ats, NEW guard \in BOOLEAN,
         Topped(t, at, guard),
         NEW u \in Thread, NEW i \in Nat, NEW h \in Holder, NEW a \in Makings,
         Making(u, i, h, a)'
  PROVE  \/ Making(u, i, h, a) /\ ~(u = t /\ i = Len(stack[t]))
         \/ u = t /\ i = Len(stack[t]) /\ at = a /\ Top(t).fn = "instance" /\ Top(t).on = h
<1>1. /\ i \in 1..Len(stack'[u]) /\ stack'[u][i].fn = "instance"
      /\ stack'[u][i].on = h /\ stack'[u][i].at = a
  BY DEF Making
<1>2. CASE u # t
  BY <1>1, <1>2 DEF Making, Topped, Moved
<1>3. CASE u = t
  <2>1. CASE i \in 1..Len(stack[t]) /\ i # Len(stack[t]) /\ stack'[t][i] = stack[t][i]
    BY <1>1, <1>3, <2>1 DEF Making
  <2>2. CASE i = Len(stack[t]) /\ GoneOn(Top(t), stack'[t][i], at, guard)
    BY <1>1, <1>3, <2>2 DEF GoneOn
  <2>3. CASE NewCall(stack'[t][i])
    BY <1>1, <1>3, <2>3, NewCallFacts DEF Makings
  <2> QED
    BY <1>1, <1>3, <2>1, <2>2, <2>3, ToppedFrames
<1> QED
  BY <1>2, <1>3

\* Who constructs and schedules after a step of the innermost call to at.
MakersAfter(t, at) ==
  \A u \in Thread, i \in Nat, h \in Holder, a \in Makings :
    Making(u, i, h, a)' =>
      \/ Making(u, i, h, a) /\ ~(u = t /\ i = Len(stack[t]))
      \/ u = t /\ i = Len(stack[t]) /\ at = a /\ Top(t).fn = "instance" /\ Top(t).on = h

LEMMA ToppedMakers ==
  ASSUME TypeOK, NEW t \in Thread, stack[t] # <<>>, NEW at \in Ats, NEW guard \in BOOLEAN,
         Topped(t, at, guard)
  PROVE  MakersAfter(t, at)
BY ToppedMaking DEF MakersAfter

LEMMA PoppedMaking ==
  ASSUME TypeOK, NEW t \in Thread, stack[t] # <<>>, Popped(t),
         NEW u \in Thread, NEW i \in Nat, NEW h \in Holder, NEW a \in Makings,
         Making(u, i, h, a)'
  PROVE  Making(u, i, h, a) \/ (a = "destroy" /\ Making(u, i, h, "schedule"))
<1>1. /\ i \in 1..Len(stack'[u]) /\ stack'[u][i].fn = "instance"
      /\ stack'[u][i].on = h /\ stack'[u][i].at = a
  BY DEF Making
<1>2. CASE u # t
  BY <1>1, <1>2 DEF Making, Popped, Moved
<1>3. CASE u = t
  <2>1. Len(stack[t]) \in Nat \ {0} /\ Len(stack'[t]) = Len(stack[t]) - 1
    BY TopFacts DEF Popped, Moved
  <2>2. i \in 1..(Len(stack[t]) - 1) /\ i \in 1..Len(stack[t])
    BY <1>1, <1>3, <2>1
  <2>3. stack[t][i] \in Frame
    BY <2>2, ElementOfSeq DEF TypeOK
  <2>4. CASE stack'[t][i] = stack[t][i]
    BY <1>1, <1>3, <2>2, <2>4 DEF Making
  <2>5. CASE Caught(stack[t][i], stack'[t][i])
    <3>1. /\ stack[t][i].fn = "instance" /\ stack[t][i].on = h
          /\ a = "destroy" /\ stack[t][i].at = "schedule"
      BY <1>1, <1>3, <2>3, <2>5, CaughtFrame DEF Makings
    <3> QED
      BY <1>3, <2>2, <3>1 DEF Making
  <2> QED
    BY <2>2, <2>4, <2>5 DEF Popped
<1> QED
  BY <1>2, <1>3

LEMMA PushedMaking ==
  ASSUME TypeOK, NEW t \in Thread, Pushed(t),
         NEW u \in Thread, NEW i \in Nat, NEW h \in Holder, NEW a \in Makings,
         Making(u, i, h, a)'
  PROVE  Making(u, i, h, a)
<1>1. /\ i \in 1..Len(stack'[u]) /\ stack'[u][i].fn = "instance"
      /\ stack'[u][i].on = h /\ stack'[u][i].at = a
  BY DEF Making
<1>2. CASE u # t
  BY <1>1, <1>2 DEF Making, Pushed, Moved
<1>3. CASE u = t
  <2>1. Len(stack[t]) \in Nat /\ Len(stack'[t]) = Len(stack[t]) + 1
    BY LenProperties DEF Pushed, Moved, TypeOK
  <2>2. i # Len(stack[t]) + 1
    BY <1>1, <1>3, NewCallFacts DEF Pushed, Makings
  <2>3. i \in 1..Len(stack[t])
    BY <1>1, <1>3, <2>1, <2>2
  <2> QED
    BY <1>1, <1>3, <2>3 DEF Making, Pushed
<1> QED
  BY <1>2, <1>3

\* A step that makes and destroys nothing, after which nobody is to do so but
\* who was before, and who was queueing a turn and is now to destroy the object.
LEMMA InstancesKept ==
  ASSUME InstancesFit, UNCHANGED <<there, alive, turns, model>>,
         \A u \in Thread, i \in Nat, h \in Holder, a \in Makings :
           Making(u, i, h, a)' => Making(u, i, h, a) \/ (a = "destroy" /\ Making(u, i, h, "schedule"))
  PROVE  InstancesFit'
<1>1. SUFFICES ASSUME NEW h \in Holder, Real(h)
               PROVE  InstanceFits(h)'
  BY DEF InstancesFit, Real
<1>2. InstanceFits(h)
  BY <1>1 DEF InstancesFit
<1>3. ASSUME NEW u \in Thread, NEW i \in Nat, NEW a \in {"construct", "destroyed"}, Making(u, i, h, a)'
      PROVE  alive[h] = 0
  <2>1. Making(u, i, h, a)
    BY <1>3 DEF Makings
  <2> QED
    BY <1>2, <2>1 DEF InstanceFits
<1>4. ASSUME NEW u \in Thread, NEW i \in Nat, NEW a \in {"schedule", "destroy"}, Making(u, i, h, a)'
      PROVE  alive[h] = 1 /\ turns[h] = 0
  <2>1. Making(u, i, h, a) \/ Making(u, i, h, "schedule")
    BY <1>4 DEF Makings
  <2> QED
    BY <1>2, <2>1 DEF InstanceFits
<1> QED
  BY <1>2, <1>3, <1>4 DEF InstanceFits

-----------------------------------------------------------------------------
(* Each action keeps the invariant *)

DataTyped ==
  /\ there \in [Holder -> BOOLEAN] /\ destroyed \in [Holder -> BOOLEAN]
  /\ alive \in [Holder -> Int] /\ turns \in [Holder -> Nat]
  /\ blocks \in Nat /\ calls \in [Thread -> 0..MaxCalls] /\ terminated \in BOOLEAN
  /\ model \in {"class", "passed"} /\ handler \in BOOLEAN

LEMMA Assembled ==
  /\ IInv <=> StacksFit /\ DataTyped /\ InstancesFit
  /\ IInv' <=> StacksFit' /\ DataTyped' /\ InstancesFit'
BY DEF IInv, LockInv, StacksFit, DataTyped, TypeOK

\* A step of the innermost call that makes no instance, nor destroys it.
LEMMA QuietlyTopped ==
  ASSUME IInv, NEW t \in Thread, stack[t] # <<>>, NEW at \in Ats, NEW guard \in BOOLEAN,
         \/ at \notin Makings \/ at = Top(t).at
         \/ at = "destroy" /\ Top(t).at = "schedule",
         Topped(t, at, guard), at \in PastLock => guard,
         (owner' = owner /\ (guard => Top(t).guard)) \/ Locked(t),
         UNCHANGED <<there, alive, turns, model>>, DataTyped'
  PROVE  IInv'
<1>1. LockInv /\ TypeOK /\ InstancesFit
  BY DEF IInv, LockInv
<1>2. StacksFit'
  BY <1>1, ToppedLocks
<1>3. ASSUME NEW u \in Thread, NEW i \in Nat, NEW h \in Holder, NEW a \in Makings, Making(u, i, h, a)'
      PROVE  Making(u, i, h, a) \/ (a = "destroy" /\ Making(u, i, h, "schedule"))
  <2>1. \/ Making(u, i, h, a)
        \/ u = t /\ i = Len(stack[t]) /\ at = a /\ Top(t).fn = "instance" /\ Top(t).on = h
    BY <1>1, <1>3, ToppedMaking
  <2> QED
    BY <1>1, <1>3, <2>1, TopFacts DEF Making
<1>4. InstancesFit'
  BY <1>1, <1>3, InstancesKept
<1> QED
  BY <1>2, <1>4, Assembled

LEMMA QuietlyPopped ==
  ASSUME IInv, NEW t \in Thread, stack[t] # <<>>, Popped(t),
         owner' = owner \/ Unlocked(t),
         UNCHANGED <<there, alive, turns, model>>, DataTyped'
  PROVE  IInv'
<1>1. LockInv /\ TypeOK /\ InstancesFit
  BY DEF IInv, LockInv
<1>2. StacksFit'
  BY <1>1, PoppedLocks
<1>3. InstancesFit'
  BY <1>1, PoppedMaking, InstancesKept
<1> QED
  BY <1>2, <1>3, Assembled

\* The innermost call, at what it is.
LEMMA AtTop ==
  ASSUME IInv, NEW t \in Thread, NEW fns, NEW at, At(t, fns, at)
  PROVE  /\ TypeOK /\ DataTyped /\ stack[t] # <<>>
         /\ Top(t) \in Frame /\ Top(t).fn \in fns /\ Top(t).at = at
         /\ at \in PastLock => Top(t).guard
         /\ Top(t).on \in Holder
<1>1. TypeOK /\ FramesFit /\ DataTyped
  BY Assembled DEF IInv, LockInv
<1>2. stack[t] # <<>> /\ Top(t).fn \in fns /\ Top(t).at = at
  BY DEF At
<1>3. Top(t) \in Frame /\ FrameFits(Top(t))
  BY <1>1, <1>2, TopFacts DEF FramesFit
<1> QED
  BY <1>1, <1>2, <1>3 DEF FrameFits, PastLock, Frame

LEMMA Call_Keeps ==
  ASSUME IInv, NEW t \in Thread, Call(t)
  PROVE  IInv'
<1>1. LockInv /\ TypeOK /\ InstancesFit /\ DataTyped
  BY Assembled DEF IInv, LockInv
<1>2. PICK f \in [fn: Served, on: {Allocator}] \cup [fn: {"instance", "use"}, on: Host] :
        /\ f.fn = "delete" => blocks > 0
        /\ blocks' = IF f.fn = "delete" THEN blocks - 1 ELSE blocks
        /\ stack' = [stack EXCEPT ![t] = Append(@, Enter(f.fn, f.on))]
  BY DEF Call
<1>3. /\ calls[t] < MaxCalls /\ calls' = [calls EXCEPT ![t] = @ + 1]
      /\ UNCHANGED <<owner, there, destroyed, alive, turns, terminated, model, handler>>
  BY DEF Call, data, program, fixed
<1>4. f.fn \in Served \cup {"instance", "use"} /\ f.on \in Holder /\ (f.fn \in Served => f.on = Allocator)
  BY DEF Holder, Served
<1>5. NewCall(Enter(f.fn, f.on))
  BY <1>4 DEF NewCall
<1>6. PICK g \in Frame : g = Enter(f.fn, f.on)
  BY <1>5, NewCallFacts
<1>7. stack' = [stack EXCEPT ![t] = Append(@, g)]
  BY <1>2, <1>6
<1>8. Pushed(t)
  <2>1. /\ Moved(t, Len(stack[t]) + 1)
        /\ \A i \in 1..Len(stack[t]) : stack'[t][i] = stack[t][i]
        /\ stack'[t][Len(stack[t]) + 1] = g
    BY <1>1, <1>7, FramesOfCall
  <2> QED
    BY <1>5, <1>6, <2>1 DEF Pushed
<1>9. StacksFit'
  BY <1>1, <1>3, <1>8, PushedLocks
<1>10. InstancesFit'
  BY <1>1, <1>3, <1>8, PushedMaking, InstancesKept
<1>11. DataTyped'
  <2>1. blocks' \in Nat
    BY <1>1, <1>2 DEF DataTyped
  <2>2. calls' \in [Thread -> 0..MaxCalls]
    BY <1>1, <1>3, SharedAssumption DEF DataTyped
  <2> QED
    BY <1>1, <1>3, <2>1, <2>2 DEF DataTyped
<1> QED
  BY <1>9, <1>10, <1>11, Assembled

LEMMA Serve_Keeps ==
  ASSUME IInv, NEW t \in Thread, Serve(t)
  PROVE  IInv'
<1>1. TypeOK /\ DataTyped /\ stack[t] # <<>>
  BY AtTop DEF Serve
<1>2. Topped(t, "inside", TRUE)
  BY <1>1, Types, ToppedByInvoke DEF Serve, Ats
<1>3. Locked(t) /\ UNCHANGED <<there, destroyed, alive, turns, blocks, calls, terminated, model, handler>>
  BY DEF Serve, data, program, fixed
<1>4. DataTyped'
  BY <1>1, <1>3 DEF DataTyped
<1> QED
  BY <1>1, <1>2, <1>3, <1>4, QuietlyTopped DEF Ats, Makings

LEMMA RequestsGuarded ==
  ASSUME IInv, NEW t \in Thread, Requests(t)
  PROVE  stack[t] # <<>> /\ Top(t).guard /\ Top(t) \in Frame /\ Top(t).at \in Ats
BY AtTop DEF Requests, PastLock, Frame, Ats

LEMMA CallHandler_Keeps ==
  ASSUME IInv, NEW t \in Thread, CallHandler(t)
  PROVE  IInv'
<1>1. TypeOK /\ DataTyped /\ stack[t] # <<>> /\ Top(t).guard /\ Top(t).at \in Ats
  BY Assembled, RequestsGuarded DEF CallHandler, IInv, LockInv
<1>2. Topped(t, Top(t).at, TRUE)
  BY <1>1, Types, ToppedByInvoke DEF CallHandler, Served
<1>3. /\ calls[t] < MaxCalls /\ calls' = [calls EXCEPT ![t] = @ + 1]
      /\ UNCHANGED <<owner, there, destroyed, alive, turns, blocks, terminated, model, handler>>
  BY DEF CallHandler, data, program, fixed
<1>4. DataTyped'
  BY <1>1, <1>3, SharedAssumption DEF DataTyped
<1> QED
  BY <1>1, <1>2, <1>3, <1>4, QuietlyTopped

LEMMA Served_Returns_Keeps ==
  ASSUME IInv, NEW t \in Thread, Served_Returns(t)
  PROVE  IInv'
<1>1. TypeOK /\ DataTyped /\ stack[t] # <<>>
  BY AtTop DEF Served_Returns
<1>2. Popped(t)
  BY <1>1, PoppedByReturn DEF Served_Returns
<1>3. Unlocked(t) /\ UNCHANGED <<there, destroyed, alive, turns, calls, terminated, model, handler>>
  BY DEF Served_Returns, data, program, fixed
<1>4. blocks' \in {blocks, blocks + 1}
  BY DEF Served_Returns
<1>5. DataTyped'
  BY <1>1, <1>3, <1>4 DEF DataTyped
<1> QED
  BY <1>1, <1>2, <1>3, <1>5, QuietlyPopped

LEMMA ServedThrows_Keeps ==
  ASSUME IInv, NEW t \in Thread, ServedThrows(t)
  PROVE  IInv'
<1>1. TypeOK /\ DataTyped /\ stack[t] # <<>> /\ Top(t).guard
  BY AtTop DEF ServedThrows, PastLock
<1>2. Topped(t, "unwind", TRUE)
  BY <1>1, ToppedByGoto DEF ServedThrows, Ats
<1>3. UNCHANGED <<owner, there, destroyed, alive, turns, blocks, calls, terminated, model, handler>>
  BY DEF ServedThrows, data, program, fixed
<1>4. DataTyped'
  BY <1>1, <1>3 DEF DataTyped
<1> QED
  BY <1>1, <1>2, <1>3, <1>4, QuietlyTopped DEF Ats, Makings

LEMMA Look_Keeps ==
  ASSUME IInv, NEW t \in Thread, Look(t)
  PROVE  IInv'
<1>1. TypeOK /\ DataTyped /\ stack[t] # <<>>
  BY AtTop DEF Look
<1>2. UNCHANGED <<owner, there, destroyed, alive, turns, blocks, calls, terminated, model, handler>>
  BY DEF Look, data, program, fixed
<1>3. DataTyped'
  BY <1>1, <1>2 DEF DataTyped
<1>4. CASE Return(t)
  BY <1>1, <1>2, <1>3, <1>4, PoppedByReturn, QuietlyPopped
<1>5. CASE Goto(t, "lock", FALSE)
  <2>1. Topped(t, "lock", FALSE)
    BY <1>1, <1>5, ToppedByGoto DEF Ats
  <2> QED
    BY <1>1, <1>2, <1>3, <2>1, QuietlyTopped DEF Ats, Makings, PastLock
<1> QED
  BY <1>4, <1>5 DEF Look

LEMMA LockMake_Keeps ==
  ASSUME IInv, NEW t \in Thread, LockMake(t)
  PROVE  IInv'
<1>1. TypeOK /\ DataTyped /\ stack[t] # <<>>
  BY AtTop DEF LockMake
<1>2. Topped(t, "recheck", TRUE)
  BY <1>1, ToppedByGoto DEF LockMake, Ats
<1>3. Locked(t) /\ UNCHANGED <<there, destroyed, alive, turns, blocks, calls, terminated, model, handler>>
  BY DEF LockMake, data, program, fixed
<1>4. DataTyped'
  BY <1>1, <1>3 DEF DataTyped
<1> QED
  BY <1>1, <1>2, <1>3, <1>4, QuietlyTopped DEF Ats, Makings

LEMMA LookAgain_Keeps ==
  ASSUME IInv, NEW t \in Thread, LookAgain(t)
  PROVE  IInv'
<1> DEFINE h == Top(t).on
<1>1. /\ TypeOK /\ DataTyped /\ stack[t] # <<>> /\ Top(t).guard
      /\ h \in Holder /\ LockInv /\ InstancesFit
  BY AtTop DEF LookAgain, PastLock, IInv
<1>2. /\ destroyed' \in [Holder -> BOOLEAN]
      /\ UNCHANGED <<owner, there, alive, turns, blocks, calls, terminated, model, handler>>
  BY <1>1 DEF LookAgain, program, fixed, DataTyped
<1>3. DataTyped'
  BY <1>1, <1>2 DEF DataTyped
<1>4. CASE Goto(t, "leave", TRUE)
  <2>1. Topped(t, "leave", TRUE)
    BY <1>1, <1>4, ToppedByGoto DEF Ats
  <2> QED
    BY <1>1, <1>2, <1>3, <2>1, QuietlyTopped DEF Ats, Makings
<1>5. CASE Goto(t, "unwind", TRUE)
  <2>1. Topped(t, "unwind", TRUE)
    BY <1>1, <1>5, ToppedByGoto DEF Ats
  <2> QED
    BY <1>1, <1>2, <1>3, <2>1, QuietlyTopped DEF Ats, Makings
<1>6. CASE ~there[h] /\ (Invoke(t, "construct", TRUE, Enter("new", Allocator)) \/ Goto(t, "construct", TRUE))
  <2>1. Topped(t, "construct", TRUE)
    <3>1. CASE Goto(t, "construct", TRUE)
      BY <1>1, <3>1, ToppedByGoto DEF Ats
    <3>2. CASE Invoke(t, "construct", TRUE, Enter("new", Allocator))
      BY <1>1, <3>2, Types, ToppedByInvoke DEF Ats, Served
    <3> QED
      BY <1>6, <3>1, <3>2
  <2>2. StacksFit'
    BY <1>1, <1>2, <2>1, ToppedLocks DEF Ats
  <2>3. ASSUME NEW g \in Holder, Real(g), NEW u \in Thread, NEW i \in Nat,
               NEW a \in Makings, Making(u, i, g, a)'
        PROVE  Making(u, i, g, a) \/ (a = "construct" /\ ~there[g])
    <3>1. "construct" \in Ats
      BY DEF Ats
    <3>2. MakersAfter(t, "construct")
      BY <1>1, <2>1, <3>1, ToppedMakers
    <3>3. \/ Making(u, i, g, a)
          \/ "construct" = a /\ Top(t).on = g
      BY <2>3, <3>2 DEF MakersAfter
    <3> QED
      BY <1>6, <3>3
  <2>4. ASSUME NEW g \in Holder, Real(g)
        PROVE  InstanceFits(g)'
    <3>1. InstanceFits(g)
      BY <1>1, <2>4 DEF InstancesFit
    <3>2. ~there[g] => alive[g] = 0
      BY <3>1 DEF InstanceFits
    <3>3. ASSUME NEW u \in Thread, NEW i \in Nat, NEW a \in {"construct", "destroyed"}, Making(u, i, g, a)'
          PROVE  alive[g] = 0
      <4>1. Making(u, i, g, a) \/ ~there[g]
        BY <2>3, <2>4, <3>3 DEF Makings
      <4> QED
        BY <3>1, <3>2, <4>1 DEF InstanceFits
    <3>4. ASSUME NEW u \in Thread, NEW i \in Nat, NEW a \in {"schedule", "destroy"}, Making(u, i, g, a)'
          PROVE  alive[g] = 1 /\ turns[g] = 0
      <4>1. Making(u, i, g, a)
        BY <2>3, <2>4, <3>4 DEF Makings
      <4> QED
        BY <3>1, <4>1 DEF InstanceFits
    <3> QED
      BY <1>2, <3>1, <3>3, <3>4 DEF InstanceFits
  <2>5. InstancesFit'
    BY <1>2, <2>4 DEF InstancesFit, Real
  <2> QED
    BY <1>3, <2>2, <2>5, Assembled
<1> QED
  BY <1>4, <1>5, <1>6 DEF LookAgain

LEMMA Discarded ==
  ASSUME TypeOK, NEW t \in Thread, stack[t] # <<>>, Discard(t)
  PROVE  Topped(t, "unwind", TRUE)
<1>1. CASE Goto(t, "unwind", TRUE)
  BY <1>1, ToppedByGoto DEF Ats
<1>2. CASE Invoke(t, "unwind", TRUE, Enter("delete", Allocator))
  BY <1>2, Types, ToppedByInvoke DEF Ats, Served
<1> QED
  BY <1>1, <1>2 DEF Discard

\* The innermost call is the only one that makes its instance.
LEMMA OnlyMaker ==
  ASSUME IInv, NEW t \in Thread, NEW b \in Makings, At(t, {"instance"}, b),
         NEW h \in Holder, h = Top(t).on, Real(h),
         NEW u \in Thread, NEW i \in Nat, NEW a \in Makings, Making(u, i, h, a)
  PROVE  u = t /\ i = Len(stack[t])
<1>1. TypeOK /\ stack[t] # <<>> /\ LockInv
  BY AtTop DEF IInv
<1>2. Making(t, Len(stack[t]), h, b) /\ Len(stack[t]) \in Nat
  BY <1>1, TopFacts DEF At, Making
<1>3. a \in PastLock /\ b \in PastLock
  BY DEF Makings, PastLock
<1> QED
  BY <1>1, <1>2, <1>3, OneMaker

\* What the data of h are where its instance is made at a place.
FitsAt(at, here, living, queued) ==
  /\ living \in 0..1 /\ queued \in 0..living /\ (living = 1 => here)
  /\ at \in {"construct", "destroyed"} => living = 0
  /\ at \in {"schedule", "destroy"} => living = 1 /\ queued = 0

\* The maker's steps keep its instance fit, and leave the others' alone.
LEMMA MakerKeeps ==
  ASSUME IInv, NEW t \in Thread, NEW b \in Makings, At(t, {"instance"}, b),
         NEW h \in Holder, h = Top(t).on, NEW at \in Ats, Topped(t, at, TRUE),
         owner' = owner, model' = model, DataTyped',
         FitsAt(b, there[h], alive[h], turns[h]) => FitsAt(at, there'[h], alive'[h], turns'[h]),
         \A g \in Holder \ {h} : there'[g] = there[g] /\ alive'[g] = alive[g] /\ turns'[g] = turns[g]
  PROVE  IInv'
<1> DEFINE n == Len(stack[t])
<1>1. TypeOK /\ stack[t] # <<>> /\ LockInv /\ InstancesFit /\ Top(t).guard
  <2>1. b \in PastLock
    BY DEF Makings, PastLock
  <2> QED
    BY <2>1, AtTop DEF IInv
<1>2. StacksFit'
  BY <1>1, ToppedLocks
<1>3. Making(t, n, h, b) /\ n \in Nat
  BY <1>1, TopFacts DEF At, Making
<1>4. \A u \in Thread, i \in Nat, g \in Holder, a \in Makings :
        Making(u, i, g, a)' =>
          \/ Making(u, i, g, a) /\ ~(u = t /\ i = n)
          \/ at = a /\ g = h
  <2>1. MakersAfter(t, at)
    BY <1>1, ToppedMakers
  <2> QED
    BY <2>1 DEF MakersAfter
<1>5. ASSUME NEW g \in Holder, Real(g) PROVE InstanceFits(g)'
  <2>1. InstanceFits(g)
    BY <1>1, <1>5 DEF InstancesFit
  <2>2. CASE g = h
    <3>1. FitsAt(b, there[h], alive[h], turns[h])
      BY <1>3, <2>1, <2>2 DEF InstanceFits, FitsAt
    <3>2. FitsAt(at, there'[h], alive'[h], turns'[h])
      BY <3>1
    <3>3. \A u \in Thread, i \in Nat, a \in Makings : Making(u, i, h, a)' => a = at
      BY <1>4, <1>5, <2>2, OnlyMaker
    <3>4. {"construct", "destroyed"} \subseteq Makings /\ {"schedule", "destroy"} \subseteq Makings
      BY DEF Makings
    <3> QED
      BY <2>2, <3>2, <3>3, <3>4 DEF InstanceFits, FitsAt
  <2>3. CASE g # h
    <3>1. \A u \in Thread, i \in Nat, a \in Makings : Making(u, i, g, a)' => Making(u, i, g, a)
      BY <1>4, <2>3
    <3>2. {"construct", "destroyed"} \subseteq Makings /\ {"schedule", "destroy"} \subseteq Makings
      BY DEF Makings
    <3> QED
      BY <2>1, <2>3, <3>1, <3>2 DEF InstanceFits
  <2> QED
    BY <2>2, <2>3
<1>6. InstancesFit'
  BY <1>5 DEF InstancesFit, Real
<1> QED
  BY <1>2, <1>6, Assembled

LEMMA Constructed_Keeps ==
  ASSUME IInv, NEW t \in Thread, Constructed(t)
  PROVE  IInv'
<1>1. /\ TypeOK /\ DataTyped /\ stack[t] # <<>>
      /\ Top(t).on \in Holder /\ At(t, {"instance"}, "construct")
  BY AtTop DEF Constructed
<1>2. PICK h \in Holder : h = Top(t).on
  BY <1>1
<1>3. /\ there' = [there EXCEPT ![h] = TRUE]
      /\ alive' = [alive EXCEPT ![h] = @ + 1]
      /\ UNCHANGED <<owner, destroyed, turns, blocks, calls, terminated, model, handler>>
  BY <1>2 DEF Constructed, program, fixed
<1>4. "construct" \in Makings /\ "schedule" \in Ats /\ Topped(t, "schedule", TRUE)
  BY <1>1, ToppedByGoto DEF Constructed, Makings, Ats
<1>5. DataTyped'
  BY <1>1, <1>3 DEF DataTyped
<1>6. FitsAt("construct", there[h], alive[h], turns[h]) => FitsAt("schedule", there'[h], alive'[h], turns'[h])
  BY <1>1, <1>3 DEF DataTyped, FitsAt
<1>7. \A g \in Holder \ {h} : there'[g] = there[g] /\ alive'[g] = alive[g] /\ turns'[g] = turns[g]
  BY <1>1, <1>3 DEF DataTyped
<1> QED
  BY <1>1, <1>2, <1>3, <1>4, <1>5, <1>6, <1>7, MakerKeeps

LEMMA ConstructorThrows_Keeps ==
  ASSUME IInv, NEW t \in Thread, ConstructorThrows(t)
  PROVE  IInv'
<1>1. TypeOK /\ DataTyped /\ stack[t] # <<>> /\ Top(t).guard
  BY AtTop DEF ConstructorThrows, PastLock
<1>2. Topped(t, "unwind", TRUE)
  BY <1>1, Discarded DEF ConstructorThrows
<1>3. UNCHANGED <<owner, there, destroyed, alive, turns, blocks, calls, terminated, model, handler>>
  BY DEF ConstructorThrows, data, program, fixed
<1>4. DataTyped'
  BY <1>1, <1>3 DEF DataTyped
<1> QED
  BY <1>1, <1>2, <1>3, <1>4, QuietlyTopped DEF Ats, Makings

LEMMA Scheduled_Keeps ==
  ASSUME IInv, NEW t \in Thread, Scheduled(t)
  PROVE  IInv'
<1>1. /\ TypeOK /\ DataTyped /\ stack[t] # <<>>
      /\ Top(t).on \in Holder /\ At(t, {"instance"}, "schedule")
  BY AtTop DEF Scheduled
<1>2. PICK h \in Holder : h = Top(t).on
  BY <1>1
<1>3. /\ turns' = [turns EXCEPT ![h] = @ + 1]
      /\ UNCHANGED <<owner, there, destroyed, alive, blocks, calls, terminated, model, handler>>
  BY <1>2 DEF Scheduled, program, fixed
<1>4. "schedule" \in Makings /\ "leave" \in Ats /\ Topped(t, "leave", TRUE)
  BY <1>1, ToppedByGoto DEF Scheduled, Makings, Ats
<1>5. DataTyped'
  BY <1>1, <1>3 DEF DataTyped
<1>6. FitsAt("schedule", there[h], alive[h], turns[h]) => FitsAt("leave", there'[h], alive'[h], turns'[h])
  BY <1>1, <1>3 DEF DataTyped, FitsAt
<1>7. \A g \in Holder \ {h} : there'[g] = there[g] /\ alive'[g] = alive[g] /\ turns'[g] = turns[g]
  BY <1>1, <1>3 DEF DataTyped
<1> QED
  BY <1>1, <1>2, <1>3, <1>4, <1>5, <1>6, <1>7, MakerKeeps

LEMMA NoTracker_Keeps ==
  ASSUME IInv, NEW t \in Thread, NoTracker(t)
  PROVE  IInv'
<1>1. TypeOK /\ DataTyped /\ stack[t] # <<>> /\ Top(t).guard
  BY AtTop DEF NoTracker, PastLock
<1>2. Topped(t, "unwind", TRUE)
  BY <1>1, ToppedByGoto DEF NoTracker, Ats
<1>3. UNCHANGED <<owner, there, destroyed, alive, turns, blocks, calls, terminated, model, handler>>
  BY DEF NoTracker, data, program, fixed
<1>4. DataTyped'
  BY <1>1, <1>3 DEF DataTyped
<1> QED
  BY <1>1, <1>2, <1>3, <1>4, QuietlyTopped DEF Ats, Makings

LEMMA NotQueued_Keeps ==
  ASSUME IInv, NEW t \in Thread, NotQueued(t)
  PROVE  IInv'
<1>1. TypeOK /\ DataTyped /\ stack[t] # <<>> /\ Top(t).guard /\ Top(t).at = "schedule"
  BY AtTop DEF NotQueued, PastLock
<1>2. Topped(t, "destroy", TRUE)
  BY <1>1, ToppedByGoto DEF NotQueued, Ats
<1>3. UNCHANGED <<owner, there, destroyed, alive, turns, blocks, calls, terminated, model, handler>>
  BY DEF NotQueued, data, program, fixed
<1>4. DataTyped'
  BY <1>1, <1>3 DEF DataTyped
<1> QED
  BY <1>1, <1>2, <1>3, <1>4, QuietlyTopped DEF Ats, Makings

LEMMA DestroyTops ==
  ASSUME TypeOK, NEW t \in Thread, stack[t] # <<>>, Destroy(t)
  PROVE  Topped(t, "destroyed", TRUE)
<1>1. CASE Goto(t, "destroyed", TRUE)
  BY <1>1, ToppedByGoto DEF Ats
<1>2. CASE Invoke(t, "destroyed", TRUE, Enter("delete", Allocator))
  BY <1>2, Types, ToppedByInvoke DEF Ats, Served
<1> QED
  BY <1>1, <1>2 DEF Destroy

LEMMA Destroy_Keeps ==
  ASSUME IInv, NEW t \in Thread, Destroy(t)
  PROVE  IInv'
<1>1. /\ TypeOK /\ DataTyped /\ stack[t] # <<>>
      /\ Top(t).on \in Holder /\ At(t, {"instance"}, "destroy")
  BY AtTop DEF Destroy
<1>2. PICK h \in Holder : h = Top(t).on
  BY <1>1
<1>3. /\ alive' = [alive EXCEPT ![h] = @ - 1]
      /\ UNCHANGED <<owner, there, destroyed, turns, blocks, calls, terminated, model, handler>>
  BY <1>2 DEF Destroy, program, fixed
<1>4. "destroy" \in Makings /\ "destroyed" \in Ats /\ Topped(t, "destroyed", TRUE)
  BY <1>1, DestroyTops DEF Destroy, Makings, Ats
<1>5. DataTyped'
  BY <1>1, <1>3 DEF DataTyped
<1>6. FitsAt("destroy", there[h], alive[h], turns[h]) => FitsAt("destroyed", there'[h], alive'[h], turns'[h])
  BY <1>1, <1>3 DEF DataTyped, FitsAt
<1>7. \A g \in Holder \ {h} : there'[g] = there[g] /\ alive'[g] = alive[g] /\ turns'[g] = turns[g]
  BY <1>1, <1>3 DEF DataTyped
<1> QED
  BY <1>1, <1>2, <1>3, <1>4, <1>5, <1>6, <1>7, MakerKeeps

LEMMA Destroyed_Keeps ==
  ASSUME IInv, NEW t \in Thread, Destroyed(t)
  PROVE  IInv'
<1>1. /\ TypeOK /\ DataTyped /\ stack[t] # <<>>
      /\ Top(t).on \in Holder /\ At(t, {"instance"}, "destroyed")
  BY AtTop DEF Destroyed
<1>2. PICK h \in Holder : h = Top(t).on
  BY <1>1
<1>3. /\ there' = [there EXCEPT ![h] = FALSE] /\ destroyed' = [destroyed EXCEPT ![h] = TRUE]
      /\ UNCHANGED <<owner, alive, turns, blocks, calls, terminated, model, handler>>
  BY <1>2 DEF Destroyed, program, fixed
<1>4. "destroyed" \in Makings /\ "unwind" \in Ats /\ Topped(t, "unwind", TRUE)
  BY <1>1, ToppedByGoto DEF Destroyed, Makings, Ats
<1>5. DataTyped'
  BY <1>1, <1>3 DEF DataTyped
<1>6. FitsAt("destroyed", there[h], alive[h], turns[h]) => FitsAt("unwind", there'[h], alive'[h], turns'[h])
  BY <1>1, <1>3 DEF DataTyped, FitsAt
<1>7. \A g \in Holder \ {h} : there'[g] = there[g] /\ alive'[g] = alive[g] /\ turns'[g] = turns[g]
  BY <1>1, <1>3 DEF DataTyped
<1> QED
  BY <1>1, <1>2, <1>3, <1>4, <1>5, <1>6, <1>7, MakerKeeps

LEMMA Share_Keeps ==
  ASSUME IInv, NEW t \in Thread, Share(t)
  PROVE  IInv'
<1>1. TypeOK /\ DataTyped /\ stack[t] # <<>> /\ Top(t).on \in Holder
  BY AtTop DEF Share
<1>2. Topped(t, "lock", FALSE)
  BY <1>1, ToppedByInvoke DEF Share, Ats, Served
<1>3. UNCHANGED <<owner, there, destroyed, alive, turns, blocks, calls, terminated, model, handler>>
  BY DEF Share, data, program, fixed
<1>4. DataTyped'
  BY <1>1, <1>3 DEF DataTyped
<1> QED
  BY <1>1, <1>2, <1>3, <1>4, QuietlyTopped DEF Ats, Makings, PastLock

LEMMA LockObject_Keeps ==
  ASSUME IInv, NEW t \in Thread, LockObject(t)
  PROVE  IInv'
<1>1. TypeOK /\ DataTyped /\ stack[t] # <<>>
  BY AtTop DEF LockObject
<1>2. Topped(t, "inside", TRUE)
  BY <1>1, ToppedByGoto DEF LockObject, Ats
<1>3. Locked(t) /\ UNCHANGED <<there, destroyed, alive, turns, blocks, calls, terminated, model, handler>>
  BY DEF LockObject, data, program, fixed
<1>4. DataTyped'
  BY <1>1, <1>3 DEF DataTyped
<1> QED
  BY <1>1, <1>2, <1>3, <1>4, QuietlyTopped DEF Ats, Makings

LEMMA Unlock_Keeps ==
  ASSUME IInv, NEW t \in Thread, Unlock(t)
  PROVE  IInv'
<1>1. TypeOK /\ DataTyped /\ stack[t] # <<>>
  BY AtTop DEF Unlock
<1>2. Popped(t)
  BY <1>1, PoppedByReturn DEF Unlock
<1>3. Unlocked(t) /\ UNCHANGED <<there, destroyed, alive, turns, blocks, calls, terminated, model, handler>>
  BY DEF Unlock, data, program, fixed
<1>4. DataTyped'
  BY <1>1, <1>3 DEF DataTyped
<1> QED
  BY <1>1, <1>2, <1>3, <1>4, QuietlyPopped

LEMMA Unwind_Keeps ==
  ASSUME IInv, NEW t \in Thread, Unwind(t)
  PROVE  IInv'
<1>1. TypeOK /\ DataTyped /\ stack[t] # <<>>
  BY Assembled DEF Unwind, IInv, LockInv
<1>2. Popped(t)
  BY <1>1, PoppedByThrow DEF Unwind
<1>3. Unlocked(t) /\ UNCHANGED <<there, destroyed, alive, turns, blocks, calls, model, handler>>
  BY DEF Unwind, data, fixed
<1>4. terminated' \in BOOLEAN
  BY <1>1 DEF Unwind, Throw, DataTyped
<1>5. DataTyped'
  BY <1>1, <1>3, <1>4 DEF DataTyped
<1> QED
  BY <1>1, <1>2, <1>3, <1>5, QuietlyPopped

-----------------------------------------------------------------------------
(* The theorems *)

LEMMA InitFits == Init => IInv
<1> SUFFICES ASSUME Init PROVE IInv
  OBVIOUS
<1>1. \A t \in Thread : stack[t] = <<>> /\ Len(stack[t]) = 0
  BY EmptySeq DEF Init
<1>2. \A t \in Thread : 1..Len(stack[t]) = {}
  BY <1>1
<1>3. TypeOK
  <2>1. /\ there \in [Holder -> BOOLEAN] /\ destroyed \in [Holder -> BOOLEAN]
        /\ terminated \in BOOLEAN /\ handler \in BOOLEAN
    BY DEF Init
  <2> QED
    BY <2>1, EmptySeq, SharedAssumption DEF Init, TypeOK
<1>4. FramesFit /\ LocksFit
  BY <1>2 DEF FramesFit, LocksFit, Holds
<1>5. InstancesFit
  BY <1>2 DEF Init, InstancesFit, InstanceFits, Making
<1> QED
  BY <1>3, <1>4, <1>5 DEF IInv, LockInv

LEMMA StepFits == IInv /\ [Next]_vars => IInv'
<1> SUFFICES ASSUME IInv, [Next]_vars PROVE IInv'
  OBVIOUS
<1>1. CASE UNCHANGED vars
  <2>1. UNCHANGED <<stack, owner, there, destroyed, alive, turns, blocks, calls, terminated, model, handler>>
    BY <1>1 DEF vars
  <2>2. TypeOK /\ FramesFit /\ LocksFit /\ InstancesFit
    BY DEF IInv, LockInv
  <2>3. TypeOK' /\ FramesFit'
    BY <2>1, <2>2 DEF TypeOK, FramesFit
  <2>4. \A u \in Thread, i \in Nat, m \in Mutex : Holds(u, i, m)' => Holds(u, i, m)
    BY <2>1, HoldsIs
  <2>5. LocksFit'
    BY <2>1, <2>2, <2>4, LocksKept
  <2>6. \A u \in Thread, i \in Nat, h \in Holder, a \in Makings :
          Making(u, i, h, a)' => Making(u, i, h, a)
    BY <2>1 DEF Making
  <2>7. InstancesFit'
    BY <2>1, <2>2, <2>6, InstancesKept
  <2> QED
    BY <2>3, <2>5, <2>7 DEF IInv, LockInv
<1>2. ASSUME NEW t \in Thread, Call(t) \/ Proceed(t) PROVE IInv'
  BY <1>2, Call_Keeps, Serve_Keeps, CallHandler_Keeps, Served_Returns_Keeps, ServedThrows_Keeps,
     Look_Keeps, LockMake_Keeps, LookAgain_Keeps, Constructed_Keeps, ConstructorThrows_Keeps,
     Scheduled_Keeps, NoTracker_Keeps, NotQueued_Keeps, Destroy_Keeps, Destroyed_Keeps, Share_Keeps, LockObject_Keeps,
     Unlock_Keeps, Unwind_Keeps DEF Proceed, Step
<1> QED
  BY <1>1, <1>2 DEF Next

\* Whatever the threads do, each call that is past its lock has it, the
\* thread that has a mutex is the one whose call is to release it, and each
\* holder's data fit what is being made of it.
THEOREM Invariance == Spec => []IInv
<1> QED
  BY InitFits, StepFits, PTL DEF Spec

\* At most one object of each holder, and one turn for it (OneInstance of the
\* run "threads"), for any number of threads and hosts.
THEOREM OneInstanceEach == Spec => []OneInstance
<1>1. IInv => OneInstance
  <2> SUFFICES ASSUME IInv PROVE OneInstance
    OBVIOUS
  <2>1. ASSUME NEW h \in Holder, h \in Host \/ model = "class"
        PROVE  alive[h] \in 0..1 /\ turns[h] \in 0..alive[h]
    <3>1. InstanceFits(h)
      BY <2>1 DEF IInv, InstancesFit, Real
    <3> QED
      BY <3>1 DEF InstanceFits
  <2> QED
    BY <2>1 DEF OneInstance, IInv, LockInv
<1> QED
  BY <1>1, Invariance, PTL

\* The calls that the allocator's mutex guards are in it one at a time
\* (AllocatorOneAtATime of the run "threads"), for any number of threads.
THEOREM AllocatorAlone == Spec => []AllocatorOneAtATime
<1>1. IInv => AllocatorOneAtATime
  <2> DEFINE fns == IF model = "class" THEN Served ELSE {"new", "delete"}
             m == <<"allocator", Allocator>>
  <2> SUFFICES ASSUME IInv, NEW c \in Sections(fns, "inside"), NEW d \in Sections(fns, "inside")
               PROVE  c = d
    BY DEF AllocatorOneAtATime
  <2>1. FramesFit /\ LocksFit /\ m \in Mutex
    BY Types DEF IInv, LockInv
  <2>2. ASSUME NEW e \in Sections(fns, "inside")
        PROVE  /\ e = <<e[1], e[2]>> /\ e[1] \in Thread /\ e[2] \in Nat
               /\ Holds(e[1], e[2], m)
    <3>1. PICK t \in Thread : e \in {t} \X (1..Len(stack[t]))
      BY DEF Sections
    <3>2. e = <<e[1], e[2]>> /\ e[1] = t /\ e[2] \in 1..Len(stack[t])
      BY <3>1
    <3>3. e[2] \in Nat
      BY <3>2
    <3>4. stack[t][e[2]].fn \in fns /\ stack[t][e[2]].at = "inside"
      BY <3>2 DEF Sections
    <3>5. stack[t][e[2]].guard
      BY <2>1, <3>2, <3>4 DEF FramesFit, FrameFits
    <3>6. MutexOf(stack[t][e[2]]) = m
      BY <3>4 DEF MutexOf, Served
    <3> QED
      BY <3>2, <3>3, <3>5, <3>6 DEF Holds
  <2> HIDE DEF m
  <2>3. c[1] = d[1] /\ c[2] = d[2]
    BY <2>1, <2>2 DEF LocksFit
  <2> QED
    BY <2>2, <2>3
<1> QED
  BY <1>1, Invariance, PTL

-----------------------------------------------------------------------------
(* The allocator's turn is queued while no other is *)

\* Which call makes which, from where.
Makes(f, g) ==
  \/ f.fn \in Served /\ f.at = "inside" /\ g.fn = "instance" /\ g.on = Allocator
  \/ f.fn \in {"new", "clear"} /\ f.at = "inside" /\ g.fn = "clear"
  \/ f.fn = "instance" /\ f.at = "schedule" /\ g.fn = "clear"
  \/ f.fn = "instance" /\ f.on = Allocator /\ f.at = "construct" /\ g.fn = "clear"
  \/ f.fn = "instance" /\ f.on \in Host /\ f.at = "construct" /\ g.fn = "new"
  \/ f.fn = "instance" /\ f.on \in Host /\ f.at \in {"unwind", "destroyed"} /\ g.fn = "delete"
  \/ f.fn = "use" /\ f.at = "lock" /\ g.fn = "instance" /\ g.on \in Host
  \/ f.fn = "use" /\ f.at = "inside" /\ g.fn \in {"new", "delete"}

\* Only what has locked its mutex asks for the allocator.
CallsFit ==
  \A t \in Thread :
    /\ stack[t] # <<>> => stack[t][1].fn \in Served \/ stack[t][1].on \in Host
    /\ \A i \in 1..(Len(stack[t]) - 1) : Makes(stack[t][i], stack[t][i + 1])

\* The allocator is there, and no call is making it.
Settled ==
  /\ there[Allocator]
  /\ \A t \in Thread, i \in Nat, a \in Makings : ~Making(t, i, Allocator, a)

\* The call of thread t at depth i has been given the allocator.
Given(t, i) ==
  /\ i \in 1..Len(stack[t])
  /\ \/ /\ stack[t][i].fn = "instance" /\ stack[t][i].on \in Host
        /\ \/ stack[t][i].at = "schedule"
           \/ stack[t][i].at = "construct" /\ i = Len(stack[t])
     \/ /\ stack[t][i].fn = "instance" /\ stack[t][i].on = Allocator
        /\ stack[t][i].at = "leave"
     \/ /\ stack[t][i].fn \in Served /\ stack[t][i].at = "inside"
        /\ i = Len(stack[t]) \/ stack[t][i + 1].fn # "instance"

GivenFit == \A t \in Thread, i \in Nat : Given(t, i) => Settled

ApartInv == IInv /\ CallsFit /\ (model = "class" => GivenFit)

LEMMA HostsDiffer == \A h \in Host : h \in Holder /\ h # Allocator
BY SharedAssumption DEF Holder

LEMMA AllocatorReal == model = "class" => Real(Allocator) /\ Allocator \in Holder
BY Types DEF Real

\* At most one thread is where the allocator's holder has been asked for.
LEMMA AskedAlone ==
  ASSUME IInv, CallsFit, model = "class",
         NEW t \in Thread, NEW i \in 1..Len(stack[t]),
         stack[t][i].fn = "instance", stack[t][i].on = Allocator,
         NEW u \in Thread, NEW j \in 1..Len(stack[u]),
         stack[u][j].fn = "instance", stack[u][j].on = Allocator
  PROVE  t = u /\ i = j
<1> DEFINE m == <<"allocator", Allocator>>
<1>1. TypeOK /\ FramesFit /\ LocksFit /\ m \in Mutex
  BY Types DEF IInv, LockInv
<1>2. ASSUME NEW v \in Thread, NEW k \in 1..Len(stack[v]),
             stack[v][k].fn = "instance", stack[v][k].on = Allocator
      PROVE  k - 1 \in Nat /\ Holds(v, k - 1, m)
  <2>1. stack[v] \in Seq(Frame) /\ Len(stack[v]) \in Nat /\ k \in Nat
    BY <1>1 DEF TypeOK
  <2>2. k # 1
    <3>1. stack[v] # <<>>
      BY <1>2, <2>1
    <3> QED
      BY <1>2, <3>1, HostsDiffer DEF CallsFit, Served
  <2>3. k - 1 \in 1..(Len(stack[v]) - 1) /\ k - 1 \in 1..Len(stack[v]) /\ (k - 1) + 1 = k
    BY <2>1, <2>2
  <2>4. Makes(stack[v][k - 1], stack[v][k])
    BY <2>3 DEF CallsFit
  <2>5. stack[v][k - 1].fn \in Served /\ stack[v][k - 1].at = "inside"
    BY <1>2, <2>4, HostsDiffer DEF Makes
  <2>6. stack[v][k - 1].guard
    BY <1>1, <2>3, <2>5 DEF FramesFit, FrameFits
  <2>7. MutexOf(stack[v][k - 1]) = m
    BY <2>5 DEF MutexOf, Served
  <2> QED
    BY <2>3, <2>6, <2>7 DEF Holds
<1> HIDE DEF m
<1>3. i - 1 \in Nat /\ Holds(t, i - 1, m)
  BY <1>2
<1>4. j - 1 \in Nat /\ Holds(u, j - 1, m)
  BY <1>2
<1>5. t = u
  BY <1>1, <1>3, <1>4 DEF LocksFit
<1>6. i - 1 = j - 1
  BY <1>1, <1>3, <1>4, <1>5 DEF LocksFit
<1> QED
  BY <1>5, <1>6

\* Once it is there for the call that asks for it, nobody makes it.
LEMMA FoundThere ==
  ASSUME IInv, CallsFit, model = "class", NEW t \in Thread, stack[t] # <<>>,
         Top(t).fn = "instance", Top(t).on = Allocator,
         Top(t).at \notin Makings, there[Allocator]
  PROVE  Settled
<1>1. SUFFICES ASSUME NEW u \in Thread, NEW j \in Nat, NEW a \in Makings,
                      Making(u, j, Allocator, a)
               PROVE  FALSE
  BY DEF Settled
<1>2. TypeOK
  BY DEF IInv, LockInv
<1>3. Len(stack[t]) \in 1..Len(stack[t]) /\ Top(t) = stack[t][Len(stack[t])]
  BY <1>2, TopFacts
<1>4. /\ j \in 1..Len(stack[u]) /\ stack[u][j].fn = "instance"
      /\ stack[u][j].on = Allocator /\ stack[u][j].at = a
  BY <1>1 DEF Making
<1>5. t = u /\ Len(stack[t]) = j
  BY <1>3, <1>4, AskedAlone
<1> QED
  BY <1>3, <1>4, <1>5

\* What is given by a call's kind and place, g being the call it makes or "none".
GivenBy(fn, on, at, g) ==
  \/ fn = "instance" /\ on \in Host /\ (at = "schedule" \/ (at = "construct" /\ g = "none"))
  \/ fn = "instance" /\ on = Allocator /\ at = "leave"
  \/ fn \in Served /\ at = "inside" /\ g # "instance"

\* The calls below the innermost are as they were when it goes on.
LEMMA GivenBelow ==
  ASSUME TypeOK, NEW t \in Thread, NEW k \in Nat, Moved(t, k), NEW n \in Nat,
         n <= k, n <= Len(stack[t]),
         \A i \in 1..(n - 1) : stack'[t][i] = stack[t][i],
         n > 0 => stack'[t][n].fn = stack[t][n].fn,
         NEW i \in Nat, i < n, Given(t, i)'
  PROVE  Given(t, i)
<1>1. Len(stack'[t]) = k /\ Len(stack[t]) \in Nat
  BY DEF Moved, TypeOK
<1>2. i \in 1..k
  BY <1>1 DEF Given
<1>3. i \in 1..(n - 1) /\ i \in 1..Len(stack[t]) /\ i # k /\ i # Len(stack[t]) /\ n > 0
  BY <1>1, <1>2
<1>4. stack'[t][i] = stack[t][i]
  BY <1>3
<1>5. i + 1 \in 1..(n - 1) \/ i + 1 = n
  BY <1>3
<1>6. stack'[t][i + 1].fn = stack[t][i + 1].fn
  BY <1>3, <1>5
<1> QED
  BY <1>1, <1>3, <1>4, <1>6 DEF Given

\* The innermost call goes on.
LEMMA GotoCalls ==
  ASSUME TypeOK, CallsFit, NEW t \in Thread, stack[t] # <<>>,
         NEW at \in Ats, NEW guard \in BOOLEAN, Goto(t, at, guard)
  PROVE  /\ CallsFit'
         /\ \A i \in Nat : Given(t, i)' =>
              Given(t, i) \/ GivenBy(Top(t).fn, Top(t).on, at, "none")
<1> DEFINE n == Len(stack[t])
<1>1. /\ Moved(t, n) /\ \A i \in 1..(n - 1) : stack'[t][i] = stack[t][i]
      /\ GoneOn(Top(t), stack'[t][n], at, guard)
  BY FramesOfGoto
<1>2. n \in Nat \ {0} /\ Top(t) = stack[t][n]
  BY TopFacts
<1>3. stack'[t][n].fn = stack[t][n].fn /\ stack'[t][n].on = stack[t][n].on /\ stack'[t][n].at = at
  BY <1>1, <1>2 DEF GoneOn
<1>4. stack' \in [Thread -> Seq(Frame)] /\ Len(stack'[t]) = n
  BY <1>1 DEF Moved
<1> HIDE DEF n
<1>5. CallsFit'
  <2>1. SUFFICES ASSUME NEW u \in Thread
                 PROVE  /\ stack'[u] # <<>> => stack'[u][1].fn \in Served \/ stack'[u][1].on \in Host
                        /\ \A i \in 1..(Len(stack'[u]) - 1) : Makes(stack'[u][i], stack'[u][i + 1])
    BY DEF CallsFit, Makes
  <2>2. CASE u # t
    BY <1>1, <2>2 DEF Moved, CallsFit
  <2>3. CASE u = t
    <3>1. stack[t][1].fn \in Served \/ stack[t][1].on \in Host
      BY DEF CallsFit
    <3>2. stack'[t][1].fn = stack[t][1].fn /\ stack'[t][1].on = stack[t][1].on
      <4>1. 1 \in 1..(n - 1) \/ 1 = n
        BY <1>2
      <4> QED
        BY <1>1, <1>3, <4>1
    <3>3. ASSUME NEW i \in 1..(n - 1) PROVE Makes(stack'[t][i], stack'[t][i + 1])
      <4>1. Makes(stack[t][i], stack[t][i + 1])
        BY DEF CallsFit, n
      <4>2. stack'[t][i] = stack[t][i]
        BY <1>1
      <4>3. stack'[t][i + 1].fn = stack[t][i + 1].fn /\ stack'[t][i + 1].on = stack[t][i + 1].on
        <5>1. i + 1 \in 1..(n - 1) \/ i + 1 = n
          BY <1>2
        <5> QED
          BY <1>1, <1>3, <5>1
      <4> QED
        BY <4>1, <4>2, <4>3 DEF Makes
    <3> QED
      BY <1>4, <2>3, <3>1, <3>2, <3>3
  <2> QED
    BY <2>2, <2>3
<1>6. ASSUME NEW i \in Nat, Given(t, i)'
      PROVE  Given(t, i) \/ GivenBy(Top(t).fn, Top(t).on, at, "none")
  <2>1. CASE i < n
    <3>1. Given(t, i)
      BY <1>1, <1>2, <1>3, <1>6, <2>1, GivenBelow DEF n
    <3> QED
      BY <3>1
  <2>2. CASE i = n
    BY <1>2, <1>3, <1>4, <1>6, <2>2 DEF Given, GivenBy
  <2>3. i \in 1..n
    BY <1>4, <1>6 DEF Given
  <2> QED
    BY <1>2, <2>1, <2>2, <2>3
<1> QED
  BY <1>5, <1>6

\* The innermost call makes another.
LEMMA InvokeCalls ==
  ASSUME TypeOK, CallsFit, NEW t \in Thread, stack[t] # <<>>,
         NEW at \in Ats, NEW guard \in BOOLEAN, NEW g \in Frame, Invoke(t, at, guard, g),
         g.at = "enter",
         \A f : f.fn = Top(t).fn /\ f.on = Top(t).on /\ f.at = at => Makes(f, g)
  PROVE  /\ CallsFit'
         /\ \A i \in Nat : Given(t, i)' =>
              Given(t, i) \/ GivenBy(Top(t).fn, Top(t).on, at, g.fn)
<1> DEFINE n == Len(stack[t])
<1>1. /\ Moved(t, n + 1) /\ \A i \in 1..(n - 1) : stack'[t][i] = stack[t][i]
      /\ GoneOn(Top(t), stack'[t][n], at, guard)
      /\ stack'[t][n + 1] = g
  BY FramesOfInvoke
<1>2. n \in Nat \ {0} /\ Top(t) = stack[t][n]
  BY TopFacts
<1>3. stack'[t][n].fn = stack[t][n].fn /\ stack'[t][n].on = stack[t][n].on /\ stack'[t][n].at = at
  BY <1>1, <1>2 DEF GoneOn
<1>4. stack' \in [Thread -> Seq(Frame)] /\ Len(stack'[t]) = n + 1
  BY <1>1 DEF Moved
<1> HIDE DEF n
<1>5. CallsFit'
  <2>1. SUFFICES ASSUME NEW u \in Thread
                 PROVE  /\ stack'[u] # <<>> => stack'[u][1].fn \in Served \/ stack'[u][1].on \in Host
                        /\ \A i \in 1..(Len(stack'[u]) - 1) : Makes(stack'[u][i], stack'[u][i + 1])
    BY DEF CallsFit, Makes
  <2>2. CASE u # t
    BY <1>1, <2>2 DEF Moved, CallsFit
  <2>3. CASE u = t
    <3>1. stack[t][1].fn \in Served \/ stack[t][1].on \in Host
      BY DEF CallsFit
    <3>2. stack'[t][1].fn = stack[t][1].fn /\ stack'[t][1].on = stack[t][1].on
      <4>1. 1 \in 1..(n - 1) \/ 1 = n
        BY <1>2
      <4> QED
        BY <1>1, <1>3, <4>1
    <3>3. ASSUME NEW i \in 1..n PROVE Makes(stack'[t][i], stack'[t][i + 1])
      <4>1. CASE i # n
        <5>1. i \in 1..(n - 1)
          BY <1>2, <4>1
        <5>2. Makes(stack[t][i], stack[t][i + 1])
          BY <5>1 DEF CallsFit, n
        <5>3. stack'[t][i] = stack[t][i]
          BY <1>1, <5>1
        <5>4. stack'[t][i + 1].fn = stack[t][i + 1].fn /\ stack'[t][i + 1].on = stack[t][i + 1].on
          <6>1. i + 1 \in 1..(n - 1) \/ i + 1 = n
            BY <1>2, <5>1
          <6> QED
            BY <1>1, <1>3, <6>1
        <5> QED
          BY <5>2, <5>3, <5>4 DEF Makes
      <4>2. CASE i = n
        BY <1>1, <1>2, <1>3, <4>2
      <4> QED
        BY <4>1, <4>2
    <3>4. (n + 1) - 1 = n
      BY <1>2
    <3> QED
      BY <1>4, <2>3, <3>1, <3>2, <3>3, <3>4
  <2> QED
    BY <2>2, <2>3
<1>6. ASSUME NEW i \in Nat, Given(t, i)'
      PROVE  Given(t, i) \/ GivenBy(Top(t).fn, Top(t).on, at, g.fn)
  <2>1. CASE i < n
    <3>1. n + 1 \in Nat /\ n <= n + 1 /\ n <= n
      BY <1>2
    <3>2. Given(t, i)
      BY <1>1, <1>2, <1>3, <1>6, <2>1, <3>1, GivenBelow DEF n
    <3> QED
      BY <3>2
  <2>2. CASE i = n
    <3>1. n # n + 1
      BY <1>2
    <3> QED
      BY <1>1, <1>2, <1>3, <1>4, <1>6, <2>2, <3>1 DEF Given, GivenBy
  <2>3. CASE i = n + 1
    BY <1>1, <1>6, <2>3 DEF Given
  <2>4. i \in 1..n + 1
    BY <1>4, <1>6 DEF Given
  <2> QED
    BY <1>2, <2>1, <2>2, <2>3, <2>4
<1> QED
  BY <1>5, <1>6

LEMMA OneTwoMore == \A n \in Nat : n > 0 => n = 1 \/ n = 2 \/ n > 2
OBVIOUS

\* The innermost call is over.
LEMMA OverCalls ==
  ASSUME TypeOK, CallsFit, NEW t \in Thread, stack[t] # <<>>,
         NEW n \in Nat, n = Len(stack[t]), Moved(t, n - 1),
         \A i \in 1..(n - 2) : stack'[t][i] = stack[t][i],
         n > 1 => stack'[t][n - 1].fn = stack[t][n - 1].fn /\ stack'[t][n - 1].on = stack[t][n - 1].on
  PROVE  /\ CallsFit'
         /\ \A i \in Nat : Given(t, i)' => Given(t, i) \/ (i = n - 1 /\ n > 1)
<1>1. n > 0 /\ stack' \in [Thread -> Seq(Frame)] /\ Len(stack'[t]) = n - 1
  BY TopFacts DEF Moved
<1>2. CallsFit'
  <2>1. SUFFICES ASSUME NEW u \in Thread
                 PROVE  /\ stack'[u] # <<>> => stack'[u][1].fn \in Served \/ stack'[u][1].on \in Host
                        /\ \A i \in 1..(Len(stack'[u]) - 1) : Makes(stack'[u][i], stack'[u][i + 1])
    BY DEF CallsFit, Makes
  <2>2. CASE u # t
    BY <2>2 DEF Moved, CallsFit
  <2>3. CASE u = t
    <3>1. stack[t][1].fn \in Served \/ stack[t][1].on \in Host
      BY DEF CallsFit
    <3>2. stack'[t] # <<>> => stack'[t][1].fn = stack[t][1].fn /\ stack'[t][1].on = stack[t][1].on
      <4>1. CASE n = 1
        <5>1. stack'[t] \in Seq(Frame) /\ Len(stack'[t]) = 0
          BY <1>1, <4>1
        <5> QED
          BY <5>1, EmptySeq
      <4>2. CASE n = 2
        <5>1. n - 1 = 1 /\ n > 1
          BY <4>2
        <5> QED
          BY <5>1
      <4>3. CASE n > 2
        <5>1. 1 \in 1..(n - 2)
          BY <4>3
        <5> QED
          BY <5>1
      <4>4. n = 1 \/ n = 2 \/ n > 2
        BY <1>1, OneTwoMore
      <4> QED
        BY <4>1, <4>2, <4>3, <4>4, Zenon
    <3>3. ASSUME NEW i \in 1..(n - 2) PROVE Makes(stack'[t][i], stack'[t][i + 1])
      <4>1. Makes(stack[t][i], stack[t][i + 1])
        <5>1. i \in 1..(n - 1)
          BY <1>1
        <5> QED
          BY <5>1 DEF CallsFit
      <4>2. stack'[t][i] = stack[t][i]
        OBVIOUS
      <4>3. stack'[t][i + 1].fn = stack[t][i + 1].fn /\ stack'[t][i + 1].on = stack[t][i + 1].on
        <5>1. i + 1 \in 1..(n - 2) \/ (i + 1 = n - 1 /\ n > 1)
          BY <1>1
        <5> QED
          BY <5>1
      <4> QED
        BY <4>1, <4>2, <4>3 DEF Makes
    <3>4. (n - 1) - 1 = n - 2
      BY <1>1
    <3> QED
      BY <1>1, <2>3, <3>1, <3>2, <3>3, <3>4
  <2> QED
    BY <2>2, <2>3
<1>3. ASSUME NEW i \in Nat, Given(t, i)', ~(i = n - 1 /\ n > 1) PROVE Given(t, i)
  <2>1. PICK k \in Nat : k = n - 1
    BY <1>1
  <2>2. i \in 1..k
    BY <1>1, <1>3, <2>1 DEF Given
  <2>3. i < k /\ k <= k /\ k <= Len(stack[t]) /\ Moved(t, k) /\ k > 0 /\ n > 1 /\ k - 1 = n - 2
    BY <1>1, <1>3, <2>1, <2>2
  <2>4. stack'[t][k].fn = stack[t][k].fn /\ \A x \in 1..(k - 1) : stack'[t][x] = stack[t][x]
    BY <2>1, <2>3
  <2> QED
    BY <1>3, <2>3, <2>4, GivenBelow
<1> QED
  BY <1>2, <1>3

LEMMA ReturnCalls ==
  ASSUME TypeOK, CallsFit, NEW t \in Thread, stack[t] # <<>>, Return(t)
  PROVE  /\ CallsFit'
         /\ \A i \in Nat : Given(t, i)' =>
              \/ Given(t, i) \/ Top(t).fn = "new"
              \/ Top(t).fn = "instance" /\ Top(t).on = Allocator
<1>1. PICK n \in Nat : n = Len(stack[t])
  BY TopFacts
<1>2. Moved(t, n - 1) /\ \A i \in 1..(n - 1) : stack'[t][i] = stack[t][i]
  BY <1>1, FramesOfReturn
<1>3. n > 0 /\ Top(t) = stack[t][n]
  BY <1>1, TopFacts
<1>4. /\ \A i \in 1..(n - 2) : stack'[t][i] = stack[t][i]
      /\ n > 1 => stack'[t][n - 1] = stack[t][n - 1]
  <2>1. (n > 1 => n - 1 \in 1..(n - 1)) /\ \A i \in 1..(n - 2) : i \in 1..(n - 1)
    BY <1>3
  <2> QED
    BY <1>2, <2>1
<1>5. /\ CallsFit'
      /\ \A i \in Nat : Given(t, i)' => Given(t, i) \/ (i = n - 1 /\ n > 1)
  BY <1>1, <1>2, <1>4, OverCalls
<1>6. ASSUME NEW i \in Nat, Given(t, i)', i = n - 1, n > 1
      PROVE  \/ Given(t, i) \/ Top(t).fn = "new"
             \/ Top(t).fn = "instance" /\ Top(t).on = Allocator
  <2>1. i \in 1..(n - 1) /\ i + 1 = n /\ i # n /\ i \in 1..n
    BY <1>6
  <2>2. Makes(stack[t][i], Top(t))
    BY <1>1, <1>3, <2>1 DEF CallsFit
  <2>3. stack'[t][i] = stack[t][i] /\ Len(stack'[t]) = i
    BY <1>2, <1>4, <1>6 DEF Moved
  <2> QED
    BY <1>1, <1>3, <1>6, <2>1, <2>2, <2>3, HostsDiffer DEF Makes, Given, Served
<1> QED
  BY <1>5, <1>6

LEMMA ThrowCalls ==
  ASSUME TypeOK, CallsFit, NEW t \in Thread, stack[t] # <<>>, Throw(t)
  PROVE  /\ CallsFit'
         /\ \A i \in Nat : Given(t, i)' => Given(t, i)
<1>1. PICK n \in Nat : n = Len(stack[t])
  BY TopFacts
<1>2. n > 0 /\ stack[t] \in Seq(Frame)
  BY <1>1, TopFacts DEF TypeOK
<1>3. /\ Moved(t, n - 1)
      /\ \A i \in 1..(n - 1) : i # n - 1 => stack'[t][i] = stack[t][i]
      /\ n > 1 => Caught(stack[t][n - 1], stack'[t][n - 1])
  BY <1>1, FramesOfThrow
<1>4. \A i \in 1..(n - 2) : stack'[t][i] = stack[t][i]
  <2>1. \A i \in 1..(n - 2) : i \in 1..(n - 1) /\ i # n - 1
    BY <1>2
  <2> QED
    BY <1>3, <2>1
<1>5. n > 1 => stack[t][n - 1] \in Frame /\ n - 1 \in 1..(n - 1)
  <2>1. n > 1 => n - 1 \in 1..n /\ n - 1 \in 1..(n - 1)
    BY <1>2
  <2> QED
    BY <1>1, <1>2, <2>1, ElementOfSeq
<1>6. n > 1 => /\ stack'[t][n - 1].fn = stack[t][n - 1].fn
               /\ stack'[t][n - 1].on = stack[t][n - 1].on
  BY <1>3, <1>5, CaughtFrame
<1>7. /\ CallsFit'
      /\ \A i \in Nat : Given(t, i)' => Given(t, i) \/ (i = n - 1 /\ n > 1)
  BY <1>1, <1>3, <1>4, <1>6, OverCalls
<1>8. ASSUME NEW i \in Nat, Given(t, i)', i = n - 1, n > 1 PROVE FALSE
  <2>1. stack'[t][i].at \in {"unwind", "destroy"}
    BY <1>3, <1>5, <1>8, CaughtFrame
  <2> QED
    BY <2>1, <1>8 DEF Given, Served
<1> QED
  BY <1>7, <1>8

LEMMA PushCalls ==
  ASSUME TypeOK, CallsFit, NEW t \in Thread, NEW g \in Frame, g.at = "enter",
         stack' = [stack EXCEPT ![t] = Append(@, g)],
         g.fn \in Served \/ g.on \in Host,
         stack[t] # <<>> => Makes(Top(t), g), g.fn = "instance" => stack[t] = <<>>
  PROVE  /\ CallsFit'
         /\ \A i \in Nat : Given(t, i)' => Given(t, i)
<1>1. PICK n \in Nat : n = Len(stack[t])
  BY LenProperties DEF TypeOK
<1>2. /\ Moved(t, n + 1) /\ \A i \in 1..n : stack'[t][i] = stack[t][i]
      /\ stack'[t][n + 1] = g
  <2>1. /\ Moved(t, Len(stack[t]) + 1)
        /\ \A i \in 1..Len(stack[t]) : stack'[t][i] = stack[t][i]
        /\ stack'[t][Len(stack[t]) + 1] = g
    BY FramesOfCall
  <2> QED
    BY <1>1, <2>1
<1>3. Len(stack'[t]) = n + 1 /\ stack' \in [Thread -> Seq(Frame)]
  BY <1>2 DEF Moved
<1>4. n = 0 => stack[t] = <<>>
  BY <1>1, EmptySeq DEF TypeOK
<1>5. n > 0 => stack[t] # <<>> /\ Top(t) = stack[t][n]
  BY <1>1, TopFacts, EmptySeq DEF TypeOK
<1>6. CallsFit'
  <2>1. SUFFICES ASSUME NEW u \in Thread
                 PROVE  /\ stack'[u] # <<>> => stack'[u][1].fn \in Served \/ stack'[u][1].on \in Host
                        /\ \A i \in 1..(Len(stack'[u]) - 1) : Makes(stack'[u][i], stack'[u][i + 1])
    BY DEF CallsFit, Makes
  <2>2. CASE u # t
    BY <1>2, <2>2 DEF Moved, CallsFit
  <2>3. CASE u = t
    <3>1. stack'[t][1].fn \in Served \/ stack'[t][1].on \in Host
      <4>1. CASE n = 0
        BY <1>2, <4>1
      <4>2. CASE n > 0
        <5>1. 1 \in 1..n
          BY <4>2
        <5> QED
          BY <1>2, <1>5, <4>2, <5>1 DEF CallsFit
      <4> QED
        BY <4>1, <4>2
    <3>2. ASSUME NEW i \in 1..n PROVE Makes(stack'[t][i], stack'[t][i + 1])
      <4>1. CASE i = n
        <5>1. n > 0
          BY <4>1
        <5>2. stack'[t][n] = Top(t) /\ Makes(Top(t), g)
          BY <1>2, <1>5, <4>1, <5>1
        <5> QED
          BY <1>2, <4>1, <5>2
      <4>2. CASE i # n
        <5>1. i \in 1..(n - 1) /\ i + 1 \in 1..n
          BY <4>2
        <5>2. Makes(stack[t][i], stack[t][i + 1])
          BY <1>1, <5>1 DEF CallsFit
        <5> QED
          BY <1>2, <5>1, <5>2
      <4> QED
        BY <4>1, <4>2
    <3>3. (n + 1) - 1 = n
      OBVIOUS
    <3> QED
      BY <1>3, <2>3, <3>1, <3>2, <3>3
  <2> QED
    BY <2>2, <2>3
<1>7. ASSUME NEW i \in Nat, Given(t, i)' PROVE Given(t, i)
  <2>1. i \in 1..n + 1
    BY <1>3, <1>7 DEF Given
  <2>2. i # n + 1
    BY <1>2, <1>7 DEF Given
  <2>3. i \in 1..n /\ stack'[t][i] = stack[t][i]
    <3>1. i \in 1..n
      BY <2>1, <2>2
    <3> QED
      BY <1>2, <3>1
  <2>4. CASE i = n
    BY <1>1, <1>3, <1>7, <2>3, <2>4 DEF Given
  <2>5. CASE i # n
    <3>1. i + 1 \in 1..n
      BY <2>3, <2>5
    <3> QED
      BY <1>1, <1>2, <1>3, <1>7, <2>3, <2>5, <3>1 DEF Given
  <2> QED
    BY <2>4, <2>5
<1> QED
  BY <1>6, <1>7

\* An instance is begun where none is there; what goes on making or destroying
\* one was doing so before.
GoesOn(t, at) ==
  at \in Makings =>
    \/ at = "construct" /\ ~there[Top(t).on]
    \/ \E a \in Makings : At(t, {"instance"}, a)

\* The kinds of step.
LEMMA StepShapes ==
  ASSUME IInv, NEW t \in Thread, Call(t) \/ Step(t)
  PROVE  \/ Pushed(t)
         \/ stack[t] # <<>> /\ Popped(t)
         \/ /\ stack[t] # <<>>
            /\ \E at \in Ats, guard \in BOOLEAN : Topped(t, at, guard) /\ GoesOn(t, at)
<1>1. TypeOK
  BY DEF IInv, LockInv
<1>2. Ats = {"enter", "lock", "recheck", "construct", "schedule", "destroy", "destroyed",
             "inside", "leave", "unwind"}
  BY DEF Ats
<1>3. ASSUME Call(t) PROVE Pushed(t)
  <2>1. PICK f \in [fn: Served, on: {Allocator}] \cup [fn: {"instance", "use"}, on: Host] :
          stack' = [stack EXCEPT ![t] = Append(@, Enter(f.fn, f.on))]
    BY <1>3 DEF Call
  <2>2. f.fn \in Served \cup {"instance", "use"} /\ f.on \in Holder /\ (f.fn \in Served => f.on = Allocator)
    BY DEF Holder, Served
  <2>3. NewCall(Enter(f.fn, f.on))
    BY <2>2 DEF NewCall
  <2>4. PICK g \in Frame : g = Enter(f.fn, f.on)
    BY <2>3, NewCallFacts
  <2>5. stack' = [stack EXCEPT ![t] = Append(@, g)]
    BY <2>1, <2>4
  <2>6. /\ Moved(t, Len(stack[t]) + 1)
        /\ \A i \in 1..Len(stack[t]) : stack'[t][i] = stack[t][i]
        /\ stack'[t][Len(stack[t]) + 1] = g
    BY <1>1, <2>5, FramesOfCall
  <2> QED
    BY <2>3, <2>4, <2>6 DEF Pushed
<1>4. ASSUME NEW at \in Ats, NEW guard \in BOOLEAN, stack[t] # <<>>, Goto(t, at, guard)
      PROVE  Topped(t, at, guard)
  BY <1>1, <1>4, ToppedByGoto
<1>5. ASSUME stack[t] # <<>>, Return(t) PROVE Popped(t)
  BY <1>1, <1>5, PoppedByReturn
<1>6. ASSUME NEW fns, NEW at, At(t, fns, at) PROVE stack[t] # <<>> /\ Top(t).on \in Holder
  BY <1>6, AtTop
<1>7. ASSUME Serve(t) PROVE stack[t] # <<>> /\ Topped(t, "inside", TRUE)
  BY <1>1, <1>2, <1>6, <1>7, Types, ToppedByInvoke DEF Serve
<1>8. ASSUME CallHandler(t)
      PROVE  /\ stack[t] # <<>> /\ Topped(t, Top(t).at, TRUE) /\ Top(t).at \in Ats
             /\ GoesOn(t, Top(t).at)
  <2>1. stack[t] # <<>> /\ Top(t).at \in Ats /\ Requests(t)
    BY <1>8, RequestsGuarded DEF CallHandler
  <2>2. Topped(t, Top(t).at, TRUE)
    BY <1>1, <1>8, <2>1, Types, ToppedByInvoke DEF CallHandler, Served
  <2>3. GoesOn(t, Top(t).at)
    BY <2>1 DEF GoesOn, Requests, At, Makings
  <2> QED
    BY <2>1, <2>2, <2>3
<1>9. ASSUME Served_Returns(t) \/ Unlock(t) PROVE stack[t] # <<>> /\ Popped(t)
  BY <1>5, <1>6, <1>9 DEF Served_Returns, Unlock
<1>10. ASSUME Unwind(t) PROVE stack[t] # <<>> /\ Popped(t)
  BY <1>1, <1>10, PoppedByThrow DEF Unwind
<1>11. ASSUME Look(t) PROVE stack[t] # <<>> /\ (Popped(t) \/ Topped(t, "lock", FALSE))
  BY <1>2, <1>4, <1>5, <1>6, <1>11 DEF Look
<1>12. ASSUME LockMake(t) PROVE stack[t] # <<>> /\ Topped(t, "recheck", TRUE)
  BY <1>2, <1>4, <1>6, <1>12 DEF LockMake
<1>13. ASSUME LookAgain(t)
       PROVE  /\ stack[t] # <<>>
              /\ \/ Topped(t, "leave", TRUE) \/ Topped(t, "unwind", TRUE)
                 \/ Topped(t, "construct", TRUE) /\ ~there[Top(t).on]
  <2>1. stack[t] # <<>>
    BY <1>6, <1>13 DEF LookAgain
  <2>2. ASSUME Invoke(t, "construct", TRUE, Enter("new", Allocator)) PROVE Topped(t, "construct", TRUE)
    BY <1>1, <1>2, <2>1, <2>2, Types, ToppedByInvoke DEF Served
  <2> QED
    BY <1>2, <1>4, <1>13, <2>1, <2>2 DEF LookAgain
<1>14. ASSUME Constructed(t)
       PROVE  /\ stack[t] # <<>> /\ Topped(t, "schedule", TRUE)
              /\ At(t, {"instance"}, "construct")
  BY <1>2, <1>4, <1>6, <1>14 DEF Constructed
<1>15. ASSUME ConstructorThrows(t) \/ Destroyed(t) PROVE stack[t] # <<>> /\ Topped(t, "unwind", TRUE)
  BY <1>1, <1>2, <1>4, <1>6, <1>15, Discarded DEF ConstructorThrows, Destroyed
<1>16. ASSUME Scheduled(t) PROVE stack[t] # <<>> /\ Topped(t, "leave", TRUE)
  BY <1>2, <1>4, <1>6, <1>16 DEF Scheduled
<1>17. ASSUME NoTracker(t) \/ ServedThrows(t) PROVE stack[t] # <<>> /\ Topped(t, "unwind", TRUE)
  BY <1>2, <1>4, <1>6, <1>17 DEF NoTracker, ServedThrows
<1>18. ASSUME Share(t) PROVE stack[t] # <<>> /\ Topped(t, "lock", FALSE)
  BY <1>1, <1>2, <1>6, <1>18, ToppedByInvoke DEF Share, Served
<1>19. ASSUME LockObject(t) PROVE stack[t] # <<>> /\ Topped(t, "inside", TRUE)
  BY <1>2, <1>4, <1>6, <1>19 DEF LockObject
<1>20. ASSUME NotQueued(t)
       PROVE  stack[t] # <<>> /\ Topped(t, "destroy", TRUE) /\ At(t, {"instance"}, "schedule")
  BY <1>2, <1>4, <1>6, <1>20 DEF NotQueued
<1>21. ASSUME Destroy(t)
       PROVE  stack[t] # <<>> /\ Topped(t, "destroyed", TRUE) /\ At(t, {"instance"}, "destroy")
  BY <1>1, <1>6, <1>21, DestroyTops DEF Destroy
<1> DEFINE Goes(at, guard) == stack[t] # <<>> /\ Topped(t, at, guard) /\ GoesOn(t, at)
<1>22. ASSUME NEW at \in {"lock", "recheck", "inside", "leave", "unwind"}, NEW guard \in BOOLEAN,
              stack[t] # <<>>, Topped(t, at, guard)
       PROVE  at \in Ats /\ Goes(at, guard)
  BY <1>2, <1>22 DEF GoesOn, Makings
<1>23. ASSUME NEW at \in Makings, NEW a \in Makings, stack[t] # <<>>, Topped(t, at, TRUE),
              At(t, {"instance"}, a) \/ (at = "construct" /\ ~there[Top(t).on])
       PROVE  at \in Ats /\ Goes(at, TRUE)
  BY <1>2, <1>23 DEF GoesOn, Makings
<1> HIDE DEF Goes
<1>24. "construct" \in Makings /\ "schedule" \in Makings /\ "destroy" \in Makings /\ "destroyed" \in Makings
  BY DEF Makings
<1>25. \/ Call(t) \/ (stack[t] # <<>> /\ Popped(t))
       \/ \E at \in Ats, guard \in BOOLEAN : Goes(at, guard)
  <2>1. ASSUME CallHandler(t) PROVE \E at \in Ats, guard \in BOOLEAN : Goes(at, guard)
    BY <1>8, <2>1 DEF Goes
  <2>2. ASSUME \/ Serve(t) \/ LockMake(t) \/ Scheduled(t) \/ NoTracker(t) \/ ServedThrows(t)
               \/ ConstructorThrows(t) \/ Destroyed(t) \/ Share(t) \/ LockObject(t)
        PROVE  \E at \in Ats, guard \in BOOLEAN : Goes(at, guard)
    BY <1>7, <1>12, <1>15, <1>16, <1>17, <1>18, <1>19, <1>22, <2>2
  <2>3. ASSUME Constructed(t) \/ NotQueued(t) \/ Destroy(t)
        PROVE  \E at \in Ats, guard \in BOOLEAN : Goes(at, guard)
    BY <1>14, <1>20, <1>21, <1>23, <1>24, <2>3
  <2>4. ASSUME LookAgain(t) PROVE \E at \in Ats, guard \in BOOLEAN : Goes(at, guard)
    BY <1>13, <1>22, <1>23, <1>24, <2>4
  <2>5. ASSUME Look(t)
        PROVE  (stack[t] # <<>> /\ Popped(t)) \/ \E at \in Ats, guard \in BOOLEAN : Goes(at, guard)
    BY <1>11, <1>22, <2>5
  <2> QED
    BY <1>9, <1>10, <2>1, <2>2, <2>3, <2>4, <2>5 DEF Step
<1> QED
  BY <1>3, <1>25 DEF Goes

LEMMA OthersStay ==
  ASSUME IInv, NEW t \in Thread, Call(t) \/ Step(t)
  PROVE  \A u \in Thread \ {t} : stack'[u] = stack[u]
BY StepShapes DEF Pushed, Popped, Topped, Moved

\* The allocator that is there, with nobody making it, stays so.
LEMMA StillSettled ==
  ASSUME IInv, Settled, NEW t \in Thread, Call(t) \/ Step(t)
  PROVE  Settled'
<1>1. TypeOK /\ Allocator \in Holder /\ there \in [Holder -> BOOLEAN]
  BY Types DEF IInv, LockInv, TypeOK
<1>2. ASSUME stack[t] # <<>>, NEW a \in Makings, At(t, {"instance"}, a)
      PROVE  Top(t).on # Allocator
  <2>1. Len(stack[t]) \in Nat /\ Len(stack[t]) \in 1..Len(stack[t]) /\ Top(t) = stack[t][Len(stack[t])]
    BY <1>1, <1>2, TopFacts
  <2> QED
    BY <1>2, <2>1 DEF At, Making, Settled
<1>3. there'[Allocator]
  <2>1. CASE Destroyed(t)
    <3>1. Top(t).on # Allocator
      BY <1>2, <2>1 DEF Destroyed, At, Makings
    <3> QED
      BY <1>1, <2>1, <3>1 DEF Destroyed, Settled
  <2>2. CASE Constructed(t)
    BY <1>1, <2>2 DEF Constructed, Settled
  <2>3. CASE ~Destroyed(t) /\ ~Constructed(t)
    <3>1. there' = there
      BY <2>3 DEF Call, Step, Serve, CallHandler, Served_Returns, ServedThrows, Look, LockMake,
         LookAgain, ConstructorThrows, Scheduled, NoTracker, NotQueued, Destroy, Share, LockObject,
         Unlock, Unwind, data
    <3> QED
      BY <3>1 DEF Settled
  <2> QED
    BY <2>1, <2>2, <2>3
<1>4. ASSUME NEW u \in Thread, NEW i \in Nat, NEW a \in Makings,
             Making(u, i, Allocator, a)'
      PROVE  FALSE
  <2>1. ~Making(u, i, Allocator, a)
    BY DEF Settled
  <2>2. ~Making(u, i, Allocator, "schedule")
    BY DEF Settled, Makings
  <2>3. PICK at \in Ats, guard \in BOOLEAN : stack[t] # <<>> /\ Topped(t, at, guard) /\ GoesOn(t, at)
    BY <1>1, <1>4, <2>1, <2>2, StepShapes, PushedMaking, PoppedMaking
  <2>4. at = a /\ Top(t).on = Allocator
    BY <1>1, <1>4, <2>1, <2>3, ToppedMaking
  <2> QED
    BY <1>2, <2>3, <2>4 DEF Settled, GoesOn
<1> QED
  BY <1>3, <1>4 DEF Settled

LEMMA GivenKept ==
  ASSUME ApartInv, NEW t \in Thread, Call(t) \/ Step(t),
         model = "class" =>
           \A i \in Nat : Given(t, i)' => Given(t, i) \/ Settled \/ Settled'
  PROVE  model' = "class" => GivenFit'
<1>1. model' = model
  BY DEF Call, Step, Serve, CallHandler, Served_Returns, ServedThrows, Look, LockMake,
         LookAgain, Constructed, ConstructorThrows, Scheduled, NoTracker, NotQueued, Destroy,
         Destroyed, Share, LockObject, Unlock, Unwind, program, fixed
<1>2. SUFFICES ASSUME model = "class", NEW u \in Thread, NEW i \in Nat, Given(u, i)'
               PROVE  Settled'
  BY <1>1 DEF GivenFit
<1>3. Settled => Settled'
  BY StillSettled DEF ApartInv
<1>4. Given(u, i) => Settled
  BY <1>2 DEF ApartInv, GivenFit
<1>5. CASE u = t
  BY <1>2, <1>3, <1>4, <1>5
<1>6. CASE u # t
  <2>1. stack'[u] = stack[u]
    BY <1>6, OthersStay DEF ApartInv
  <2>2. Given(u, i)
    BY <1>2, <2>1 DEF Given
  <2> QED
    BY <1>3, <1>4, <2>2
<1> QED
  BY <1>5, <1>6

LEMMA GivenTop ==
  ASSUME ApartInv, model = "class", NEW t \in Thread, stack[t] # <<>>,
         GivenBy(Top(t).fn, Top(t).on, Top(t).at, "none")
  PROVE  Settled
<1>1. Len(stack[t]) \in Nat /\ Len(stack[t]) \in 1..Len(stack[t]) /\ Top(t) = stack[t][Len(stack[t])]
  BY TopFacts DEF ApartInv, IInv, LockInv
<1>2. Given(t, Len(stack[t]))
  BY <1>1 DEF Given, GivenBy
<1> QED
  BY <1>1, <1>2 DEF ApartInv, GivenFit

LEMMA EnterFrame ==
  ASSUME NEW fn \in Served \cup {"instance", "use"}, NEW h \in Holder
  PROVE  /\ Enter(fn, h) \in Frame /\ Enter(fn, h).fn = fn /\ Enter(fn, h).on = h
         /\ Enter(fn, h).at = "enter"
BY DEF Enter, Frame

LEMMA Call_Apart ==
  ASSUME ApartInv, NEW t \in Thread, Call(t)
  PROVE  CallsFit' /\ (model' = "class" => GivenFit')
<1>1. TypeOK /\ CallsFit
  BY DEF ApartInv, IInv, LockInv
<1>2. PICK f \in [fn: Served, on: {Allocator}] \cup [fn: {"instance", "use"}, on: Host] :
        /\ stack[t] # <<>> => f.fn \in {"new", "delete"}
        /\ stack' = [stack EXCEPT ![t] = Append(@, Enter(f.fn, f.on))]
  BY DEF Call
<1>3. f.fn \in Served \cup {"instance", "use"} /\ f.on \in Holder
      /\ (f.fn \in Served \/ f.on \in Host)
  BY DEF Holder
<1>4. PICK g \in Frame : g = Enter(f.fn, f.on)
  BY <1>3, EnterFrame
<1>5. g.fn = f.fn /\ g.on = f.on /\ g.at = "enter"
  BY <1>3, <1>4, EnterFrame
<1>6. stack[t] # <<>> => Makes(Top(t), g)
  BY <1>2, <1>5 DEF Call, At, Makes
<1>7. g.fn = "instance" => stack[t] = <<>>
  BY <1>2, <1>5
<1>8. stack' = [stack EXCEPT ![t] = Append(@, g)]
  BY <1>2, <1>4
<1>9. CallsFit' /\ \A i \in Nat : Given(t, i)' => Given(t, i)
  BY <1>1, <1>3, <1>5, <1>6, <1>7, <1>8, PushCalls
<1> QED
  BY <1>9, GivenKept

LEMMA Serve_Apart ==
  ASSUME ApartInv, NEW t \in Thread, Serve(t)
  PROVE  CallsFit' /\ (model' = "class" => GivenFit')
<1>1. TypeOK /\ CallsFit
  BY DEF ApartInv, IInv, LockInv
<1>2. stack[t] # <<>> /\ Top(t).fn \in Served
  BY DEF Serve, At
<1>3. PICK g \in Frame : g = Enter("instance", Allocator)
  BY Types, EnterFrame
<1>4. g.fn = "instance" /\ g.on = Allocator /\ g.at = "enter"
  BY <1>3, Types, EnterFrame
<1>5. Invoke(t, "inside", TRUE, g) /\ "inside" \in Ats
  BY <1>3 DEF Serve, Ats
<1>6. \A f : f.fn = Top(t).fn /\ f.on = Top(t).on /\ f.at = "inside" => Makes(f, g)
  BY <1>2, <1>4 DEF Makes
<1>7. /\ CallsFit'
      /\ \A i \in Nat : Given(t, i)' =>
           Given(t, i) \/ GivenBy(Top(t).fn, Top(t).on, "inside", g.fn)
  BY <1>1, <1>2, <1>4, <1>5, <1>6, InvokeCalls
<1>8. ~GivenBy(Top(t).fn, Top(t).on, "inside", g.fn)
  BY <1>4 DEF GivenBy
<1> QED
  BY <1>7, <1>8, GivenKept DEF Step

LEMMA CallHandler_Apart ==
  ASSUME ApartInv, NEW t \in Thread, CallHandler(t)
  PROVE  CallsFit' /\ (model' = "class" => GivenFit')
<1>1. TypeOK /\ CallsFit /\ IInv /\ Requests(t)
  BY DEF ApartInv, IInv, LockInv, CallHandler
<1>2. PICK at \in Ats : at = Top(t).at
  BY <1>1, RequestsGuarded
<1>3. PICK g \in Frame : g = Enter("clear", Allocator)
  BY Types, EnterFrame DEF Served
<1>4. g.fn = "clear" /\ g.at = "enter"
  BY <1>3, Types, EnterFrame DEF Served
<1>5. Invoke(t, at, TRUE, g) /\ stack[t] # <<>>
  BY <1>1, <1>2, <1>3, RequestsGuarded DEF CallHandler
<1>6. ASSUME NEW f, f.fn = Top(t).fn, f.on = Top(t).on, f.at = at PROVE Makes(f, g)
  BY <1>1, <1>2, <1>4, <1>6 DEF Makes, Requests, At
<1>7. /\ CallsFit'
      /\ \A i \in Nat : Given(t, i)' =>
           Given(t, i) \/ GivenBy(Top(t).fn, Top(t).on, at, g.fn)
  BY <1>1, <1>4, <1>5, <1>6, InvokeCalls
<1>8. GivenBy(Top(t).fn, Top(t).on, at, g.fn) => GivenBy(Top(t).fn, Top(t).on, Top(t).at, "none")
  BY <1>2, <1>4 DEF GivenBy
<1>9. model = "class" /\ GivenBy(Top(t).fn, Top(t).on, at, g.fn) => Settled
  BY <1>5, <1>8, GivenTop
<1> QED
  BY <1>7, <1>9, GivenKept DEF Step

LEMMA Served_Returns_Apart ==
  ASSUME ApartInv, NEW t \in Thread, Served_Returns(t)
  PROVE  CallsFit' /\ (model' = "class" => GivenFit')
<1>1. TypeOK /\ CallsFit
  BY DEF ApartInv, IInv, LockInv
<1>2. stack[t] # <<>> /\ Top(t).fn \in Served /\ Top(t).at = "inside"
  BY DEF Served_Returns, At
<1>3. CallsFit'
  BY <1>1, <1>2, ReturnCalls DEF Served_Returns
<1>4. model = "class" => Settled
  BY <1>2, GivenTop DEF GivenBy
<1> QED
  BY <1>3, <1>4, GivenKept DEF Step

\* Steps of the innermost call that are given nothing new.
LEMMA Goto_Apart ==
  ASSUME ApartInv, NEW t \in Thread, Step(t), stack[t] # <<>>,
         NEW at \in Ats, NEW guard \in BOOLEAN, Goto(t, at, guard),
         model = "class" /\ GivenBy(Top(t).fn, Top(t).on, at, "none") => Settled \/ Settled'
  PROVE  CallsFit' /\ (model' = "class" => GivenFit')
<1>1. TypeOK /\ CallsFit
  BY DEF ApartInv, IInv, LockInv
<1>2. /\ CallsFit'
      /\ \A i \in Nat : Given(t, i)' =>
           Given(t, i) \/ GivenBy(Top(t).fn, Top(t).on, at, "none")
  BY <1>1, GotoCalls
<1> QED
  BY <1>2, GivenKept

LEMMA ServedThrows_Apart ==
  ASSUME ApartInv, NEW t \in Thread, ServedThrows(t)
  PROVE  CallsFit' /\ (model' = "class" => GivenFit')
<1>1. stack[t] # <<>> /\ Goto(t, "unwind", TRUE) /\ "unwind" \in Ats
  BY DEF ServedThrows, At, Ats
<1>2. ~GivenBy(Top(t).fn, Top(t).on, "unwind", "none")
  BY DEF GivenBy
<1> QED
  BY <1>1, <1>2, Goto_Apart DEF Step

LEMMA Look_Apart ==
  ASSUME ApartInv, NEW t \in Thread, Look(t)
  PROVE  CallsFit' /\ (model' = "class" => GivenFit')
<1>1. TypeOK /\ CallsFit /\ IInv
  BY DEF ApartInv, IInv, LockInv
<1>2. stack[t] # <<>> /\ Top(t).fn = "instance" /\ Top(t).at = "enter"
  BY DEF Look, At
<1>3. CASE there[Top(t).on] /\ Return(t)
  <2>1. /\ CallsFit'
        /\ \A i \in Nat : Given(t, i)' => Given(t, i) \/ Top(t).on = Allocator
    BY <1>1, <1>2, <1>3, ReturnCalls
  <2>2. model = "class" /\ Top(t).on = Allocator => Settled
    BY <1>1, <1>2, <1>3, FoundThere DEF Makings
  <2> QED
    BY <2>1, <2>2, GivenKept DEF Step
<1>4. CASE Goto(t, "lock", FALSE)
  <2>1. ~GivenBy(Top(t).fn, Top(t).on, "lock", "none") /\ "lock" \in Ats
    BY DEF GivenBy, Ats
  <2> QED
    BY <1>2, <1>4, <2>1, Goto_Apart DEF Step
<1> QED
  BY <1>3, <1>4 DEF Look

LEMMA LockMake_Apart ==
  ASSUME ApartInv, NEW t \in Thread, LockMake(t)
  PROVE  CallsFit' /\ (model' = "class" => GivenFit')
<1>1. stack[t] # <<>> /\ Goto(t, "recheck", TRUE) /\ "recheck" \in Ats
  BY DEF LockMake, At, Ats
<1>2. ~GivenBy(Top(t).fn, Top(t).on, "recheck", "none")
  BY DEF GivenBy
<1> QED
  BY <1>1, <1>2, Goto_Apart DEF Step

LEMMA LookAgain_Apart ==
  ASSUME ApartInv, NEW t \in Thread, LookAgain(t)
  PROVE  CallsFit' /\ (model' = "class" => GivenFit')
<1>1. TypeOK /\ CallsFit /\ IInv
  BY DEF ApartInv, IInv, LockInv
<1>2. stack[t] # <<>> /\ Top(t).fn = "instance" /\ Top(t).at = "recheck"
  BY DEF LookAgain, At
<1>3. CASE there[Top(t).on] /\ Goto(t, "leave", TRUE)
  <2>1. GivenBy(Top(t).fn, Top(t).on, "leave", "none") => Top(t).on = Allocator
    BY <1>2 DEF GivenBy, Served
  <2>2. model = "class" /\ Top(t).on = Allocator => Settled
    BY <1>1, <1>2, <1>3, FoundThere DEF Makings
  <2>3. "leave" \in Ats
    BY DEF Ats
  <2> QED
    BY <1>2, <1>3, <2>1, <2>2, <2>3, Goto_Apart DEF Step
<1>4. CASE Goto(t, "unwind", TRUE)
  <2>1. ~GivenBy(Top(t).fn, Top(t).on, "unwind", "none") /\ "unwind" \in Ats
    BY DEF GivenBy, Ats
  <2> QED
    BY <1>2, <1>4, <2>1, Goto_Apart DEF Step
<1>5. CASE Top(t).on \notin Host /\ Goto(t, "construct", TRUE)
  <2>1. ~GivenBy(Top(t).fn, Top(t).on, "construct", "none") /\ "construct" \in Ats
    BY <1>2, <1>5 DEF GivenBy, Ats, Served
  <2> QED
    BY <1>2, <1>5, <2>1, Goto_Apart DEF Step
<1>6. CASE Top(t).on \in Host /\ Invoke(t, "construct", TRUE, Enter("new", Allocator))
  <2>1. PICK g \in Frame : g = Enter("new", Allocator)
    BY Types, EnterFrame DEF Served
  <2>2. g.fn = "new" /\ g.at = "enter" /\ "construct" \in Ats
    BY <2>1, Types, EnterFrame DEF Served, Ats
  <2>3. \A f : f.fn = Top(t).fn /\ f.on = Top(t).on /\ f.at = "construct" => Makes(f, g)
    BY <1>2, <1>6, <2>2 DEF Makes
  <2>4. Invoke(t, "construct", TRUE, g)
    BY <1>6, <2>1
  <2>5. /\ CallsFit'
        /\ \A i \in Nat : Given(t, i)' =>
             Given(t, i) \/ GivenBy(Top(t).fn, Top(t).on, "construct", g.fn)
    BY <1>1, <1>2, <2>2, <2>3, <2>4, InvokeCalls
  <2>6. ~GivenBy(Top(t).fn, Top(t).on, "construct", g.fn)
    BY <1>2, <2>2 DEF GivenBy, Served
  <2> QED
    BY <2>5, <2>6, GivenKept DEF Step
<1> QED
  BY <1>3, <1>4, <1>5, <1>6 DEF LookAgain

LEMMA Constructed_Apart ==
  ASSUME ApartInv, NEW t \in Thread, Constructed(t)
  PROVE  CallsFit' /\ (model' = "class" => GivenFit')
<1>1. /\ stack[t] # <<>> /\ Goto(t, "schedule", TRUE) /\ "schedule" \in Ats
      /\ Top(t).fn = "instance" /\ Top(t).at = "construct"
  BY DEF Constructed, At, Ats
<1>2. GivenBy(Top(t).fn, Top(t).on, "schedule", "none") =>
        GivenBy(Top(t).fn, Top(t).on, Top(t).at, "none")
  BY <1>1 DEF GivenBy
<1>3. model = "class" /\ GivenBy(Top(t).fn, Top(t).on, "schedule", "none") => Settled
  BY <1>1, <1>2, GivenTop
<1> QED
  BY <1>1, <1>3, Goto_Apart DEF Step

LEMMA Discard_Apart ==
  ASSUME ApartInv, NEW t \in Thread, Step(t), At(t, {"instance"}, Top(t).at), Discard(t)
  PROVE  CallsFit' /\ (model' = "class" => GivenFit')
<1>1. TypeOK /\ CallsFit /\ "unwind" \in Ats
  BY DEF ApartInv, IInv, LockInv, Ats
<1>2. stack[t] # <<>> /\ Top(t).fn = "instance"
  BY DEF At
<1>3. \A g : ~GivenBy(Top(t).fn, Top(t).on, "unwind", g)
  BY DEF GivenBy
<1>4. CASE Goto(t, "unwind", TRUE)
  BY <1>1, <1>2, <1>3, <1>4, Goto_Apart
<1>5. CASE Top(t).on \in Host /\ Invoke(t, "unwind", TRUE, Enter("delete", Allocator))
  <2>1. PICK g \in Frame : g = Enter("delete", Allocator)
    BY Types, EnterFrame DEF Served
  <2>2. g.fn = "delete" /\ g.at = "enter"
    BY <2>1, Types, EnterFrame DEF Served
  <2>3. \A f : f.fn = Top(t).fn /\ f.on = Top(t).on /\ f.at = "unwind" => Makes(f, g)
    BY <1>2, <1>5, <2>2 DEF Makes
  <2>4. Invoke(t, "unwind", TRUE, g)
    BY <1>5, <2>1
  <2>5. /\ CallsFit'
        /\ \A i \in Nat : Given(t, i)' =>
             Given(t, i) \/ GivenBy(Top(t).fn, Top(t).on, "unwind", g.fn)
    BY <1>1, <1>2, <2>2, <2>3, <2>4, InvokeCalls
  <2> QED
    BY <1>3, <2>5, GivenKept
<1> QED
  BY <1>4, <1>5 DEF Discard

LEMMA ConstructorThrows_Apart ==
  ASSUME ApartInv, NEW t \in Thread, ConstructorThrows(t)
  PROVE  CallsFit' /\ (model' = "class" => GivenFit')
BY Discard_Apart DEF Step, ConstructorThrows, At

LEMMA NotQueued_Apart ==
  ASSUME ApartInv, NEW t \in Thread, NotQueued(t)
  PROVE  CallsFit' /\ (model' = "class" => GivenFit')
<1>1. stack[t] # <<>> /\ Goto(t, "destroy", TRUE) /\ "destroy" \in Ats
  BY DEF NotQueued, At, Ats
<1>2. ~GivenBy(Top(t).fn, Top(t).on, "destroy", "none")
  BY DEF GivenBy
<1> QED
  BY <1>1, <1>2, Goto_Apart DEF Step

LEMMA Destroy_Apart ==
  ASSUME ApartInv, NEW t \in Thread, Destroy(t)
  PROVE  CallsFit' /\ (model' = "class" => GivenFit')
<1>1. TypeOK /\ CallsFit /\ "destroyed" \in Ats
  BY DEF ApartInv, IInv, LockInv, Ats
<1>2. stack[t] # <<>> /\ Top(t).fn = "instance"
  BY DEF Destroy, At
<1>3. \A g : ~GivenBy(Top(t).fn, Top(t).on, "destroyed", g)
  BY DEF GivenBy
<1>4. CASE Goto(t, "destroyed", TRUE)
  BY <1>1, <1>2, <1>3, <1>4, Goto_Apart DEF Step
<1>5. CASE Top(t).on \in Host /\ Invoke(t, "destroyed", TRUE, Enter("delete", Allocator))
  <2>1. PICK g \in Frame : g = Enter("delete", Allocator)
    BY Types, EnterFrame DEF Served
  <2>2. g.fn = "delete" /\ g.at = "enter"
    BY <2>1, Types, EnterFrame DEF Served
  <2>3. \A f : f.fn = Top(t).fn /\ f.on = Top(t).on /\ f.at = "destroyed" => Makes(f, g)
    BY <1>2, <1>5, <2>2 DEF Makes
  <2>4. Invoke(t, "destroyed", TRUE, g)
    BY <1>5, <2>1
  <2>5. /\ CallsFit'
        /\ \A i \in Nat : Given(t, i)' =>
             Given(t, i) \/ GivenBy(Top(t).fn, Top(t).on, "destroyed", g.fn)
    BY <1>1, <1>2, <2>2, <2>3, <2>4, InvokeCalls
  <2> QED
    BY <1>3, <2>5, GivenKept DEF Step
<1> QED
  BY <1>4, <1>5 DEF Destroy

LEMMA Destroyed_Apart ==
  ASSUME ApartInv, NEW t \in Thread, Destroyed(t)
  PROVE  CallsFit' /\ (model' = "class" => GivenFit')
<1>1. stack[t] # <<>> /\ Goto(t, "unwind", TRUE) /\ "unwind" \in Ats
  BY DEF Destroyed, At, Ats
<1>2. ~GivenBy(Top(t).fn, Top(t).on, "unwind", "none")
  BY DEF GivenBy
<1> QED
  BY <1>1, <1>2, Goto_Apart DEF Step

LEMMA Scheduled_Apart ==
  ASSUME ApartInv, NEW t \in Thread, Scheduled(t)
  PROVE  CallsFit' /\ (model' = "class" => GivenFit')
<1>1. /\ stack[t] # <<>> /\ Goto(t, "leave", TRUE) /\ "leave" \in Ats
      /\ Top(t).fn = "instance" /\ Top(t).at = "schedule" /\ IInv /\ TypeOK
      /\ At(t, {"instance"}, "schedule")
  BY DEF Scheduled, At, Ats, ApartInv, IInv, LockInv
<1>2. GivenBy(Top(t).fn, Top(t).on, "leave", "none") => Top(t).on = Allocator
  BY <1>1 DEF GivenBy, Served
<1>3. ASSUME model = "class", Top(t).on = Allocator PROVE Settled'
  <2>1. Len(stack[t]) \in Nat /\ Making(t, Len(stack[t]), Allocator, "schedule")
    BY <1>1, <1>3, TopFacts DEF Making
  <2>2. Real(Allocator) /\ Allocator \in Holder
    BY <1>3, AllocatorReal
  <2>3. there[Allocator]
    BY <1>1, <2>1, <2>2 DEF IInv, InstancesFit, InstanceFits
  <2>4. there' = there
    BY DEF Scheduled
  <2>5. ASSUME NEW u \in Thread, NEW i \in Nat, NEW a \in Makings,
               Making(u, i, Allocator, a)'
        PROVE  FALSE
    <3>1. Topped(t, "leave", TRUE)
      BY <1>1, ToppedByGoto
    <3>2. MakersAfter(t, "leave")
      BY <1>1, <3>1, ToppedMakers
    <3>3. Making(u, i, Allocator, a) /\ ~(u = t /\ i = Len(stack[t]))
      <4>1. "leave" # a
        BY <2>5 DEF Makings
      <4> QED
        BY <2>2, <2>5, <3>2, <4>1 DEF MakersAfter
    <3> QED
      BY <1>1, <1>3, <2>2, <3>3, OnlyMaker DEF Makings
  <2> QED
    BY <2>3, <2>4, <2>5 DEF Settled
<1> QED
  BY <1>1, <1>2, <1>3, Goto_Apart DEF Step

LEMMA NoTracker_Apart ==
  ASSUME ApartInv, NEW t \in Thread, NoTracker(t)
  PROVE  CallsFit' /\ (model' = "class" => GivenFit')
<1>1. stack[t] # <<>> /\ Goto(t, "unwind", TRUE) /\ "unwind" \in Ats
  BY DEF NoTracker, At, Ats
<1>2. ~GivenBy(Top(t).fn, Top(t).on, "unwind", "none")
  BY DEF GivenBy
<1> QED
  BY <1>1, <1>2, Goto_Apart DEF Step

LEMMA Share_Apart ==
  ASSUME ApartInv, NEW t \in Thread, Share(t)
  PROVE  CallsFit' /\ (model' = "class" => GivenFit')
<1>1. TypeOK /\ CallsFit /\ IInv
  BY DEF ApartInv, IInv, LockInv
<1>2. stack[t] # <<>> /\ Top(t).fn = "use" /\ Top(t).on \in Holder
  BY <1>1, AtTop DEF Share
<1>3. Top(t).on \in Host
  <2>1. PICK n \in Nat \ {0} : n = Len(stack[t]) /\ Top(t) = stack[t][n]
    BY <1>1, <1>2, TopFacts
  <2>2. CASE n = 1
    BY <1>2, <2>1, <2>2 DEF CallsFit, Served, ApartInv
  <2>3. CASE n # 1
    <3>1. n - 1 \in 1..(n - 1) /\ (n - 1) + 1 = n
      BY <2>3
    <3>2. Makes(stack[t][n - 1], stack[t][n])
      BY <1>1, <2>1, <3>1 DEF CallsFit
    <3> QED
      BY <1>2, <2>1, <3>2 DEF Makes
  <2> QED
    BY <2>2, <2>3
<1>4. PICK g \in Frame : g = Enter("instance", Top(t).on)
  BY <1>2, EnterFrame
<1>5. g.fn = "instance" /\ g.on \in Host /\ g.at = "enter"
  BY <1>2, <1>3, <1>4, EnterFrame
<1>6. Invoke(t, "lock", FALSE, g) /\ "lock" \in Ats
  BY <1>4 DEF Share, Ats
<1>7. \A f : f.fn = Top(t).fn /\ f.on = Top(t).on /\ f.at = "lock" => Makes(f, g)
  BY <1>2, <1>5 DEF Makes
<1>8. /\ CallsFit'
      /\ \A i \in Nat : Given(t, i)' =>
           Given(t, i) \/ GivenBy(Top(t).fn, Top(t).on, "lock", g.fn)
  BY <1>1, <1>2, <1>5, <1>6, <1>7, InvokeCalls
<1>9. ~GivenBy(Top(t).fn, Top(t).on, "lock", g.fn)
  BY DEF GivenBy
<1> QED
  BY <1>8, <1>9, GivenKept DEF Step

LEMMA LockObject_Apart ==
  ASSUME ApartInv, NEW t \in Thread, LockObject(t)
  PROVE  CallsFit' /\ (model' = "class" => GivenFit')
<1>1. stack[t] # <<>> /\ Goto(t, "inside", TRUE) /\ "inside" \in Ats /\ Top(t).fn = "use"
  BY DEF LockObject, At, Ats
<1>2. ~GivenBy(Top(t).fn, Top(t).on, "inside", "none")
  BY <1>1 DEF GivenBy, Served
<1> QED
  BY <1>1, <1>2, Goto_Apart DEF Step

LEMMA Unlock_Apart ==
  ASSUME ApartInv, NEW t \in Thread, Unlock(t)
  PROVE  CallsFit' /\ (model' = "class" => GivenFit')
<1>1. TypeOK /\ CallsFit
  BY DEF ApartInv, IInv, LockInv
<1>2. /\ stack[t] # <<>> /\ Return(t) /\ Top(t).fn # "new"
      /\ Top(t).fn = "instance" => Top(t).at = "leave"
  BY DEF Unlock, At
<1>3. /\ CallsFit'
      /\ \A i \in Nat : Given(t, i)' => Given(t, i) \/ (Top(t).fn = "instance" /\ Top(t).on = Allocator)
  BY <1>1, <1>2, ReturnCalls
<1>4. model = "class" /\ Top(t).fn = "instance" /\ Top(t).on = Allocator => Settled
  BY <1>2, GivenTop DEF GivenBy
<1> QED
  BY <1>3, <1>4, GivenKept DEF Step

LEMMA Unwind_Apart ==
  ASSUME ApartInv, NEW t \in Thread, Unwind(t)
  PROVE  CallsFit' /\ (model' = "class" => GivenFit')
<1>1. TypeOK /\ CallsFit
  BY DEF ApartInv, IInv, LockInv
<1>2. CallsFit' /\ \A i \in Nat : Given(t, i)' => Given(t, i)
  BY <1>1, ThrowCalls DEF Unwind
<1> QED
  BY <1>2, GivenKept DEF Step

LEMMA InitApart == Init => ApartInv
<1> SUFFICES ASSUME Init PROVE ApartInv
  OBVIOUS
<1>1. IInv
  BY InitFits
<1>2. \A t \in Thread : stack[t] = <<>> /\ Len(stack[t]) = 0
  BY EmptySeq DEF Init
<1>3. \A t \in Thread : 1..Len(stack[t]) = {} /\ 1..(Len(stack[t]) - 1) = {}
  BY <1>2
<1>4. CallsFit
  BY <1>2, <1>3 DEF CallsFit
<1>5. GivenFit
  BY <1>3 DEF GivenFit, Given
<1> QED
  BY <1>1, <1>4, <1>5 DEF ApartInv

LEMMA StepApart == ApartInv /\ [Next]_vars => ApartInv'
<1> SUFFICES ASSUME ApartInv, [Next]_vars PROVE ApartInv'
  OBVIOUS
<1>1. IInv'
  BY StepFits DEF ApartInv
<1>2. CASE UNCHANGED vars
  <2>1. UNCHANGED <<stack, there, model>>
    BY <1>2 DEF vars
  <2>2. CallsFit'
    BY <2>1 DEF ApartInv, CallsFit, Makes
  <2>3. model' = "class" => GivenFit'
    BY <2>1 DEF ApartInv, GivenFit, Given, Settled, Making
  <2> QED
    BY <1>1, <2>2, <2>3 DEF ApartInv
<1>3. ASSUME NEW t \in Thread, Call(t) \/ Proceed(t)
      PROVE  CallsFit' /\ (model' = "class" => GivenFit')
  BY <1>3, Call_Apart, Serve_Apart, CallHandler_Apart, Served_Returns_Apart, ServedThrows_Apart,
     Look_Apart, LockMake_Apart, LookAgain_Apart, Constructed_Apart, ConstructorThrows_Apart,
     Scheduled_Apart, NoTracker_Apart, NotQueued_Apart, Destroy_Apart, Destroyed_Apart,
     Share_Apart, LockObject_Apart, Unlock_Apart, Unwind_Apart DEF Proceed, Step
<1> QED
  BY <1>1, <1>2, <1>3 DEF Next, ApartInv

\* While a thread queues the allocator's turn to be destroyed, no thread queues
\* any (TrackersApart of the run "threads"), for any number of threads and hosts:
\* a host's turn comes only after its memory came from an allocator that was
\* there and that nobody was making any more, and then nobody makes it again.
THEOREM TrackersStayApart == Spec => []TrackersApart
<1>1. ApartInv => TrackersApart
  <2>1. SUFFICES ASSUME ApartInv, model = "class",
                        NEW c \in Sections({"instance"}, "schedule"),
                        NEW d \in Sections({"instance"}, "schedule"),
                        stack[c[1]][c[2]].on = Allocator
                 PROVE  c = d
    BY DEF TrackersApart
  <2>2. ASSUME NEW e \in Sections({"instance"}, "schedule")
        PROVE  /\ e = <<e[1], e[2]>> /\ e[1] \in Thread /\ e[2] \in Nat
               /\ e[2] \in 1..Len(stack[e[1]])
               /\ stack[e[1]][e[2]].fn = "instance" /\ stack[e[1]][e[2]].at = "schedule"
               /\ stack[e[1]][e[2]].on \in Host \cup {Allocator}
    <3>1. PICK t \in Thread : e \in {t} \X (1..Len(stack[t]))
      BY DEF Sections
    <3>2. e = <<e[1], e[2]>> /\ e[1] = t /\ e[2] \in 1..Len(stack[t])
      BY <3>1
    <3>3. stack[t][e[2]].fn = "instance" /\ stack[t][e[2]].at = "schedule"
      BY <3>2 DEF Sections
    <3>4. stack[t] \in Seq(Frame) /\ e[2] \in Nat
      <4>1. stack[t] \in Seq(Frame)
        BY <2>1 DEF ApartInv, IInv, LockInv, TypeOK
      <4>2. Len(stack[t]) \in Nat
        BY <4>1
      <4>3. e[2] \in Nat
        BY <3>2, <4>2
      <4> QED
        BY <4>1, <4>3
    <3>5. stack[t][e[2]] \in Frame
      BY <3>2, <3>4, ElementOfSeq
    <3>6. stack[t][e[2]].on \in Host \cup {Allocator}
      BY <3>5 DEF Frame, Holder
    <3> QED
      BY <3>2, <3>3, <3>4, <3>6
  <2>3. Making(c[1], c[2], Allocator, "schedule")
    BY <2>1, <2>2 DEF Making
  <2>4. ~Settled
    BY <2>2, <2>3 DEF Settled, Makings
  <2>5. ~Given(d[1], d[2])
    BY <2>1, <2>2, <2>4 DEF ApartInv, GivenFit
  <2>6. stack[d[1]][d[2]].on = Allocator
    BY <2>2, <2>5 DEF Given
  <2>7. c[1] = d[1] /\ c[2] = d[2]
    BY <2>1, <2>2, <2>6, AskedAlone DEF ApartInv
  <2> QED
    BY <2>2, <2>7
<1> QED
  BY <1>1, InitApart, StepApart, PTL DEF Spec
=============================================================================
