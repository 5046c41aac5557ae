----------------------------- MODULE CheckedFields -----------------------------
(***************************************************************************)
(* A program that keeps flags in SafeBitFields and whose functions return  *)
(* them as CheckReturns (src/include/loki/CheckReturn.h): the destructor   *)
(* of a CheckReturn complains unless the value was looked at, and a        *)
(* function that returns what another function returned hands the duty on. *)
(*                                                                         *)
(* The copies of a returned value are a chain.  A CheckReturn has neither  *)
(* a default constructor nor an assignment.                                *)
(***************************************************************************)
EXTENDS SafeBits, FiniteSets

CONSTANTS
  Field,     \* the program's variables of SafeBitField types,
  KindOf,    \* each of a kind
  Slot,      \* the places of CheckReturn objects
  Chain      \* bound: the values that functions return

\* No kind is that of conditions.
ASSUME KindAssumption == \A f \in Field : KindOf[f] # Bool

VARIABLES
  word,       \* what each field holds
  flags,      \* the labels that the client means it to hold
  returned,   \* the CheckReturn in each place, if there is one
  fate,       \* of each chain: whether its value was looked at, or complained of
  forked,     \* the chains of which one object was copied twice
  onError,    \* the OnError policy: whether it ends the program
  terminated

checkedVars == <<word, flags, returned, fate, forked, onError, terminated>>

\* TriggerAssert asserts, and ThrowTheValue and ThrowLogicError throw out of a
\* destructor, which ends the program; FprintfStderr and IgnoreReturnValue return.
OnErrorEnds == BOOLEAN

NoReturn == <<>>
There == {r \in Slot : returned[r] # NoReturn}

CheckedInit ==
  /\ word = [f \in Field |-> 0]
  /\ flags = [f \in Field |-> {}]
  /\ returned = [r \in Slot |-> NoReturn]
  /\ fate = [c \in Chain |-> "unused"]
  /\ forked = {}
  /\ onError \in OnErrorEnds
  /\ terminated = FALSE

-----------------------------------------------------------------------------
(* Fields: a word, and the labels that it is meant to hold. *)

SetField(f, value) ==
  /\ ~terminated
  /\ value.type = KindOf[f]    \* operator=, of a field or a constant
  /\ word' = [word EXCEPT ![f] = value.word]
  /\ flags' = [flags EXCEPT ![f] = value.flags]

Value(type, w, s) == [type |-> type, word |-> w, flags |-> s]

Kind == {KindOf[f] : f \in Field}
FieldValue(f) == Value(KindOf[f], word[f], flags[f])
Fields == {FieldValue(f) : f \in Field}

\* LOKI_BIT_CONST, of no label or of one, and LOKI_BIT_CONSTS.
Constants ==
  {Value(k, MakeBitConst(i), {i} \ {0}) : k \in Kind, i \in {0} \cup Bit}
  \cup {Value(k, ConstOperators(MakeBitConst(1), MakeBitConst(i)).or, {1, i}) : k \in Kind, i \in Bit}

\* What a client may write on either side, where it compiles: a condition as well.
Conditions == {Value(Bool, IF IsSet(word[f]) THEN 1 ELSE 0, {}) : f \in Field}
Operands == Fields \cup Constants \cup Conditions

CombinedFlags(op, s, t) ==
  CASE op = "or" -> s \cup t
    [] op = "and" -> s \cap t
    [] op = "xor" -> (s \ t) \cup (t \ s)

\* x op y, which is of y's kind where it compiles.
Combine(op, x, y) ==
  Value(y.type, (IF x \in Constants THEN ConstOperators(x.word, y.word)
                                    ELSE FieldOperators(x.word, y.word))[op],
        CombinedFlags(op, x.flags, y.flags))

\* f = x, f = x op y
Assign(f) ==
  /\ \/ \E x \in Operands : SetField(f, x)
     \/ \E x, y \in Operands, op \in {"or", "and", "xor"} :
          /\ y.type = KindOf[f]
          /\ x \in Constants => ~ConstForbids(x.type, y.type)
          /\ x \in Fields => ~FieldForbids(x.type, y.type)
          /\ x \in Conditions => ~BoolForbids(op)
          /\ SetField(f, Combine(op, x, y))
  /\ UNCHANGED <<returned, fate, forked, onError, terminated>>

\* f op= x
CompoundAssigns(f) ==
  /\ \E x \in Operands, op \in {"or", "and", "xor"} :
       /\ ~FieldForbids(KindOf[f], x.type)
       /\ SetField(f, Value(KindOf[f], CompoundAssign(word[f], x.word)[op].field,
                            CombinedFlags(op, flags[f], x.flags)))
  /\ UNCHANGED <<returned, fate, forked, onError, terminated>>

\* f = ~f, f <<= s, f >>= s
Complements(f) ==
  /\ SetField(f, Value(KindOf[f], Complement(word[f]), Bit \ flags[f]))
  /\ UNCHANGED <<returned, fate, forked, onError, terminated>>

Shifts(f) ==
  /\ \E s \in 0 .. Width - 1 :
       LET moved == ShiftAssign(word[f], s) IN
       \/ SetField(f, Value(KindOf[f], moved.left.field, {i + s : i \in flags[f]} \cap Bit))
       \/ SetField(f, Value(KindOf[f], moved.right.field, {i - s : i \in flags[f]} \cap Bit))
  /\ UNCHANGED <<returned, fate, forked, onError, terminated>>

-----------------------------------------------------------------------------
(* CheckReturn *)

\* A function returns CheckReturn(value), of a field.
Returns(r, c, f) ==
  /\ ~terminated
  /\ r \notin There
  /\ fate[c] = "unused"
  /\ returned' = [returned EXCEPT ![r] =
       [chain |-> c, value |-> FieldValue(f), checked |-> FALSE, copied |-> FALSE]]
  /\ fate' = [fate EXCEPT ![c] = "unseen"]
  /\ UNCHANGED <<word, flags, forked, onError, terminated>>

\* CheckReturn(that): the copy is unchecked, even when that was checked.
HandOn_Keeps(r, that) ==  \* mutant: that keeps its duty
  /\ ~terminated
  /\ r \notin There
  /\ that \in There
  /\ returned' = [returned EXCEPT
       ![r] = [returned[that] EXCEPT !.checked = FALSE, !.copied = FALSE], ![that].copied = TRUE]
  /\ forked' = IF returned[that].copied THEN forked \cup {returned[that].chain} ELSE forked
  /\ UNCHANGED <<word, flags, fate, onError, terminated>>

HandOn(r, that) ==
  /\ ~terminated
  /\ r \notin There
  /\ that \in There
  /\ returned' = [returned EXCEPT
       ![r] = [returned[that] EXCEPT !.checked = FALSE, !.copied = FALSE],
       ![that].checked = TRUE, ![that].copied = TRUE]
  /\ forked' = IF returned[that].copied THEN forked \cup {returned[that].chain} ELSE forked
  /\ UNCHANGED <<word, flags, fate, onError, terminated>>

\* f = r: the conversion to Value, and the field's assignment.
Look(r, f) ==
  /\ r \in There
  /\ SetField(f, returned[r].value)
  /\ returned' = [returned EXCEPT ![r].checked = TRUE]
  /\ fate' = [fate EXCEPT ![returned[r].chain] = "seen"]
  /\ UNCHANGED <<forked, onError, terminated>>

\* ~CheckReturn, with OnError::run
Destroy(r) ==
  /\ ~terminated
  /\ r \in There
  /\ returned' = [returned EXCEPT ![r] = NoReturn]
  /\ IF returned[r].checked THEN UNCHANGED <<fate, terminated>>
     ELSE /\ fate' = [fate EXCEPT ![returned[r].chain] = "complained"]
          /\ terminated' = onError
  /\ UNCHANGED <<word, flags, forked, onError>>

CheckedNext ==
  \/ \E f \in Field : Assign(f) \/ CompoundAssigns(f) \/ Complements(f) \/ Shifts(f)
  \/ \E r \in Slot, c \in Chain, f \in Field : Returns(r, c, f)
  \/ \E r, that \in Slot : HandOn(r, that)
  \/ \E r \in Slot, f \in Field : Look(r, f)
  \/ \E r \in Slot : Destroy(r)

CheckedSpec == CheckedInit /\ [][CheckedNext]_checkedVars
-----------------------------------------------------------------------------
(* However fields are combined, negated, shifted past both ends of the word *)
(* and handed through returned values, each holds the labels of its own     *)
(* kind that the client means, no more and no less: no condition and no     *)
(* field of another kind gets in.  The operators by which the client asks - *)
(* "if (f & g)", equality, order - answer as those sets do.                 *)
(* (SafeBits.h:162-227, 359-470, and the forbidden operators.)              *)
FieldsAreSets ==
  /\ word \in [Field -> Word]
  /\ \A f \in Field : word[f] = Number(flags[f])
  /\ \A r \in There : returned[r].value.word = Number(returned[r].value.flags)
  /\ \A f \in Field, x \in Fields \cup Constants :
       LET answer == FieldCompare(word[f], x.word) IN
       x.type = KindOf[f] =>
         /\ IsSet(FieldOperators(word[f], x.word).and) <=> flags[f] \cap x.flags # {}
         /\ answer.eq <=> flags[f] = x.flags
         /\ answer.ne = ~answer.eq
         /\ flags[f] \subseteq x.flags => answer.le /\ ~answer.gt
         /\ answer.lt = ~answer.ge

Unchecked(c) == {r \in There : returned[r].chain = c /\ ~returned[r].checked}

(* The duty to look at a returned value is never lost, nor doubled: while   *)
(* nobody has looked and nothing complained some copy has it, and one only, *)
(* the last, unless the client itself copied one object twice.              *)
(* (CheckReturn's copy constructor, CheckReturn.h:121-126.)                 *)
OneCarriesTheDuty ==
  \A c \in Chain :
    /\ fate[c] = "unseen" => Unchecked(c) # {}
    /\ c \notin forked => Cardinality(Unchecked(c)) <= 1
    /\ \A r \in Unchecked(c) : ~returned[r].copied
=============================================================================
