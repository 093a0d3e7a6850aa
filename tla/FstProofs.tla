------------------------------ MODULE FstProofs ------------------------------
(****************************************************************************)
(* What holds of the transducer for every alphabet and every set of strings *)
(* and keys: types, room in the array of states, the tree of transitions,   *)
(* and where is_final_state is safe.                                        *)
(****************************************************************************)
EXTENDS Fst, SharedProofs

\* The inductive invariant.  Beyond the properties of Fst, the cursor of a
\* call stays on a state, and the array is never smaller than at the start
\* (growing by 16/10 makes room only from 2 elements on).
Cursor == at.state \in 0..fst.len /\ at.pos >= 1

Serving ==
    /\ pc = "add" => call.op = "add"
    /\ pc = "lookup" => call.op # "add"

Room == RoomForStates /\ fst.size >= 10

IInv ==
    /\ TypeOK
    /\ Cursor
    /\ Serving
    /\ Room
    /\ Tree
    /\ NoDeadEnds
    /\ FaultOnlyWhenEmpty
    /\ HonestErrors

-----------------------------------------------------------------------------

\* fst_rule_lookup on a state of the transducer finds the transition for the
\* character, or says that there is none.
LEMMA RuleLookup ==
    ASSUME TypeOK, Deterministic, NEW s \in 0..fst.len, NEW c
    PROVE  LET r == FstRuleLookup(s, c)
           IN  \/ /\ r.err = "OK"
                  /\ \E i \in DOMAIN trans[s] :
                        trans[s][i].chr = c /\ r.nxt = trans[s][i].next
               \/ /\ r.err = "ENOENT"
                  /\ \A i \in DOMAIN trans[s] : trans[s][i].chr # c
  <1> DEFINE match == {i \in DOMAIN trans[s] : trans[s][i].chr = c}
  <1>1. fst.len \in Nat /\ s \in DOMAIN trans /\ trans[s] \in Seq(Transitions)
    BY DEF TypeOK, VecHeader
  <1>2. ~OutOfRange(s, fst.len)
    BY <1>1 DEF OutOfRange
  <1>3. CASE match = {}
    BY <1>2, <1>3 DEF FstRuleLookup
  <1>4. CASE match # {}
    <2>1. PICK i \in match : TRUE
      BY <1>4
    <2>2. \A j \in match : j = i
      BY <1>1, <2>1 DEF Deterministic
    <2>3. i \in Nat
      BY <1>1, <2>1
    <2>4. (CHOOSE k \in match : \A j \in match : k <= j) = i
      BY <2>1, <2>2, <2>3
    <2>5. FstRuleLookup(s, c) = [err |-> "OK", nxt |-> trans[s][i].next]
      BY <1>2, <1>4, <2>4 DEF FstRuleLookup
    <2> QED
      BY <2>1, <2>5
  <1> QED
    BY <1>3, <1>4

\* The turn of a loop looks the character up in a state of the transducer; a
\* transition on a character leads further.
LEMMA Turn ==
    ASSUME IInv, pc \in {"add", "lookup"}
    PROVE  /\ Chr \in Char \cup {NUL}
           /\ at.state \in DOMAIN trans
           /\ \/ /\ Enext.err = "OK"
                 /\ \E i \in DOMAIN trans[at.state] :
                       /\ trans[at.state][i].chr = Chr
                       /\ Enext.nxt = trans[at.state][i].next
                 /\ Enext.nxt \in Nat
                 /\ Chr # NUL => Enext.nxt \in (at.state + 1)..fst.len
              \/ /\ Enext.err = "ENOENT"
                 /\ \A i \in DOMAIN trans[at.state] : trans[at.state][i].chr # Chr
  <1>1. call.str \in Seq(Char)
    BY ApiAssumption DEF IInv, TypeOK, Calls
  <1>2. Chr \in Char \cup {NUL}
    BY <1>1 DEF Chr, IInv, TypeOK, Cursor
  <1>3. at.state \in DOMAIN trans /\ trans[at.state] \in Seq(Transitions)
    BY DEF IInv, TypeOK, Cursor
  <1>4. \/ /\ Enext.err = "OK"
           /\ \E i \in DOMAIN trans[at.state] :
                 trans[at.state][i].chr = Chr /\ Enext.nxt = trans[at.state][i].next
        \/ /\ Enext.err = "ENOENT"
           /\ \A i \in DOMAIN trans[at.state] : trans[at.state][i].chr # Chr
    BY RuleLookup DEF Enext, IInv, Tree, Cursor
  <1>5. \A i \in DOMAIN trans[at.state] :
           /\ trans[at.state][i].next \in Nat
           /\ trans[at.state][i].chr # NUL =>
                 trans[at.state][i].next \in (at.state + 1)..fst.len
    <2> TAKE i \in DOMAIN trans[at.state]
    <2>1. trans[at.state][i] \in Transitions
      BY <1>3
    <2> QED
      BY <1>3, <2>1 DEF Transitions, IInv, Tree, Forward
  <1> QED
    BY <1>2, <1>3, <1>4, <1>5

\* A step that leaves the transducer alone keeps the invariant, provided the
\* cursor leaves no state without transitions behind, and the process dies
\* only where FaultOnlyWhenEmpty says.
LEMMA Quiet ==
    ASSUME IInv, UNCHANGED <<fst, trans>>,
           pc' \in {"idle", "add", "lookup", "fault"},
           call' \in Calls,
           at' \in [state : 0..fst.len, pos : Nat \ {0}],
           ret' \in Answers,
           pc = "add" => \/ trans[at.state] # <<>>
                         \/ at.state = 0,
           pc' = "fault" => fst.len = 0 /\ trans[0] = <<>>,
           Serving', HonestErrors'
    PROVE  IInv'
  <1>1. fst.len \in Nat
    BY DEF IInv, TypeOK, VecHeader
  <1>2. at'.state \in 0..fst.len /\ at'.pos \in Nat \ {0}
    OBVIOUS
  <1>3. at' \in [state : Nat, pos : Nat]
    BY <1>1
  <1>4. TypeOK'
    BY <1>3 DEF IInv, TypeOK
  <1>5. Cursor'
    BY <1>1, <1>2 DEF Cursor
  <1>6. Room' /\ Tree'
    BY DEF IInv, Room, RoomForStates, Tree, Forward, Deterministic,
           EntersOnce, Entered
  <1>7. NoDeadEnds'
    BY <1>1 DEF IInv, NoDeadEnds
  <1>8. FaultOnlyWhenEmpty'
    BY DEF FaultOnlyWhenEmpty
  <1> QED
    BY <1>4, <1>5, <1>6, <1>7, <1>8 DEF IInv

\* A new transducer (fst_new) satisfies the invariant.
LEMMA InitInv == Init => IInv
  <1> SUFFICES ASSUME Init PROVE IInv
    OBVIOUS
  <1>1. fst = [base |-> TRUE, len |-> 0, size |-> 10]
    BY DEF Init, VecMakeRoom, VecAlloc, VecEmpty
  <1>2. trans \in [0..0 -> Seq(Transitions)] /\ trans[0] = <<>>
    BY DEF Init
  <1>3. DOMAIN trans = {0} /\ 0..0 = {0} /\ 1..0 = {}
    BY DEF Init
  <1>4. TypeOK
    <2>1. fst \in VecHeader /\ trans \in [0..fst.len -> Seq(Transitions)]
      BY <1>1, <1>2 DEF VecHeader
    <2>2. at \in [state : Nat, pos : Nat]
      BY DEF Init, Start
    <2>3. ret \in Answers
      BY DEF Init, Answers, Pending, Answer
    <2> QED
      BY <2>1, <2>2, <2>3 DEF Init, TypeOK
  <1>5. Cursor
    BY <1>1 DEF Init, Cursor, Start
  <1>6. Room
    BY <1>1 DEF Room, RoomForStates, VecInRoom
  <1>7. Tree
    BY <1>1, <1>2, <1>3 DEF Tree, Forward, Deterministic, EntersOnce, Entered
  <1>8. NoDeadEnds
    BY <1>1, <1>3 DEF NoDeadEnds
  <1>9. Serving /\ FaultOnlyWhenEmpty /\ HonestErrors
    BY DEF Init, Serving, FaultOnlyWhenEmpty, HonestErrors
  <1> QED
    BY <1>4, <1>5, <1>6, <1>7, <1>8, <1>9 DEF IInv

\* A call that answers leaves the cursor at the start.
LEMMA Returning ==
    ASSUME IInv, UNCHANGED <<fst, trans>>, pc \in {"add", "lookup"},
           NEW err, NEW val \in Nat \cup {UNDEF},
           Return(err, val),
           err \in IF call.op = "add" THEN {"OK", "EEXIST"} ELSE {"OK", "ENOENT"},
           pc = "add" => trans[at.state] # <<>>
    PROVE  IInv'
  <1>1. fst.len \in Nat
    BY DEF IInv, TypeOK, VecHeader
  <1>2. at' \in [state : 0..fst.len, pos : Nat \ {0}]
    BY <1>1 DEF Return, Start
  <1>3. err \in Errors
    BY DEF Errors
  <1>4. ret' \in Answers
    BY <1>3 DEF Return, Answers, Answer
  <1>5. HonestErrors'
    BY DEF HonestErrors, Return, Answer
  <1>6. Serving'
    BY DEF Serving, Return
  <1> QED
    BY <1>2, <1>4, <1>5, <1>6, Quiet DEF Return, IInv, TypeOK

\* A turn that follows a transition, or makes one, moves the cursor on.
LEMMA Following ==
    ASSUME IInv, UNCHANGED <<fst, trans>>, pc \in {"add", "lookup"},
           NEW s \in 0..fst.len, Goto(s), trans[at.state] # <<>>
    PROVE  IInv'
  <1>1. at' \in [state : 0..fst.len, pos : Nat \ {0}]
    BY DEF Goto, IInv, TypeOK
  <1>2. HonestErrors'
    BY DEF HonestErrors, Goto
  <1>3. Serving'
    BY DEF IInv, Serving, Goto
  <1> QED
    BY <1>1, <1>2, <1>3, Quiet DEF Goto, IInv, TypeOK

\* Entering a call puts the cursor on state 0.
LEMMA InvokeInv ==
    ASSUME IInv, NEW c \in Calls, Invoke(c)
    PROVE  IInv'
  <1>1. fst.len \in Nat
    BY DEF IInv, TypeOK, VecHeader
  <1>2. at' \in [state : 0..fst.len, pos : Nat \ {0}]
    BY <1>1 DEF Invoke, Start
  <1>3. ret' \in Answers
    BY DEF Invoke, Answers, Pending, Answer
  <1>4. HonestErrors'
    BY DEF HonestErrors, Invoke
  <1>5. Serving'
    BY DEF Serving, Invoke
  <1> QED
    BY <1>2, <1>3, <1>4, <1>5, Quiet DEF Invoke

\* An addition fails only because the string is there already.
LEMMA AddFailInv ==
    ASSUME IInv, AddFail
    PROVE  IInv'
  <1>1. Enext.err = "OK"
    BY Turn DEF AddFail
  <1>2. trans[at.state] # <<>>
    BY <1>1, Turn DEF AddFail
  <1>3. Return("EEXIST", UNDEF) /\ pc = "add" /\ UNCHANGED <<fst, trans>>
    BY <1>1 DEF AddFail
  <1>4. call.op = "add"
    BY <1>3 DEF IInv, Serving
  <1> QED
    BY <1>2, <1>3, <1>4, Returning

\* An addition walks on along a transition it found.
LEMMA AddFollowInv ==
    ASSUME IInv, AddFollow
    PROVE  IInv'
  <1>1. Enext.nxt \in 0..fst.len /\ trans[at.state] # <<>>
    BY Turn DEF AddFollow, IInv, Cursor
  <1> QED
    BY <1>1, Following DEF AddFollow

\* So does a lookup; the branch for a next state 0 is never taken.
LEMMA LookupFollowInv ==
    ASSUME IInv, LookupFollow
    PROVE  IInv'
  <1>1. pc = "lookup" /\ call.op # "add" /\ UNCHANGED <<fst, trans>>
    BY DEF LookupFollow, PastPrefixTest, IInv, Serving
  <1>2. Enext.nxt \in 1..fst.len
    BY <1>1, Turn DEF LookupFollow, IInv, Cursor
  <1>3. trans[at.state] # <<>>
    BY <1>1, Turn DEF LookupFollow
  <1>4. Goto(Enext.nxt)
    BY <1>2 DEF LookupFollow
  <1> QED
    BY <1>1, <1>2, <1>3, <1>4, Following

\* State 0 is the only state without transitions that a lookup can stand on,
\* and any other state hangs, through a chain of earlier ones, from state 0.
LEMMA LookupFaultInv ==
    ASSUME IInv, LookupFault
    PROVE  IInv'
  <1>1. pc = "lookup" /\ trans[at.state] = <<>>
    BY DEF LookupFault, AtPrefixTest
  <1>2. fst.len \in Nat /\ trans \in [0..fst.len -> Seq(Transitions)]
    BY DEF IInv, TypeOK, VecHeader
  <1>3. at.state = 0
    BY <1>1, <1>2 DEF IInv, Cursor, NoDeadEnds
  <1>4. fst.len = 0
    <2> SUFFICES ASSUME fst.len # 0 PROVE FALSE
      OBVIOUS
    <2>1. PICK s \in DOMAIN trans : \E i \in DOMAIN trans[s] :
              trans[s][i].chr # NUL /\ trans[s][i].next = 1
      BY <1>2 DEF IInv, Tree, Entered
    <2>2. s \in 0..fst.len /\ 1 \in (s + 1)..fst.len
      BY <1>2, <2>1 DEF IInv, Tree, Forward
    <2>3. s = 0
      BY <1>2, <2>2
    <2> QED
      BY <1>1, <1>3, <2>1, <2>3
  <1>5. at' \in [state : 0..fst.len, pos : Nat \ {0}]
    BY DEF LookupFault, IInv, TypeOK, Cursor
  <1>6. Serving' /\ HonestErrors'
    BY DEF LookupFault, Serving, HonestErrors
  <1> QED
    BY <1>1, <1>3, <1>4, <1>5, <1>6, Quiet DEF LookupFault, IInv, TypeOK

\* A lookup that answers changes nothing and reports OK or ENOENT.
LEMMA LookupAnswerInv ==
    ASSUME IInv, LookupFinal \/ LookupEnd \/ LookupMiss
    PROVE  IInv'
  <1>1. pc = "lookup" /\ call.op # "add" /\ UNCHANGED <<fst, trans>>
    BY DEF LookupFinal, LookupEnd, LookupMiss, PastPrefixTest, AtPrefixTest,
           IInv, Serving
  <1>2. trans[at.state] \in Seq(Transitions)
    BY DEF IInv, TypeOK, Cursor
  <1>3. CASE LookupFinal
    <2>1. trans[at.state][1] \in Transitions
      BY <1>2, <1>3 DEF LookupFinal
    <2>2. trans[at.state][1].next \in Nat
      BY <2>1 DEF Transitions
    <2> QED
      BY <1>1, <1>3, <2>2, Returning DEF LookupFinal
  <1>4. CASE LookupEnd
    BY <1>1, <1>4, Turn, Returning DEF LookupEnd
  <1>5. CASE LookupMiss
    <2>1. Return("ENOENT", UNDEF)
      BY <1>1, <1>5, Turn DEF LookupMiss
    <2> QED
      BY <1>1, <2>1, Returning
  <1> QED
    BY <1>3, <1>4, <1>5

\* Appending a transition changes one state, at its end.
LEMMA Appended ==
    ASSUME NEW trs, NEW s \in DOMAIN trs, NEW e \in Transitions,
           \A t \in DOMAIN trs : trs[t] \in Seq(Transitions)
    PROVE  LET new == [trs EXCEPT ![s] = Append(@, e)]
               n == Len(trs[s]) + 1
           IN  /\ DOMAIN new = DOMAIN trs
               /\ \A t \in DOMAIN trs \ {s} : new[t] = trs[t]
               /\ \A t \in DOMAIN trs : new[t] \in Seq(Transitions)
               /\ new[s] # <<>>
               /\ n \notin DOMAIN trs[s]
               /\ DOMAIN new[s] = DOMAIN trs[s] \cup {n}
               /\ \A i \in DOMAIN trs[s] : new[s][i] = trs[s][i]
               /\ new[s][n] = e
  <1> DEFINE new == [trs EXCEPT ![s] = Append(@, e)]
             n == Len(trs[s]) + 1
  <1>1. DOMAIN new = DOMAIN trs /\ \A t \in DOMAIN trs \ {s} : new[t] = trs[t]
    OBVIOUS
  <1>2. new[s] = Append(trs[s], e)
    OBVIOUS
  <1>3. trs[s] \in Seq(Transitions) /\ n \in Nat
    OBVIOUS
  <1>4. /\ new[s] \in Seq(Transitions)
        /\ Len(new[s]) = n
        /\ new[s][n] = e
        /\ \A i \in 1..Len(trs[s]) : new[s][i] = trs[s][i]
    BY <1>2, <1>3
  <1>5. DOMAIN trs[s] = 1..Len(trs[s]) /\ DOMAIN new[s] = 1..n
    BY <1>3, <1>4
  <1>6. new[s] # <<>> /\ n \notin DOMAIN trs[s]
        /\ DOMAIN new[s] = DOMAIN trs[s] \cup {n}
    BY <1>3, <1>4, <1>5
  <1> HIDE DEF new, n
  <1>7. \A t \in DOMAIN trs : new[t] \in Seq(Transitions)
    BY <1>1, <1>4
  <1>8. /\ DOMAIN new = DOMAIN trs
        /\ \A t \in DOMAIN trs \ {s} : new[t] = trs[t]
        /\ \A t \in DOMAIN trs : new[t] \in Seq(Transitions)
        /\ new[s] # <<>>
        /\ n \notin DOMAIN trs[s]
        /\ DOMAIN new[s] = DOMAIN trs[s] \cup {n}
        /\ \A i \in DOMAIN trs[s] : new[s][i] = trs[s][i]
        /\ new[s][n] = e
    BY <1>1, <1>4, <1>5, <1>6, <1>7
  <1> QED
    BY <1>8 DEF new, n

\* The end of fst_add_string puts a transition on NUL, which the state did not
\* have, behind the others.
LEMMA FinalAdded ==
    ASSUME IInv, AddFinal
    PROVE  LET s == at.state
               n == Len(trans[s]) + 1
           IN  /\ pc = "add" /\ call.op = "add" /\ call.val \in Nat
               /\ s \in 0..fst.len
               /\ Return("OK", UNDEF) /\ UNCHANGED fst
               /\ Chr = NUL /\ \A i \in DOMAIN trans[s] : trans[s][i].chr # NUL
               /\ trans' \in [0..fst.len -> Seq(Transitions)]
               /\ \A t \in DOMAIN trans \ {s} : trans'[t] = trans[t]
               /\ trans'[s] # <<>>
               /\ n \notin DOMAIN trans[s]
               /\ DOMAIN trans'[s] = DOMAIN trans[s] \cup {n}
               /\ \A i \in DOMAIN trans[s] : trans'[s][i] = trans[s][i]
               /\ trans'[s][n] = [chr |-> NUL, next |-> call.val]
  <1> DEFINE s == at.state
             e == [chr |-> NUL, next |-> call.val]
             n == Len(trans[s]) + 1
  <1>1. /\ pc = "add" /\ call.op = "add" /\ call.val \in Nat
        /\ fst.len \in Nat /\ s \in 0..fst.len /\ s \in DOMAIN trans
        /\ trans \in [0..fst.len -> Seq(Transitions)]
    BY ApiAssumption
       DEF AddFinal, IInv, Serving, TypeOK, Cursor, VecHeader, Calls
  <1>2. Chr = NUL /\ \A i \in DOMAIN trans[s] : trans[s][i].chr # NUL
    BY <1>1, Turn DEF AddFinal
  <1>3. TransitionError(s, NUL, call.val, fst.len) = "OK"
    BY <1>1 DEF TransitionError, OutOfRange
  <1>4. /\ trans' = [trans EXCEPT ![s] = Append(@, e)]
        /\ Return("OK", UNDEF)
        /\ UNCHANGED fst
    BY <1>3 DEF AddFinal, FstAddTransition
  <1>5. e \in Transitions
    BY <1>1 DEF Transitions
  <1>6. /\ DOMAIN trans' = DOMAIN trans
        /\ \A t \in DOMAIN trans \ {s} : trans'[t] = trans[t]
        /\ \A t \in DOMAIN trans : trans'[t] \in Seq(Transitions)
        /\ trans'[s] # <<>>
        /\ n \notin DOMAIN trans[s]
        /\ DOMAIN trans'[s] = DOMAIN trans[s] \cup {n}
        /\ \A i \in DOMAIN trans[s] : trans'[s][i] = trans[s][i]
        /\ trans'[s][n] = e
    <2> HIDE DEF e
    <2> QED BY <1>1, <1>4, <1>5, Appended
  <1>7. trans' \in [0..fst.len -> Seq(Transitions)]
    BY <1>1, <1>4, <1>6
  <1> HIDE DEF n, s
  <1>8. /\ pc = "add" /\ call.op = "add" /\ call.val \in Nat
        /\ s \in 0..fst.len
        /\ Return("OK", UNDEF) /\ UNCHANGED fst
        /\ Chr = NUL /\ \A i \in DOMAIN trans[s] : trans[s][i].chr # NUL
        /\ trans' \in [0..fst.len -> Seq(Transitions)]
        /\ \A t \in DOMAIN trans \ {s} : trans'[t] = trans[t]
        /\ trans'[s] # <<>>
        /\ n \notin DOMAIN trans[s]
        /\ DOMAIN trans'[s] = DOMAIN trans[s] \cup {n}
        /\ \A i \in DOMAIN trans[s] : trans'[s][i] = trans[s][i]
        /\ trans'[s][n] = e
    BY <1>1, <1>2, <1>4, <1>6, <1>7
  <1> QED
    BY <1>8 DEF n, s

\* The value of a string goes in a state that has no transition on NUL: the
\* tree does not change.
LEMMA AddFinalInv ==
    ASSUME IInv, AddFinal
    PROVE  IInv'
  <1> DEFINE s == at.state
             n == Len(trans[s]) + 1
  <1>1. /\ fst.len \in Nat /\ s \in DOMAIN trans
        /\ trans \in [0..fst.len -> Seq(Transitions)]
    BY DEF IInv, TypeOK, Cursor, VecHeader
  <1>2. /\ pc = "add" /\ call.op = "add" /\ s \in 0..fst.len
        /\ \A i \in DOMAIN trans[s] : trans[s][i].chr # NUL
    BY FinalAdded
  <1>4. Return("OK", UNDEF) /\ UNCHANGED fst
    BY FinalAdded
  <1>6. /\ trans' \in [0..fst.len -> Seq(Transitions)]
        /\ DOMAIN trans' = DOMAIN trans
        /\ \A t \in DOMAIN trans \ {s} : trans'[t] = trans[t]
        /\ trans'[s] # <<>>
        /\ DOMAIN trans'[s] = DOMAIN trans[s] \cup {n}
        /\ \A i \in DOMAIN trans[s] : trans'[s][i] = trans[s][i]
        /\ trans'[s][n].chr = NUL
    BY <1>1, FinalAdded
  <1>7. trans' \in [0..fst'.len -> Seq(Transitions)]
    BY <1>4, <1>6
  <1>8. TypeOK'
    <2>1. ret' \in Answers
      BY <1>4 DEF Return, Answers, Answer, Errors
    <2>2. at' \in [state : Nat, pos : Nat]
      BY <1>4 DEF Return, Start
    <2> QED
      BY <1>4, <1>7, <2>1, <2>2 DEF TypeOK, IInv, Return
  <1>9. Cursor' /\ Serving' /\ HonestErrors'
    BY <1>1, <1>4 DEF Return, Start, Cursor, Serving, HonestErrors, Answer
  <1>10. Room'
    BY <1>4 DEF IInv, Room, RoomForStates
  <1>11. Tree'
    <2> HIDE DEF n
    <2>1. Forward'
      BY <1>4, <1>6 DEF IInv, Tree, Forward
    <2>2. Deterministic'
      <3>1. SUFFICES ASSUME NEW t \in DOMAIN trans',
                            NEW i \in DOMAIN trans'[t], NEW j \in DOMAIN trans'[t],
                            trans'[t][i].chr = trans'[t][j].chr
                     PROVE  i = j
        BY DEF Deterministic
      <3>2. CASE t # s
        BY <1>6, <3>1, <3>2 DEF IInv, Tree, Deterministic
      <3>3. CASE t = s
        <4>1. trans'[s][n].chr = NUL
          BY <1>6
        <4>2. \A k \in DOMAIN trans[s] : trans'[s][k].chr # NUL
          BY <1>2, <1>6
        <4>3. i \in DOMAIN trans[s] /\ j \in DOMAIN trans[s] => i = j
          BY <1>1, <1>6, <3>1, <3>3 DEF IInv, Tree, Deterministic
        <4> QED
          BY <1>6, <3>1, <3>3, <4>1, <4>2, <4>3
      <3> QED
        BY <3>2, <3>3
    <2>3. EntersOnce'
      <3>1. \A t \in DOMAIN trans : \A i \in DOMAIN trans'[t] :
               trans'[t][i].chr # NUL =>
                   i \in DOMAIN trans[t] /\ trans'[t][i] = trans[t][i]
        <4>1. trans'[s][n].chr = NUL
          BY <1>6
        <4> QED
          BY <1>6, <4>1
      <3> QED
        BY <1>6, <3>1 DEF IInv, Tree, EntersOnce
    <2>4. Entered'
      BY <1>4, <1>6 DEF IInv, Tree, Entered
    <2> QED
      BY <2>1, <2>2, <2>3, <2>4 DEF Tree
  <1>12. NoDeadEnds'
    BY <1>1, <1>4, <1>6 DEF IInv, NoDeadEnds
  <1>13. FaultOnlyWhenEmpty'
    BY <1>4 DEF FaultOnlyWhenEmpty, Return
  <1> QED
    BY <1>8, <1>9, <1>10, <1>11, <1>12, <1>13 DEF IInv

\* fst_add_state and fst_add_transition: the new state has the next number, is
\* inside the array, and one new transition leads to it.
LEMMA StateAdded ==
    ASSUME IInv, AddNewState
    PROVE  LET s == at.state
               new == fst.len + 1
               n == Len(trans[s]) + 1
           IN  /\ pc = "add" /\ call.op = "add"
               /\ s \in 0..fst.len
               /\ Chr \in Char /\ \A i \in DOMAIN trans[s] : trans[s][i].chr # Chr
               /\ fst' \in VecHeader /\ fst'.base /\ fst'.len = new
               /\ fst'.size >= 10 /\ new < fst'.size
               /\ Goto(new)
               /\ trans' \in [0..new -> Seq(Transitions)]
               /\ trans'[new] = <<>>
               /\ \A t \in DOMAIN trans \ {s} : trans'[t] = trans[t]
               /\ trans'[s] # <<>>
               /\ n \notin DOMAIN trans[s]
               /\ DOMAIN trans'[s] = DOMAIN trans[s] \cup {n}
               /\ \A i \in DOMAIN trans[s] : trans'[s][i] = trans[s][i]
               /\ trans'[s][n] = [chr |-> Chr, next |-> new]
  <1> DEFINE s == at.state
             new == fst.len + 1
             trs == Extended(trans, new, <<>>)
             e == [chr |-> Chr, next |-> new]
             n == Len(trans[s]) + 1
  <1>1. /\ pc = "add" /\ call.op = "add"
        /\ fst \in VecHeader /\ fst.len \in Nat /\ fst.size \in Nat
        /\ s \in 0..fst.len /\ s \in DOMAIN trans /\ s # new
        /\ trans \in [0..fst.len -> Seq(Transitions)]
        /\ new \in Nat /\ new \notin DOMAIN trans
    BY DEF AddNewState, IInv, Serving, TypeOK, Cursor, VecHeader
  <1>2. Chr \in Char /\ \A i \in DOMAIN trans[s] : trans[s][i].chr # Chr
    BY <1>1, Turn DEF AddNewState
  <1>3. /\ fst' \in VecHeader /\ fst'.base /\ fst'.len = new
        /\ fst'.size >= 10 /\ new < fst'.size
    <2>1. fst.base /\ fst.size >= 10 /\ new <= fst.size
      BY <1>1 DEF IInv, Room, RoomForStates, VecInRoom
    <2> DEFINE w == VecMakeRoom(fst, new)
    <2>2. /\ w \in VecHeader /\ w.base /\ w.len = fst.len
          /\ w.size >= 10 /\ new < w.size
      BY <1>1, <2>1, MakeRoomFits
    <2>3. fst' = [w EXCEPT !.len = @ + 1]
      BY DEF AddNewState, NewState
    <2> HIDE DEF w
    <2> QED
      BY <1>1, <2>2, <2>3 DEF VecHeader
  <1>4. /\ DOMAIN trs = 0..new
        /\ trs[new] = <<>>
        /\ \A t \in DOMAIN trans : trs[t] = trans[t]
        /\ \A t \in DOMAIN trs : trs[t] \in Seq(Transitions)
    BY <1>1 DEF Extended
  <1>5. trans' = [trs EXCEPT ![s] = Append(@, e)] /\ Goto(new)
    <2>1. TransitionError(s, Chr, new, fst.len + 1) = "OK"
      BY <1>1 DEF TransitionError, OutOfRange
    <2> QED
      BY <2>1 DEF AddNewState, FstAddTransition, NewState
  <1>6. e \in Transitions /\ e.chr = Chr /\ e.next = new
    BY <1>1, <1>2 DEF Transitions
  <1>7. /\ DOMAIN trans' = 0..new
        /\ \A t \in DOMAIN trans' : trans'[t] \in Seq(Transitions)
        /\ trans'[new] = <<>>
        /\ \A t \in DOMAIN trans \ {s} : trans'[t] = trans[t]
        /\ trans'[s] # <<>>
        /\ n \notin DOMAIN trans[s]
        /\ DOMAIN trans'[s] = DOMAIN trans[s] \cup {n}
        /\ \A i \in DOMAIN trans[s] : trans'[s][i] = trans[s][i]
        /\ trans'[s][n] = e
    <2> HIDE DEF e, trs, new
    <2>1. s \in DOMAIN trs /\ trs[s] = trans[s] /\ new \in DOMAIN trs
      BY <1>1, <1>4 DEF new
    <2>2. /\ DOMAIN trans' = DOMAIN trs
          /\ \A t \in DOMAIN trs \ {s} : trans'[t] = trs[t]
          /\ \A t \in DOMAIN trs : trans'[t] \in Seq(Transitions)
          /\ trans'[s] # <<>>
          /\ n \notin DOMAIN trs[s]
          /\ DOMAIN trans'[s] = DOMAIN trs[s] \cup {n}
          /\ \A i \in DOMAIN trs[s] : trans'[s][i] = trs[s][i]
          /\ trans'[s][n] = e
      <3>1. n = Len(trs[s]) + 1
        BY <2>1
      <3>2. LET q == [trs EXCEPT ![s] = Append(@, e)]
                m == Len(trs[s]) + 1
            IN  /\ DOMAIN q = DOMAIN trs
                /\ \A t \in DOMAIN trs \ {s} : q[t] = trs[t]
                /\ \A t \in DOMAIN trs : q[t] \in Seq(Transitions)
                /\ q[s] # <<>>
                /\ m \notin DOMAIN trs[s]
                /\ DOMAIN q[s] = DOMAIN trs[s] \cup {m}
                /\ \A i \in DOMAIN trs[s] : q[s][i] = trs[s][i]
                /\ q[s][m] = e
        <4>1. \A t \in DOMAIN trs : trs[t] \in Seq(Transitions)
          BY <1>4
        <4>2. s \in DOMAIN trs /\ e \in Transitions
          BY <1>6, <2>1
        <4> HIDE DEF n, s
        <4> QED
          BY <4>1, <4>2, Appended
      <3> HIDE DEF n
      <3> QED
        BY <1>5, <3>1, <3>2
    <2>3. new # s
      BY <1>1 DEF new
    <2>4. trans'[new] = <<>>
      BY <1>4, <2>1, <2>2, <2>3
    <2>5. \A t \in DOMAIN trans \ {s} : trans'[t] = trans[t]
      <3>1. \A t \in DOMAIN trans : t \in DOMAIN trs /\ trs[t] = trans[t]
        BY <1>1, <1>4 DEF new
      <3> QED
        BY <2>2, <3>1
    <2> QED
      BY <1>4, <2>1, <2>2, <2>4, <2>5
  <1>8. trans' \in [0..new -> Seq(Transitions)]
    <2>1. trans' = [t \in 0..new |-> trans'[t]]
      BY <1>5, <1>7, ZenonT(40) DEF trs, Extended
    <2> QED
      BY <1>7, <2>1
  <1> HIDE DEF trs, n, s, new
  <1>9. /\ pc = "add" /\ call.op = "add"
        /\ s \in 0..fst.len
        /\ Chr \in Char /\ \A i \in DOMAIN trans[s] : trans[s][i].chr # Chr
        /\ fst' \in VecHeader /\ fst'.base /\ fst'.len = new
        /\ fst'.size >= 10 /\ new < fst'.size
        /\ Goto(new)
        /\ trans' \in [0..new -> Seq(Transitions)]
        /\ trans'[new] = <<>>
        /\ \A t \in DOMAIN trans \ {s} : trans'[t] = trans[t]
        /\ trans'[s] # <<>>
        /\ n \notin DOMAIN trans[s]
        /\ DOMAIN trans'[s] = DOMAIN trans[s] \cup {n}
        /\ \A i \in DOMAIN trans[s] : trans'[s][i] = trans[s][i]
        /\ trans'[s][n] = [chr |-> Chr, next |-> new]
    BY <1>1, <1>2, <1>3, <1>5, <1>7, <1>8
  <1> QED
    BY <1>9 DEF n, s, new

\* A new state is numbered after all others, inside the array, and hangs from
\* the cursor's state by the one new transition.
LEMMA AddNewStateInv ==
    ASSUME IInv, AddNewState
    PROVE  IInv'
  <1> DEFINE s == at.state
             new == fst.len + 1
             e == [chr |-> Chr, next |-> new]
             n == Len(trans[s]) + 1
  <1>1. /\ pc = "add" /\ call.op = "add"
        /\ fst.len \in Nat /\ s \in 0..fst.len /\ s \in DOMAIN trans /\ s # new
        /\ trans \in [0..fst.len -> Seq(Transitions)]
        /\ new \in Nat /\ new \notin DOMAIN trans
    BY DEF AddNewState, IInv, Serving, TypeOK, Cursor, VecHeader
  <1>2. Chr \in Char /\ \A i \in DOMAIN trans[s] : trans[s][i].chr # Chr
    BY StateAdded
  <1>3. /\ fst' \in VecHeader /\ fst'.base /\ fst'.len = new
        /\ fst'.size >= 10 /\ new < fst'.size
    BY StateAdded
  <1>5. Goto(new)
    BY StateAdded
  <1>6. e.chr = Chr /\ e.next = new
    OBVIOUS
  <1>7. /\ trans' \in [0..new -> Seq(Transitions)]
        /\ DOMAIN trans' = 0..new
        /\ trans'[new] = <<>>
        /\ \A t \in DOMAIN trans \ {s} : trans'[t] = trans[t]
        /\ trans'[s] # <<>>
        /\ n \notin DOMAIN trans[s]
        /\ DOMAIN trans'[s] = DOMAIN trans[s] \cup {n}
        /\ \A i \in DOMAIN trans[s] : trans'[s][i] = trans[s][i]
        /\ trans'[s][n] = e
    BY StateAdded
  <1> HIDE DEF e, n
  <1>8. \A t \in DOMAIN trans' : \A i \in DOMAIN trans'[t] :
           \/ t \in DOMAIN trans /\ i \in DOMAIN trans[t] /\ trans'[t][i] = trans[t][i]
           \/ t = s /\ i = n
    <2> SUFFICES ASSUME NEW t \in DOMAIN trans', NEW i \in DOMAIN trans'[t]
                 PROVE  \/ /\ t \in DOMAIN trans /\ i \in DOMAIN trans[t]
                           /\ trans'[t][i] = trans[t][i]
                        \/ t = s /\ i = n
      OBVIOUS
    <2>1. t \in DOMAIN trans \/ t = new
      BY <1>1, <1>7
    <2> QED
      BY <1>7, <2>1
  <1>9. \A t \in DOMAIN trans : \A i \in DOMAIN trans[t] :
           trans[t][i].chr # NUL => trans[t][i].next \in (t + 1)..fst.len
    BY DEF IInv, Tree, Forward
  <1>10. TypeOK'
    <2>1. trans' \in [0..fst'.len -> Seq(Transitions)]
      BY <1>3, <1>7
    <2>2. at' \in [state : Nat, pos : Nat]
      BY <1>1, <1>5 DEF IInv, TypeOK, Goto
    <2> QED
      BY <1>3, <1>5, <2>1, <2>2 DEF IInv, TypeOK, Goto
  <1>11. Cursor' /\ Serving' /\ HonestErrors'
    BY <1>1, <1>3, <1>5 DEF IInv, TypeOK, Cursor, Serving, HonestErrors, Goto
  <1>12. Room'
    BY <1>3 DEF Room, RoomForStates, VecInRoom
  <1>13. Forward'
    <2> SUFFICES ASSUME NEW t \in DOMAIN trans', NEW i \in DOMAIN trans'[t],
                        trans'[t][i].chr # NUL
                 PROVE  trans'[t][i].next \in (t + 1)..fst'.len
      BY DEF Forward
    <2>1. CASE t = s /\ i = n
      BY <1>1, <1>3, <1>6, <1>7, <2>1, SMTT(30)
    <2>2. CASE t \in DOMAIN trans /\ i \in DOMAIN trans[t] /\ trans'[t][i] = trans[t][i]
      <3>1. trans'[t][i].next \in (t + 1)..fst.len /\ t \in Nat
        BY <1>1, <1>9, <2>2
      <3> QED
        BY <1>1, <1>3, <3>1
    <2> QED
      BY <1>8, <2>1, <2>2
  <1>14. Deterministic'
    <2> SUFFICES ASSUME NEW t \in DOMAIN trans',
                        NEW i \in DOMAIN trans'[t], NEW j \in DOMAIN trans'[t],
                        trans'[t][i].chr = trans'[t][j].chr
                 PROVE  i = j
      BY DEF Deterministic
    <2>1. CASE /\ t \in DOMAIN trans
               /\ i \in DOMAIN trans[t] /\ trans'[t][i] = trans[t][i]
               /\ j \in DOMAIN trans[t] /\ trans'[t][j] = trans[t][j]
      BY <2>1 DEF IInv, Tree, Deterministic
    <2>2. CASE t = s /\ (i = n \/ j = n)
      BY <1>2, <1>6, <1>7, <1>8, <2>2
    <2> QED
      BY <1>8, <2>1, <2>2
  <1>15. EntersOnce'
    <2> SUFFICES ASSUME NEW t \in DOMAIN trans', NEW u \in DOMAIN trans',
                        NEW i \in DOMAIN trans'[t], NEW j \in DOMAIN trans'[u],
                        trans'[t][i].chr # NUL, trans'[u][j].chr # NUL,
                        trans'[t][i].next = trans'[u][j].next
                 PROVE  t = u /\ i = j
      BY DEF EntersOnce
    <2>1. CASE /\ t \in DOMAIN trans /\ u \in DOMAIN trans
               /\ i \in DOMAIN trans[t] /\ trans'[t][i] = trans[t][i]
               /\ j \in DOMAIN trans[u] /\ trans'[u][j] = trans[u][j]
      BY <2>1 DEF IInv, Tree, EntersOnce
    <2>2. \A v \in DOMAIN trans : \A k \in DOMAIN trans[v] :
             trans[v][k].chr # NUL => trans[v][k].next # new
      BY <1>1, <1>9
    <2>3. trans'[s][n].next = new
      BY <1>6, <1>7
    <2> QED
      BY <1>8, <2>1, <2>2, <2>3
  <1>16. Entered'
    <2> SUFFICES ASSUME NEW t \in 1..fst'.len
                 PROVE  \E u \in DOMAIN trans' : \E i \in DOMAIN trans'[u] :
                            trans'[u][i].chr # NUL /\ trans'[u][i].next = t
      BY DEF Entered
    <2>1. CASE t = new
      <3>1. s \in DOMAIN trans' /\ n \in DOMAIN trans'[s]
        BY <1>1, <1>7
      <3>2. trans'[s][n].chr # NUL /\ trans'[s][n].next = t
        BY <1>2, <1>6, <1>7, <2>1, ApiAssumption
      <3> QED
        BY <3>1, <3>2
    <2>2. CASE t \in 1..fst.len
      <3>1. PICK u \in DOMAIN trans : \E i \in DOMAIN trans[u] :
                trans[u][i].chr # NUL /\ trans[u][i].next = t
        BY <2>2 DEF IInv, Tree, Entered
      <3>2. PICK i \in DOMAIN trans[u] : trans[u][i].chr # NUL /\ trans[u][i].next = t
        BY <3>1
      <3>3. u \in DOMAIN trans'
        BY <1>1, <1>7
      <3>4. i \in DOMAIN trans'[u] /\ trans'[u][i] = trans[u][i]
        BY <1>7, <3>1, <3>2
      <3> QED
        BY <3>2, <3>3, <3>4
    <2> QED
      BY <1>1, <1>3, <2>1, <2>2
  <1>17. NoDeadEnds'
    <2> SUFFICES ASSUME NEW t \in 1..fst'.len, trans'[t] = <<>>
                 PROVE  pc' = "add" /\ at'.state = t
      BY DEF NoDeadEnds
    <2>1. t # s
      BY <1>7
    <2>2. t = new
      <3> SUFFICES ASSUME t # new PROVE FALSE
        OBVIOUS
      <3>1. t \in 1..fst.len /\ t \in DOMAIN trans
        BY <1>1, <1>3
      <3>2. trans[t] = <<>>
        BY <1>7, <2>1, <3>1
      <3> QED
        BY <2>1, <3>1, <3>2 DEF IInv, NoDeadEnds
    <2> QED
      BY <1>1, <1>5, <2>2 DEF Goto
  <1>18. FaultOnlyWhenEmpty'
    BY <1>1, <1>5 DEF FaultOnlyWhenEmpty, Goto
  <1> QED
    BY <1>10, <1>11, <1>12, <1>13, <1>14, <1>15, <1>16, <1>17, <1>18 DEF IInv, Tree

-----------------------------------------------------------------------------

\* Every step of the transducer keeps the invariant.
LEMMA StepInv == IInv /\ [Next]_vars => IInv'
  <1> SUFFICES ASSUME IInv, [Next]_vars PROVE IInv'
    OBVIOUS
  <1>1. CASE UNCHANGED vars
    BY <1>1 DEF vars, IInv, TypeOK, Cursor, Serving, Room, RoomForStates, Tree,
                Forward, Deterministic, EntersOnce, Entered, NoDeadEnds,
                FaultOnlyWhenEmpty, HonestErrors
  <1>2. CASE \E c \in Calls : Invoke(c)
    BY <1>2, InvokeInv
  <1>3. CASE AddFail \/ AddFinal \/ AddNewState \/ AddFollow
    BY <1>3, AddFailInv, AddFinalInv, AddNewStateInv, AddFollowInv
  <1>4. CASE LookupFault \/ LookupFinal \/ LookupEnd \/ LookupMiss \/ LookupFollow
    BY <1>4, LookupFaultInv, LookupAnswerInv, LookupFollowInv
  <1> QED
    BY <1>1, <1>2, <1>3, <1>4 DEF Next, Step

\* The inductive invariant holds throughout.
THEOREM Invariance == Spec => []IInv
  BY InitInv, StepInv, PTL DEF Spec

\* The arrays are well formed in every state, for every alphabet and strings.
THEOREM TypeCorrect == Spec => []TypeOK
  BY Invariance, PTL DEF IInv

\* However many states fst_add_state makes, the last one is inside the
\* allocation that vec_make_room left.
THEOREM StatesFit == Spec => []RoomForStates
  <1>1. IInv => RoomForStates
    BY DEF IInv, Room
  <1> QED
    BY <1>1, Invariance, PTL

\* The transitions are a tree rooted in state 0, whatever strings are added
\* and in whatever order.
THEOREM AlwaysTree == Spec => []Tree
  BY Invariance, PTL DEF IInv

\* is_final_state finds a first transition on every state but the one being
\* made and state 0, ...
THEOREM OnlyCursorDeadEnd == Spec => []NoDeadEnds
  BY Invariance, PTL DEF IInv

\* ... so that a prefix lookup dies only in a transducer without strings.
THEOREM FaultMeansEmpty == Spec => []FaultOnlyWhenEmpty
  BY Invariance, PTL DEF IInv

\* EDOM and ELOOP are never reported.
THEOREM ErrorsAreHonest == Spec => []HonestErrors
  BY Invariance, PTL DEF IInv
==============================================================================
