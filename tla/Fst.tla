--------------------------------- MODULE Fst ---------------------------------
(****************************************************************************)
(* The transducer of libfst/libfst.c while it is built and searched: a trie *)
(* of states kept in a growable array.  One action per turn of the loops of *)
(* fst_add_string and fst_lookup; calls come one at a time.                 *)
(****************************************************************************)
EXTENDS FstApi, Vec

VARIABLES
    fst,        \* header of the array of states; states are 0..fst.len
    trans,      \* for each state, its transitions in the order added
    pc,         \* "idle", "add" or "lookup"; "fault" once the process died
    call,       \* the call under way, or the last one
    at,         \* its locals: the state reached, the position in the string
    ret         \* its answer

vars == <<fst, trans, pc, call, at, ret>>

Start == [state |-> 0, pos |-> 1]

\* t_next is a union: a state, or the value when the character is NUL.
Transitions == [chr : Char \cup {NUL}, next : Nat]

Extended(f, s, val) == [t \in DOMAIN f \cup {s} |-> IF t = s THEN val ELSE f[t]]

(****************************************************************************)
(* Helpers of libfst.c and libfst-impl.h.                                   *)
(****************************************************************************)

\* *s: the string ends with NUL.
Chr == IF at.pos <= Len(call.str) THEN call.str[at.pos] ELSE NUL

\* Mutant: len is taken for the number of states.
OutOfRangeLen(s, nstates) == s >= nstates

\* len lags by one: state len exists.
OutOfRange(s, nstates) == s >= nstates + 1

\* Mutant: the search stops short of the last transition.
FstRuleLookupShort(s, c) ==
    LET match == {i \in 1..Len(trans[s]) - 1 : trans[s][i].chr = c}
    IN  IF match = {} THEN [err |-> "ENOENT", nxt |-> UNDEF]
        ELSE LET i == CHOOSE i \in match : \A j \in match : i <= j
             IN  [err |-> "OK", nxt |-> trans[s][i].next]

\* The first transition of s for c.
FstRuleLookup(s, c) ==
    LET match == {i \in DOMAIN trans[s] : trans[s][i].chr = c}
    IN  IF OutOfRange(s, fst.len) THEN [err |-> "EDOM", nxt |-> UNDEF]
        ELSE IF match = {} THEN [err |-> "ENOENT", nxt |-> UNDEF]
        ELSE LET i == CHOOSE i \in match : \A j \in match : i <= j
             IN  [err |-> "OK", nxt |-> trans[s][i].next]

\* The error that adding {c -> next} to state s reports.
TransitionError(s, c, next, nstates) ==
    IF OutOfRange(s, nstates) THEN "EDOM"
    ELSE IF c # NUL /\ next <= s THEN "ELOOP"
    ELSE "OK"

FstAddTransition(trs, s, c, next, nstates) ==
    IF TransitionError(s, c, next, nstates) # "OK" THEN trs
    ELSE [trs EXCEPT ![s] = Append(@, [chr |-> c, next |-> next])]

\* Mutant: the state after the last is taken to be number len.
NewStateAtLen == fst.len

NewState == fst.len + 1

\* Mutant: a NUL transition makes a state final, whatever follows it.
IsFinalStateAny(s) == trans[s][1].chr = NUL

\* Mutant: the test for one transition is off by one.
IsFinalStateNone(s) == Len(trans[s]) < 1 /\ trans[s][1].chr = NUL

\* A final state has one transition, on NUL.
IsFinalState(s) == Len(trans[s]) <= 1 /\ trans[s][1].chr = NUL

Return(err, val) ==
    /\ ret' = Answer(err, val)
    /\ pc' = "idle"
    /\ at' = Start
    /\ UNCHANGED call

Goto(s) ==
    /\ at' = [state |-> s, pos |-> at.pos + 1]
    /\ UNCHANGED <<pc, call, ret>>

Enext == FstRuleLookup(at.state, Chr)

(****************************************************************************)
(* fst_new and fst_init: room for 10 states, state 0 without transitions.   *)
(****************************************************************************)
Init ==
    /\ fst = [VecMakeRoom(VecEmpty, 10) EXCEPT !.len = 0]
    /\ trans = [s \in {0} |-> <<>>]
    /\ pc = "idle"
    /\ call \in Calls
    /\ at = Start
    /\ ret = Pending

\* Entry of fst_add_string, fst_lookup_string or fst_lookup_prefix.
Invoke(c) ==
    /\ pc = "idle"
    /\ pc' = IF c.op = "add" THEN "add" ELSE "lookup"
    /\ call' = c
    /\ at' = Start
    /\ ret' = Pending
    /\ UNCHANGED <<fst, trans>>

(****************************************************************************)
(* fst_add_string.                                                          *)
(****************************************************************************)

\* The string is stored already, or the state is out of range.
AddFail ==
    /\ pc = "add"
    /\ Enext.err # "ENOENT"
    /\ Enext.err = "OK" => Chr = NUL
    /\ Return(IF Enext.err = "OK" THEN "EEXIST" ELSE Enext.err, UNDEF)
    /\ UNCHANGED <<fst, trans>>

\* Mutant: the value is never stored.
AddFinalNothing ==
    /\ pc = "add"
    /\ Enext.err = "ENOENT" /\ Chr = NUL
    /\ Return("OK", UNDEF)
    /\ UNCHANGED <<fst, trans>>

\* End of the string: its value goes in a transition on NUL.
AddFinal ==
    /\ pc = "add"
    /\ Enext.err = "ENOENT" /\ Chr = NUL
    /\ trans' = FstAddTransition(trans, at.state, NUL, call.val, fst.len)
    /\ Return(TransitionError(at.state, NUL, call.val, fst.len), UNDEF)
    /\ UNCHANGED fst

\* No transition for the character: fst_add_state, then fst_add_transition,
\* whose error is only printed.
AddNewState ==
    /\ pc = "add"
    /\ Enext.err = "ENOENT" /\ Chr # NUL
    /\ fst' = [VecMakeRoom(fst, NewState) EXCEPT !.len = @ + 1]
    /\ trans' = FstAddTransition(Extended(trans, NewState, <<>>),
                                 at.state, Chr, NewState, fst.len + 1)
    /\ Goto(NewState)

AddFollow ==
    /\ pc = "add"
    /\ Enext.err = "OK" /\ Chr # NUL
    /\ Goto(Enext.nxt)
    /\ UNCHANGED <<fst, trans>>

(****************************************************************************)
(* fst_lookup.                                                              *)
(****************************************************************************)

\* A prefix lookup asks of the state whether it is final before it looks at
\* the transition it found.
AtPrefixTest ==
    /\ pc = "lookup" /\ call.op = "prefix"
    /\ Enext.err # "EDOM" /\ Chr # NUL

\* is_final_state reads transv[0] of a state that has none: transv is NULL.
LookupFault ==
    /\ AtPrefixTest
    /\ trans[at.state] = <<>>
    /\ pc' = "fault"
    /\ UNCHANGED <<fst, trans, call, at, ret>>

LookupFinal ==
    /\ AtPrefixTest
    /\ trans[at.state] # <<>> /\ IsFinalState(at.state)
    /\ Return("OK", trans[at.state][1].next)
    /\ UNCHANGED <<fst, trans>>

\* Neither crashed nor stopped at a final state.
PastPrefixTest ==
    /\ pc = "lookup"
    /\ AtPrefixTest => trans[at.state] # <<>> /\ ~IsFinalState(at.state)

LookupEnd ==
    /\ PastPrefixTest
    /\ Enext.err = "OK" /\ Chr = NUL
    /\ Return("OK", Enext.nxt)
    /\ UNCHANGED <<fst, trans>>

LookupMiss ==
    /\ PastPrefixTest
    /\ Enext.err # "OK"
    /\ Return(Enext.err, UNDEF)
    /\ UNCHANGED <<fst, trans>>

\* Mutant: the turn of the loop ends without its tail, state = new_state; ++s.
LookupFollowStuck ==
    /\ PastPrefixTest
    /\ Enext.err = "OK" /\ Chr # NUL
    /\ UNCHANGED vars

LookupFollow ==
    /\ PastPrefixTest
    /\ Enext.err = "OK" /\ Chr # NUL
    /\ IF Enext.nxt = 0 THEN Return("OK", Enext.nxt) ELSE Goto(Enext.nxt)
    /\ UNCHANGED <<fst, trans>>

Step ==
    \/ AddFail \/ AddFinal \/ AddNewState \/ AddFollow
    \/ LookupFault \/ LookupFinal \/ LookupEnd \/ LookupMiss \/ LookupFollow

Next == (\E c \in Calls : Invoke(c)) \/ Step

Spec == Init /\ [][Next]_vars

\* One thread: a call under way is carried on until it answers.
FairSpec == Spec /\ WF_vars(Step)

-----------------------------------------------------------------------------

\* The arrays hold what the code thinks they hold: states 0..fst.len, each
\* with its transitions (fst_new, fst_add_state, fst_add_transition).
TypeOK ==
    /\ fst \in VecHeader
    /\ trans \in [0..fst.len -> Seq(Transitions)]
    /\ pc \in {"idle", "add", "lookup", "fault"}
    /\ call \in Calls
    /\ at \in [state : Nat, pos : Nat]
    /\ ret \in Answers

\* fst_add_state stores state number len + 1 in an array it has just been
\* given room in: the last state is inside the allocation, although len
\* counts one state less than there are.
RoomForStates == VecInRoom(fst, fst.len)

\* States and transitions are a tree that grows away from state 0: a
\* transition on a character goes to a later state, two transitions of a
\* state differ in their character, and every other state is entered by
\* exactly one transition.  "Cycles are not allowed" (fst_add_transition), and
\* state numbers never coincide although fst->len lags by one.
Forward ==
    \A s \in DOMAIN trans : \A i \in DOMAIN trans[s] :
        trans[s][i].chr # NUL => trans[s][i].next \in (s + 1)..fst.len

Deterministic ==
    \A s \in DOMAIN trans : \A i, j \in DOMAIN trans[s] :
        trans[s][i].chr = trans[s][j].chr => i = j

EntersOnce ==
    \A s, t \in DOMAIN trans :
        \A i \in DOMAIN trans[s], j \in DOMAIN trans[t] :
            /\ trans[s][i].chr # NUL /\ trans[t][j].chr # NUL
            /\ trans[s][i].next = trans[t][j].next
            => s = t /\ i = j

Entered ==
    \A t \in 1..fst.len : \E s \in DOMAIN trans : \E i \in DOMAIN trans[s] :
        trans[s][i].chr # NUL /\ trans[s][i].next = t

Tree == Forward /\ Deterministic /\ EntersOnce /\ Entered

\* Only state 0, and the state an unfinished fst_add_string has just made,
\* have no transition: is_final_state, which reads the first transition
\* without asking whether there is one, is otherwise safe.
NoDeadEnds ==
    \A s \in 1..fst.len :
        trans[s] = <<>> => pc = "add" /\ at.state = s

\* A prefix lookup brings the process down only in a transducer that no
\* string was ever added to (is_final_state on state 0 of fst_new).
FaultOnlyWhenEmpty == pc = "fault" => fst.len = 0 /\ trans[0] = <<>>

\* The internal errors of fst_rule_lookup and fst_add_transition, which
\* fst_add_string prints and drops, never come up; a lookup answers OK or
\* ENOENT and an addition OK or EEXIST.
HonestErrors ==
    pc = "idle" /\ ret # Pending =>
        ret.err \in IF call.op = "add" THEN {"OK", "EEXIST"} ELSE {"OK", "ENOENT"}

\* The `while (true)` loops of fst_add_string and fst_lookup end.
CallsReturn == pc \in {"add", "lookup"} ~> pc \in {"idle", "fault"}
==============================================================================
