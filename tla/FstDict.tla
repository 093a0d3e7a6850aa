------------------------------- MODULE FstDict -------------------------------
(****************************************************************************)
(* What libfst promises: a dictionary from strings to values.  A string is  *)
(* added once; a string lookup wants the whole string; a prefix lookup      *)
(* stops at a stored string that no other stored string extends.            *)
(****************************************************************************)
EXTENDS FstApi

VARIABLES
    dict,       \* the stored strings and their values
    pc,         \* "idle", "add" or "lookup"; "fault" once the process died
    call,       \* the call under way, or the last one
    ret         \* its answer

vars == <<dict, pc, call, ret>>

Leaf(p) == \A w \in DOMAIN dict : Begins(p, w) => w = p

Init ==
    /\ dict = <<>>
    /\ pc = "idle"
    /\ call \in Calls
    /\ ret = Pending

Invoke(c) ==
    /\ pc = "idle"
    /\ pc' = IF c.op = "add" THEN "add" ELSE "lookup"
    /\ call' = c
    /\ ret' = Pending
    /\ UNCHANGED dict

Return(err, val) ==
    /\ ret' = Answer(err, val)
    /\ pc' = "idle"
    /\ UNCHANGED call

Add ==
    /\ pc = "add"
    /\ IF call.str \in DOMAIN dict
       THEN Return("EEXIST", UNDEF) /\ UNCHANGED dict
       ELSE /\ Return("OK", UNDEF)
            /\ dict' = [w \in DOMAIN dict \cup {call.str} |->
                            IF w = call.str THEN call.val ELSE dict[w]]

\* A stored leaf that begins the key answers a prefix lookup.
PrefixHit ==
    /\ pc = "lookup" /\ call.op = "prefix"
    /\ \E p \in DOMAIN dict :
          Begins(p, call.str) /\ Leaf(p) /\ Return("OK", dict[p])
    /\ UNCHANGED dict

WholeHit ==
    /\ pc = "lookup"
    /\ call.str \in DOMAIN dict
    /\ Return("OK", dict[call.str])
    /\ UNCHANGED dict

Miss ==
    /\ pc = "lookup"
    /\ call.str \notin DOMAIN dict
    /\ call.op = "prefix" =>
          \A p \in DOMAIN dict : ~(Begins(p, call.str) /\ Leaf(p))
    /\ Return("ENOENT", UNDEF)
    /\ UNCHANGED dict

\* The promise covers prefix lookups once a string is stored; before that the
\* call may bring the process down.
Fault ==
    /\ pc = "lookup" /\ call.op = "prefix"
    /\ DOMAIN dict = {}
    /\ pc' = "fault"
    /\ UNCHANGED <<dict, call, ret>>

Respond == Add \/ PrefixHit \/ WholeHit \/ Miss \/ Fault

Next == (\E c \in Calls : Invoke(c)) \/ Respond

Spec == Init /\ [][Next]_vars

FairSpec == Spec /\ WF_vars(Respond)
==============================================================================
