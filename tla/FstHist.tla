------------------------------- MODULE FstHist -------------------------------
(****************************************************************************)
(* The transducer with the string that leads to each state as a history     *)
(* variable, and what that makes of it: the dictionary of FstDict.          *)
(****************************************************************************)
EXTENDS Fst

VARIABLE word   \* for each state, the characters on the way to it

hvars == <<fst, trans, pc, call, at, ret, word>>

HInit == Init /\ word = [s \in {0} |-> <<>>]

\* A state that is new was made for the character at hand.
Recorded ==
    word' = [s \in 0..fst'.len |->
                IF s \in DOMAIN word THEN word[s]
                ELSE SubSeq(call.str, 1, at.pos)]

HNext == Next /\ Recorded

HSpec == HInit /\ [][HNext]_hvars

HFairSpec == HSpec /\ WF_hvars(Step /\ Recorded)

\* The states whose words are stored, with the value of each.
Final == {s \in DOMAIN trans : \E i \in DOMAIN trans[s] : trans[s][i].chr = NUL}

ValueAt(s) ==
    LET i == CHOOSE i \in DOMAIN trans[s] : trans[s][i].chr = NUL
    IN  trans[s][i].next

Stored == {word[s] : s \in Final}

Contents ==
    [w \in Stored |-> ValueAt(CHOOSE s \in Final : word[s] = w)]

Dict == INSTANCE FstDict WITH dict <- Contents

\* libfst is a dictionary: what fst_add_string, fst_lookup_string and
\* fst_lookup_prefix answer is what FstDict allows for the strings added so
\* far, and every call is answered.
IsDictionary == Dict!FairSpec

\* One state for each prefix of a stored string: words name states uniquely,
\* every word but the empty one extends the word of the state it hangs from,
\* and every word begins a stored string or the string being added.
WordsNameStates ==
    /\ \A s, t \in DOMAIN word : word[s] = word[t] => s = t
    /\ \A s \in DOMAIN word : \A i \in DOMAIN trans[s] :
          trans[s][i].chr # NUL =>
              word[trans[s][i].next] = Append(word[s], trans[s][i].chr)

WordsInUse ==
    \A s \in 1..fst.len :
        \/ \E w \in Stored : Begins(word[s], w)
        \/ pc = "add" /\ Begins(word[s], call.str)

\* "If the FST gets to a final state, then there is no error" (the comment over
\* fst_lookup_prefix), said of strings: as long as no stored string begins
\* another, which holds of the prefixes of the ISBN table, a key that a stored
\* string begins is found.
PrefixFree == \A v, w \in Stored : Begins(v, w) => v = w

PrefixFound ==
    pc = "idle" /\ call.op = "prefix" /\ ret.err = "ENOENT" /\ PrefixFree =>
        \A w \in Stored : ~Begins(w, call.str)
==============================================================================
