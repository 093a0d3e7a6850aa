-------------------------------- MODULE FstApi --------------------------------
(****************************************************************************)
(* The calls of libfst.h that read or change a transducer under             *)
(* construction, and what they answer.  Shared by the transducer (Fst) and  *)
(* by the dictionary it promises to be (FstDict).                           *)
(****************************************************************************)
EXTENDS Integers, Sequences

CONSTANTS
    Char,       \* the characters of strings, NUL excluded
    NUL,        \* the byte that ends a string
    Strings,    \* the strings that may be added
    Keys,       \* the strings that may be looked up
    Vals        \* the values stored with strings

ASSUME ApiAssumption ==
    /\ NUL \notin Char
    /\ Strings \subseteq Seq(Char)
    /\ Keys \subseteq Seq(Char)
    /\ Vals \subseteq Nat

\* UNDEF_STATE, (size_t)-1: no next state, and no value returned.
UNDEF == -1

Calls == [op : {"add"}, str : Strings, val : Vals]
           \cup [op : {"string", "prefix"}, str : Keys, val : {UNDEF}]

Errors == {"OK", "ENOENT", "EEXIST", "EDOM", "ELOOP"}

Answer(err, val) == [err |-> err, val |-> val]

\* ret before a call has answered.
Pending == Answer("none", UNDEF)

Answers == [err : Errors \cup {"none"}, val : Nat \cup {UNDEF}]

\* The string p begins the string k.
Begins(p, k) == Len(p) <= Len(k) /\ SubSeq(k, 1, Len(p)) = p
==============================================================================
