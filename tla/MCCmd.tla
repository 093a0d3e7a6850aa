-------------------------------- MODULE MCCmd --------------------------------
(****************************************************************************)
(* Command lines and files for Cmd.                                         *)
(****************************************************************************)
EXTENDS Cmd

FileNames == {"f", "g"}

OptionLists ==
    {<<>>, <<"A">>, <<"d">>, <<"A", "d">>, <<"A", "?">>, <<"h">>, <<"w">>,
     <<"A", "v">>, <<"v">>, <<"V">>, [k \in 1..12 |-> "?"]}

FileOperands == {<<>>, <<"f">>, <<"f", "g">>, <<"f", Stdin>>, <<Stdin>>}

IsbnArguments ==
    UNION {[1..k -> {"good", "bad", "fault"}] : k \in 0..3} \cup {<<"utf8">>}

WithOperands(opts, operands) == {[opts |-> o, operands |-> x] : o \in opts, x \in operands}

HasArgv(opts) == \E k \in 1..Len(opts) : opts[k] = "A"

AllCommands ==
    WithOperands({o \in OptionLists : HasArgv(o)}, IsbnArguments)
    \cup WithOperands({o \in OptionLists : ~HasArgv(o)}, FileOperands)

Thing(kind, lines) == [kind |-> kind, lines |-> lines]

AllThings ==
    {Thing("absent", <<>>), Thing("directory", <<>>), Thing("file", <<>>),
     Thing("file", <<"empty">>), Thing("file", <<"empty", "good">>)}

Readable == {Thing("file", <<>>), Thing("file", <<"good", "bad">>)}

AllTables == {"good", "refused", "empty"}
\* One file for both, two files, one of them closed.
AllFds ==
    {[out |-> "x", err |-> "x"], [out |-> "x", err |-> "y"],
     [out |-> "x", err |-> Closed], [out |-> Closed, err |-> "y"]}
TwoFiles == {[out |-> "x", err |-> "y"]}
OddNames == {"utf8"}
Utf8Name == WithOperands({<<"A", "v">>}, {<<"utf8">>})

GoodTable == {"good"}
==============================================================================
