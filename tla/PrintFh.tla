------------------------------- MODULE PrintFh -------------------------------
(****************************************************************************)
(* The print handles (set-print-fh.c, fprint.c): standard output is         *)
(* buffered, standard error is not, and eprint_fh is one of the two.  What  *)
(* is printed is an item; its wording is left out.                          *)
(****************************************************************************)
EXTENDS Integers, Sequences, SequencesExt

CONSTANT Fds        \* files that fd 1 and fd 2 may lead to: [out, err]

Closed == "closed"

VARIABLES
    fds,            \* where they lead
    eprint_fh,      \* "NULL", "stdout", "stderr"
    io,             \* unwritten: stdout's buffer; files: what is in each file
    said            \* history: the items printed, in the order of the program

printing == <<fds, eprint_fh, io, said>>

\* An item goes to stdout or to eprint_fh, by fprint, which looks at the
\* result, or straight by stdio, which need not; answer is the operand that it
\* is the hyphenation of, or 0.
Out(n) == [to |-> "out", answer |-> n, checked |-> TRUE]
OutText == [to |-> "out", answer |-> 0, checked |-> FALSE]
Message == [to |-> "err", answer |-> 0, checked |-> FALSE]
MessageLine == [to |-> "err", answer |-> 0, checked |-> TRUE]

FilesOf(f) == {f.out, f.err} \ {Closed}

PrintInit ==
    /\ fds \in Fds
    /\ eprint_fh = "NULL"
    /\ io = [unwritten |-> <<>>, files |-> [f \in FilesOf(fds) |-> <<>>]]
    /\ said = <<>>

\* stderr_redirected: by device and inode.
StderrRedirected ==
    IF Closed \in {fds.out, fds.err} THEN -1
    ELSE IF fds.out = fds.err THEN 0 ELSE 1

\* Mutant: messages go to stderr, wherever that is.
SetEprintFhStderr == eprint_fh' = IF eprint_fh = "NULL" THEN "stderr" ELSE eprint_fh

\* Mutant: an error of fstat counts as the same file, and so does any answer.
SetEprintFhStdout == eprint_fh' = IF eprint_fh = "NULL" THEN "stdout" ELSE eprint_fh

SetEprintFh ==
    eprint_fh' = IF eprint_fh # "NULL" THEN eprint_fh
                 ELSE IF StderrRedirected = 0 THEN "stdout" ELSE "stderr"

Fh(item) == IF item.to = "out" THEN "stdout" ELSE eprint_fh

Written(s, file, items) ==
    IF file = Closed THEN s ELSE [s EXCEPT !.files[file] = @ \o items]

\* The first n items of the buffer go out; the errors of a flush go unnoticed.
Flushed(s, n) ==
    [Written(s, fds.out, SubSeq(s.unwritten, 1, n))
        EXCEPT !.unwritten = SubSeq(@, n + 1, Len(@))]

\* The k-th item of a list.  Items are known by their number in said.
PutOne(s, list, k) ==
    IF Fh(list[k]) = "stdout"
    THEN [s EXCEPT !.unwritten = Append(@, Len(said) + k)]
    ELSE Written(s, fds.err, <<Len(said) + k>>)

Put(s, list) ==
    LET first[k \in 0..Len(list)] ==
            IF k = 0 THEN s ELSE PutOne(first[k - 1], list, k)
    IN  first[Len(list)]

\* fprint aborts when fputs fails: on stderr at once, on stdout when the
\* buffer happens to be full.
MustAbort(list) ==
    \E k \in DOMAIN list : list[k].checked /\ Fh(list[k]) = "stderr" /\ fds.err = Closed

MayAbort(list) ==
    \/ MustAbort(list)
    \/ \E k \in DOMAIN list : list[k].checked /\ Fh(list[k]) = "stdout" /\ fds.out = Closed

\* stdio writes out part of the buffer when it likes.
Flush ==
    /\ \E n \in 1..Len(io.unwritten) : io' = Flushed(io, n)
    /\ UNCHANGED <<fds, eprint_fh, said>>

-----------------------------------------------------------------------------
\* Messages and output that go to one file are there in the order in which the
\* program printed them, although stdout is buffered and stderr is not: the
\* file begins what was said ("redirect both ... to stdout", set-print-fh.c).
OneFileInOrder ==
    fds.out = fds.err /\ fds.out # Closed =>
        \A k \in DOMAIN io.files[fds.out] : io.files[fds.out][k] = k

\* Messages that have a file of their own are in it as soon as they are
\* printed: a process that dies leaves none of them in a buffer.
MessagesSurvive ==
    fds.out # fds.err /\ fds.err # Closed =>
        \A k \in DOMAIN said : said[k].to = "err" => k \in ToSet(io.files[fds.err])
==============================================================================
