------------------------------- MODULE LineBuf -------------------------------
(****************************************************************************)
(* sgl_fgetline (libcscript/sgl-getline.c), as the loop of isbn_stream      *)
(* calls it: a line is read page by page into a list of segments of         *)
(* SGL_SEGSIZE pages each and then put together in one buffer.  Characters  *)
(* stand for themselves by their position in the file.                      *)
(****************************************************************************)
EXTENDS Integers, Sequences, FiniteSets

CONSTANTS
    SGL_SEGSIZE,    \* pages of a segment
    SGL_PAGESIZE,   \* bytes of a page, with the NUL that fgets adds
    Files           \* sequences of "char" and "newline"

ASSUME SizeAssumption ==
    SGL_SEGSIZE \in Nat \ {0} /\ SGL_PAGESIZE \in Nat \ {0, 1}

ASSUME FilesAssumption == Files \subseteq Seq({"char", "newline"})

VARIABLES
    file,       \* what the stream holds
    pos,        \* characters read
    pc,         \* "call", "page", "build", "done", "abort"
    segs,       \* the segment list of the line
    llen,       \* local: characters of the line so far
    lbuf,       \* buf, len and eof of the line buffer
    lines       \* history: the lines the caller got, each as [buf, len]

vars == <<file, pos, pc, segs, llen, lbuf, lines>>

\* A byte that was never written.
JUNK == -1

\* A slot: its page, if it has one, and slen.
NoPage == <<>>
EmptySegment == [i \in 1..SGL_SEGSIZE |-> [sbuf |-> NoPage, slen |-> 0]]
FreshPage == [i \in 1..SGL_PAGESIZE |-> JUNK]

Init ==
    /\ file \in Files
    /\ pos = 0
    /\ pc = "call"
    /\ segs = <<EmptySegment>>
    /\ llen = 0
    /\ lbuf = [buf |-> <<>>, len |-> 0, eof |-> FALSE]
    /\ lines = <<>>

\* fgetline and the head of sgl_fgetline: the old line and its segments are
\* freed (linebuf_free), an empty segment takes their place.
Call ==
    /\ pc = "call"
    /\ segs' = <<EmptySegment>>
    /\ llen' = 0
    /\ lbuf' = [lbuf EXCEPT !.buf = <<>>, !.len = 0]
    /\ pc' = "page"
    /\ UNCHANGED <<file, pos, lines>>

\* sgl_append: the list and the slot that gets the page.  In a full list a new
\* segment is appended, but the page goes to the first slot of the old one.
SglAppend ==
    LET last == Len(segs)
        vacant == {i \in 1..SGL_SEGSIZE : segs[last][i].sbuf = NoPage}
        i == IF vacant = {} THEN 1 ELSE CHOOSE j \in vacant : \A k \in vacant : j <= k
    IN  [seg |-> last, slot |-> i,
         segs |-> [segs EXCEPT ![last][i].sbuf = FreshPage]
                  \o IF vacant = {} THEN <<EmptySegment>> ELSE <<>>]

\* The position fgets reads to: up to a newline, as much as the page holds, or
\* the rest.
Taken ==
    LET full == pos + SGL_PAGESIZE - 1
        ends == {q \in pos + 1..Len(file) : q = full \/ q = Len(file) \/ file[q] = "newline"}
    IN  IF ends = {} THEN pos ELSE CHOOSE q \in ends : \A r \in ends : q <= r

\* The page after fgets left n characters in it.
Filled(n) == [i \in 1..SGL_PAGESIZE |-> IF i <= n THEN pos + i ELSE JUNK]

\* One turn of the loop of sgl_fgetline: fgets returns NULL, ...
EndOfFile ==
    /\ pc = "page" /\ Taken = pos
    /\ segs' = SglAppend.segs
    /\ lbuf' = [lbuf EXCEPT !.eof = TRUE]
    /\ pc' = "build"
    /\ UNCHANGED <<file, pos, llen, lines>>

\* Mutant: the newline counts as part of the line.
ReadPageNewline ==
    /\ pc = "page" /\ Taken # pos
    /\ LET a == SglAppend
           n == Taken - pos
       IN  /\ segs' = [a.segs EXCEPT ![a.seg][a.slot] = [sbuf |-> Filled(n), slen |-> n]]
           /\ llen' = llen + n
    /\ pos' = Taken
    /\ pc' = IF file[Taken] = "newline" THEN "build" ELSE "page"
    /\ UNCHANGED <<file, lbuf, lines>>

\* Mutant: the loop does not stop at a newline.
ReadPageOn ==
    /\ pc = "page" /\ Taken # pos
    /\ LET a == SglAppend
           n == Taken - pos - IF file[Taken] = "newline" THEN 1 ELSE 0
       IN  /\ segs' = [a.segs EXCEPT ![a.seg][a.slot] = [sbuf |-> Filled(n), slen |-> n]]
           /\ llen' = llen + n
    /\ pos' = Taken
    /\ UNCHANGED <<file, pc, lbuf, lines>>

\* ... or a page, whose newline is cut off.
ReadPage ==
    /\ pc = "page" /\ Taken # pos
    /\ LET a == SglAppend
           n == Taken - pos - IF file[Taken] = "newline" THEN 1 ELSE 0
       IN  /\ segs' = [a.segs EXCEPT ![a.seg][a.slot] = [sbuf |-> Filled(n), slen |-> n]]
           /\ llen' = llen + n
    /\ pos' = Taken
    /\ pc' = IF file[Taken] = "newline" THEN "build" ELSE "page"
    /\ UNCHANGED <<file, lbuf, lines>>

\* sgl_str_build: one piece after the other.
Joined(pieces) ==
    LET str[i \in 0..Len(pieces)] ==
            IF i = 0 THEN <<>> ELSE str[i - 1] \o pieces[i]
    IN  str[Len(pieces)]

\* What a slot of a segment adds to it.  The slots behind the first one
\* without a page, where the loop stops, have none either.
Piece(slot) == IF slot.sbuf = NoPage THEN <<>> ELSE SubSeq(slot.sbuf, 1, slot.slen)

SegmentStr(segment) == Joined([i \in 1..SGL_SEGSIZE |-> Piece(segment[i])])

SglStr == Joined([k \in 1..Len(segs) |-> SegmentStr(segs[k])])

\* The tail of sgl_fgetline, and the caller's `if (lbuf->eof) break`: the last
\* line of a file that does not end in a newline is not looked at.
Build ==
    /\ pc = "build"
    /\ IF Len(SglStr) > llen + 1
       THEN pc' = "abort" /\ UNCHANGED <<lbuf, lines>>
       ELSE /\ lbuf' = [lbuf EXCEPT !.buf = SglStr, !.len = llen]
            /\ pc' = IF lbuf.eof THEN "done" ELSE "call"
            /\ lines' = IF lbuf.eof THEN lines
                        ELSE Append(lines, [buf |-> SglStr, len |-> llen])
    /\ UNCHANGED <<file, pos, segs, llen>>

Step == Call \/ EndOfFile \/ ReadPage \/ Build

Next == Step

Spec == Init /\ [][Next]_vars

\* The reader runs until the end of the file, which every file has.
FairSpec == Spec /\ WF_vars(Step)

-----------------------------------------------------------------------------
\* The newlines among the first p characters of the text f, the k-th newline,
\* and the line that it ends.
NewlinesUpTo(f, p) == {q \in 1..p : f[q] = "newline"}

Newline(f, k) ==
    CHOOSE q \in 0..Len(f) :
        /\ Cardinality(NewlinesUpTo(f, q)) = k
        /\ q = 0 \/ f[q] = "newline"

Line(f, k) ==
    [i \in 1..Newline(f, k) - Newline(f, k - 1) - 1 |-> Newline(f, k - 1) + i]

Intact(k) == lines[k] = [buf |-> Line(file, k), len |-> Len(Line(file, k))]

\* A line of n characters and its newline fit in the pages of one segment.
FitsSegment(n) == n + 1 <= SGL_SEGSIZE * (SGL_PAGESIZE - 1)

\* A line that fits in one segment reaches the caller as it stands in the
\* file, whichever lines came before it, with its length in lbuf->len.
ShortLinesIntact ==
    \A k \in 1..Len(lines) : FitsSegment(Len(Line(file, k))) => Intact(k)

\* "If all segments in the linked list of segments are occupied, then allocate
\* a new whole segment and append that": no line is too long.
LinesIntact == \A k \in 1..Len(lines) : Intact(k)

\* The reader gets to the end of the file and has then handed over one line
\* for each newline.
ReadsAll ==
    <>(pc = "done" /\ Len(lines) = Cardinality(NewlinesUpTo(file, Len(file))))
==============================================================================
