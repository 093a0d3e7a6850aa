---------------------------- MODULE LineBufProofs ----------------------------
(****************************************************************************)
(* A line that fits in one segment reaches the caller as it stands in the   *)
(* file, for every size of page and segment and every file.                 *)
(****************************************************************************)
EXTENDS LineBuf, SharedProofs, FiniteSetTheorems, SequenceTheorems

\* The characters of i full pages.
Width == SGL_PAGESIZE - 1

Off(i) == i * Width

-----------------------------------------------------------------------------
\* What has to hold in between for ShortLinesIntact to go on holding.

Slots == [sbuf : {NoPage} \cup [1..SGL_PAGESIZE -> Int], slen : 0..SGL_PAGESIZE]

TypeOK ==
    /\ file \in Files
    /\ pos \in 0..Len(file)
    /\ pc \in {"call", "page", "build", "done", "abort"}
    /\ segs \in Seq([1..SGL_SEGSIZE -> Slots])
    /\ segs # <<>>
    /\ llen \in Nat
    /\ lbuf \in [buf : Seq(Int), len : Nat, eof : BOOLEAN]
    /\ lines \in Seq([buf : Seq(Int), len : Nat])

\* Positions between lines: the start of the file and the end of each line.
Boundary(f, s) ==
    /\ s \in 0..Len(f)
    /\ s = 0 \/ f[s] = "newline"

\* In the text f the line behind n newlines begins at s, and no newline comes
\* between it and e.
Begins(f, n, s, e) ==
    /\ Boundary(f, s)
    /\ Cardinality(NewlinesUpTo(f, s)) = n
    /\ s <= e
    /\ \A q \in (s + 1)..e : f[q] # "newline"

\* The slot holds the n characters from s on.
Holds(slot, s, n) ==
    /\ slot.sbuf # NoPage
    /\ slot.slen = n
    /\ \A j \in 1..n : slot.sbuf[j] = s + j

\* The segment holds the line that begins behind s: p full pages and no other,
\* or p full pages and one of n characters.
Pages(segment, s, p) ==
    \A i \in 1..SGL_SEGSIZE :
        IF i <= p THEN Holds(segment[i], s + Off(i - 1), Width)
        ELSE segment[i].sbuf = NoPage

PagesAnd(segment, s, p, n) ==
    \A i \in 1..SGL_SEGSIZE :
        IF i <= p THEN Holds(segment[i], s + Off(i - 1), Width)
        ELSE IF i = p + 1 THEN Holds(segment[i], s + Off(p), n)
        ELSE segment[i].sbuf = NoPage

\* Between two pages of a line: pages so far are full, unless the file is at
\* its end.
PagesFull ==
    LET s == pos - llen
    IN  /\ Begins(file, Len(lines), s, pos)
        /\ pos # Len(file) =>
              \E p \in 0..llen :
                  /\ llen = Off(p)
                  /\ p <= SGL_SEGSIZE => Len(segs) = 1 /\ Pages(segs[1], s, p)

\* The newline has been read.
LineRead ==
    LET s == pos - 1 - llen
    IN  /\ Begins(file, Len(lines), s, pos - 1)
        /\ pos \in 1..Len(file) /\ file[pos] = "newline"
        /\ \E p \in 0..llen :
              LET n == llen - Off(p)
              IN  /\ 0 <= n /\ n < Width
                  /\ p < SGL_SEGSIZE => Len(segs) = 1 /\ PagesAnd(segs[1], s, p, n)

LineIInv ==
    /\ TypeOK
    /\ pc \in {"call", "page"} => ~lbuf.eof
    /\ pc = "call" => Begins(file, Len(lines), pos, pos)
    /\ pc = "page" => PagesFull
    /\ pc = "build" /\ ~lbuf.eof => LineRead
    /\ ShortLinesIntact

-----------------------------------------------------------------------------
\* Pages.  A page holds at least one character.
LEMMA WidthType == Width \in Nat \ {0}
  BY SizeAssumption DEF Width

\* Some pages hold some number of characters.
LEMMA OffType ==
    ASSUME NEW i \in Nat
    PROVE  Off(i) \in Nat
  BY WidthType DEF Off

\* One page more holds Width characters more.
LEMMA OffNext ==
    /\ Off(0) = 0
    /\ \A i \in Nat : Off(i + 1) = Off(i) + Width
  BY WidthType DEF Off

\* More pages hold more characters, and no page is empty.
LEMMA OffMonotone ==
    ASSUME NEW i \in Nat, NEW j \in Nat, i <= j
    PROVE  Off(i) <= Off(j) /\ j <= Off(j)
  <1> DEFINE S == {m \in Nat : Off(i) <= Off(i + m) /\ m <= Off(m)}
  <1>1. 0 \in S
    BY OffType, OffNext
  <1>2. ASSUME NEW m \in S PROVE m + 1 \in S
    <2>1. m \in Nat /\ i + m \in Nat /\ i + (m + 1) = (i + m) + 1
      OBVIOUS
    <2>2. Off(i + (m + 1)) = Off(i + m) + Width /\ Off(m + 1) = Off(m) + Width
      BY <2>1, OffNext
    <2>3. Off(i) \in Nat /\ Off(i + m) \in Nat /\ Off(m) \in Nat /\ Width \in Nat \ {0}
      BY <2>1, OffType, WidthType
    <2> QED
      BY <2>1, <2>2, <2>3
  <1>3. S = Nat
    BY <1>1, <1>2, SetInduction
  <1>4. j - i \in Nat /\ i + (j - i) = j
    OBVIOUS
  <1> HIDE DEF S
  <1>5. j - i \in S /\ j \in S
    BY <1>3, <1>4
  <1> QED
    BY <1>4, <1>5 DEF S

-----------------------------------------------------------------------------
\* Joined is what the pieces make, one after the other.
LEMMA JoinedFolds ==
    ASSUME NEW pieces, Len(pieces) \in Nat
    PROVE  \E f : /\ f[0] = <<>>
                  /\ \A k \in 1..Len(pieces) : f[k] = f[k - 1] \o pieces[k]
                  /\ Joined(pieces) = f[Len(pieces)]
  <1> DEFINE Body(f, m) == [i \in 0..m |-> IF i = 0 THEN <<>> ELSE f[i - 1] \o pieces[i]]
             S == {m \in Nat : \E f : f = Body(f, m)}
             F == CHOOSE str : str = Body(str, Len(pieces))
  <1>1. 0 \in S
    <2> DEFINE f == [k \in 0..0 |-> <<>>]
    <2>1. f = Body(f, 0)
      OBVIOUS
    <2> QED
      BY <2>1
  <1>2. ASSUME NEW m \in S PROVE m + 1 \in S
    <2>1. PICK f : f = Body(f, m)
      OBVIOUS
    <2> DEFINE g == [k \in 0..(m + 1) |-> IF k = m + 1 THEN f[m] \o pieces[m + 1] ELSE f[k]]
    <2>2. ASSUME NEW k \in 0..(m + 1)
          PROVE  g[k] = IF k = 0 THEN <<>> ELSE g[k - 1] \o pieces[k]
      <3>1. m \in Nat /\ g[k] = IF k = m + 1 THEN f[m] \o pieces[m + 1] ELSE f[k]
        OBVIOUS
      <3>2. CASE k = m + 1
        <4>1. g[m] = f[m] /\ k # 0 /\ k - 1 = m
          BY <3>1, <3>2
        <4> HIDE DEF g
        <4> QED
          BY <3>1, <3>2, <4>1
      <3>3. CASE k = 0
        <4>1. f[0] = <<>>
          BY <2>1, <3>1
        <4> HIDE DEF g
        <4> QED
          BY <3>1, <3>3, <4>1
      <3>4. CASE k # 0 /\ k # m + 1
        <4>1. k \in 0..m /\ k - 1 \in 0..(m + 1) /\ k - 1 # m + 1
          BY <3>1, <3>4
        <4>2. g[k - 1] = f[k - 1] /\ g[k] = f[k]
          BY <3>1, <3>4, <4>1
        <4>3. f[k] = f[k - 1] \o pieces[k]
          BY <2>1, <3>4, <4>1
        <4> HIDE DEF g
        <4> QED
          BY <3>4, <4>2, <4>3
      <3> QED
        BY <3>2, <3>3, <3>4
    <2>3. g = [k \in 0..(m + 1) |-> g[k]]
      OBVIOUS
    <2> HIDE DEF g
    <2>4. g = Body(g, m + 1)
      BY <2>2, <2>3
    <2>5. m + 1 \in Nat
      OBVIOUS
    <2> HIDE DEF Body
    <2> QED
      BY <2>4, <2>5
  <1> HIDE DEF Body
  <1>3. S = Nat
    BY <1>1, <1>2, SetInduction
  <1>4. Len(pieces) \in S
    BY <1>3
  <1>5. F = Body(F, Len(pieces))
    BY <1>4
  <1>6. Joined(pieces) = F[Len(pieces)]
    BY Zenon DEF Joined, Body
  <1> HIDE DEF F
  <1>7. F = [i \in 0..Len(pieces) |-> IF i = 0 THEN <<>> ELSE F[i - 1] \o pieces[i]]
    BY <1>5 DEF Body
  <1>8. F[0] = <<>>
    BY <1>7
  <1>9. ASSUME NEW k \in 1..Len(pieces) PROVE F[k] = F[k - 1] \o pieces[k]
    <2>1. k \in 0..Len(pieces) /\ k # 0
      OBVIOUS
    <2> QED
      BY <1>7, <2>1, Zenon
  <1> QED
    BY <1>6, <1>8, <1>9

\* Sequences of numbers make a sequence of numbers.
LEMMA JoinedType ==
    ASSUME NEW pieces \in Seq(Seq(Int))
    PROVE  Joined(pieces) \in Seq(Int)
  <1>1. Len(pieces) \in Nat
    OBVIOUS
  <1>2. PICK f : /\ f[0] = <<>>
                 /\ \A k \in 1..Len(pieces) : f[k] = f[k - 1] \o pieces[k]
                 /\ Joined(pieces) = f[Len(pieces)]
    BY <1>1, JoinedFolds
  <1> DEFINE S == {k \in Nat : k <= Len(pieces) => f[k] \in Seq(Int)}
  <1>3. 0 \in S
    BY <1>2, EmptySeq
  <1>4. ASSUME NEW k \in S PROVE k + 1 \in S
    <2> SUFFICES ASSUME k + 1 <= Len(pieces) PROVE f[k + 1] \in Seq(Int)
      OBVIOUS
    <2>1. k + 1 \in 1..Len(pieces) /\ (k + 1) - 1 = k /\ f[k] \in Seq(Int)
      BY <1>1
    <2>2. f[k + 1] = f[k] \o pieces[k + 1]
      BY <1>2, <2>1
    <2>3. pieces[k + 1] \in Seq(Int)
      BY <2>1
    <2> QED
      BY <2>1, <2>2, <2>3, ConcatProperties
  <1>5. S = Nat
    BY <1>3, <1>4, SetInduction
  <1> HIDE DEF S
  <1>6. Len(pieces) \in S
    BY <1>1, <1>5
  <1> QED
    BY <1>2, <1>6 DEF S

\* One piece stays as it is.
LEMMA JoinedOne ==
    ASSUME NEW pieces \in Seq(Seq(Int)), Len(pieces) = 1
    PROVE  Joined(pieces) = pieces[1]
  <1>1. PICK f : /\ f[0] = <<>>
                 /\ \A k \in 1..Len(pieces) : f[k] = f[k - 1] \o pieces[k]
                 /\ Joined(pieces) = f[Len(pieces)]
    <2>1. Len(pieces) \in Nat
      OBVIOUS
    <2> QED
      BY <2>1, JoinedFolds
  <1>2. f[1] = f[1 - 1] \o pieces[1] /\ 1 - 1 = 0
    BY <1>1
  <1>3. pieces[1] \in Seq(Int)
    OBVIOUS
  <1>4. <<>> \o pieces[1] = pieces[1]
    BY <1>3, ConcatEmptySeq
  <1> QED
    BY <1>1, <1>2, <1>4

\* What a slot adds is a sequence of numbers.
LEMMA PieceType ==
    ASSUME NEW slot \in Slots
    PROVE  Piece(slot) \in Seq(Int)
  <1>1. CASE slot.sbuf = NoPage
    BY <1>1 DEF Piece
  <1>2. CASE slot.sbuf # NoPage
    <2>1. slot.sbuf \in [1..SGL_PAGESIZE -> Int] /\ slot.slen \in 0..SGL_PAGESIZE
      BY <1>2 DEF Slots
    <2>2. \A j \in 1..slot.slen : slot.sbuf[j] \in Int
      BY <2>1, SizeAssumption
    <2>3. SubSeq(slot.sbuf, 1, slot.slen) \in Seq(Int)
      BY <2>1, <2>2, SubSeqProperties
    <2> QED
      BY <1>2, <2>3 DEF Piece
  <1> QED
    BY <1>1, <1>2

\* What a slot with n characters from s on adds.
LEMMA PieceHolds ==
    ASSUME NEW slot \in Slots, NEW s \in Int, NEW n \in Nat, Holds(slot, s, n)
    PROVE  /\ Len(Piece(slot)) = n
           /\ \A j \in 1..n : Piece(slot)[j] = s + j
  <1>1. Piece(slot) = SubSeq(slot.sbuf, 1, n)
    BY DEF Piece, Holds
  <1>2. \A j \in 1..n : slot.sbuf[j] = s + j /\ slot.sbuf[j] \in Int
    BY DEF Holds
  <1> DEFINE b == slot.sbuf
  <1> HIDE DEF b
  <1>3. \A j \in 1..n : b[j] \in Int
    BY <1>2 DEF b
  <1>4. /\ Len(SubSeq(b, 1, n)) = IF 1 <= n THEN n - 1 + 1 ELSE 0
        /\ \A j \in 1..n - 1 + 1 : SubSeq(b, 1, n)[j] = b[1 + j - 1]
    BY <1>3, SubSeqProperties
  <1>5. n - 1 + 1 = n /\ \A j \in 1..n : 1 + j - 1 = j
    OBVIOUS
  <1> QED
    BY <1>1, <1>2, <1>4, <1>5 DEF b

\* A sequence is the function that it is.
LEMMA IsRun ==
    ASSUME NEW f \in Seq(Int), NEW m \in Nat, NEW s \in Int,
           Len(f) = m, \A j \in 1..m : f[j] = s + j
    PROVE  f = [j \in 1..m |-> s + j]
  <1>1. f \in [1..m -> Int]
    BY LenProperties
  <1> QED
    BY <1>1

\* A segment makes a sequence of numbers.
LEMMA SegmentType ==
    ASSUME NEW segment \in [1..SGL_SEGSIZE -> Slots]
    PROVE  SegmentStr(segment) \in Seq(Int)
  <1> DEFINE pieces == [i \in 1..SGL_SEGSIZE |-> Piece(segment[i])]
  <1>1. \A i \in 1..SGL_SEGSIZE : Piece(segment[i]) \in Seq(Int)
    BY PieceType
  <1>2. SGL_SEGSIZE \in Nat
    BY SizeAssumption
  <1>3. pieces \in Seq(Seq(Int))
    BY <1>1, <1>2
  <1> HIDE DEF pieces
  <1>4. Joined(pieces) \in Seq(Int)
    BY <1>3, JoinedType
  <1> QED
    BY <1>4 DEF SegmentStr, pieces

\* So do the segments of the list; a list of one makes what the segment makes.
LEMMA SglType ==
    ASSUME segs \in Seq([1..SGL_SEGSIZE -> Slots])
    PROVE  /\ SglStr \in Seq(Int)
           /\ Len(segs) = 1 => SglStr = SegmentStr(segs[1])
  <1> DEFINE pieces == [k \in 1..Len(segs) |-> SegmentStr(segs[k])]
  <1>1. \A k \in 1..Len(segs) : SegmentStr(segs[k]) \in Seq(Int)
    BY SegmentType, ElementOfSeq
  <1>2. Len(segs) \in Nat
    OBVIOUS
  <1>3. pieces \in Seq(Seq(Int)) /\ Len(pieces) = Len(segs)
    BY <1>1, <1>2
  <1>4. Len(segs) = 1 => pieces[1] = SegmentStr(segs[1])
    OBVIOUS
  <1> HIDE DEF pieces
  <1>5. Joined(pieces) \in Seq(Int) /\ (Len(pieces) = 1 => Joined(pieces) = pieces[1])
    BY <1>3, JoinedType, JoinedOne
  <1>6. SglStr = Joined(pieces)
    BY DEF SglStr, pieces
  <1> QED
    BY <1>3, <1>4, <1>5, <1>6

\* Pieces that go on where the one before ended make one run of positions.
LEMMA JoinedRun ==
    ASSUME NEW pieces \in Seq(Seq(Int)), NEW s \in Int, NEW held,
           held[0] = 0, \A k \in 0..Len(pieces) : held[k] \in Nat,
           \A k \in 0..Len(pieces) - 1 :
              /\ held[k + 1] = held[k] + Len(pieces[k + 1])
              /\ \A j \in 1..Len(pieces[k + 1]) : pieces[k + 1][j] = (s + held[k]) + j
    PROVE  Joined(pieces) = [j \in 1..held[Len(pieces)] |-> s + j]
  <1>1. Len(pieces) \in Nat
    OBVIOUS
  <1>2. PICK f : /\ f[0] = <<>>
                 /\ \A k \in 1..Len(pieces) : f[k] = f[k - 1] \o pieces[k]
                 /\ Joined(pieces) = f[Len(pieces)]
    BY <1>1, JoinedFolds
  <1> DEFINE Run(k) == /\ f[k] \in Seq(Int)
                       /\ Len(f[k]) = held[k]
                       /\ \A j \in 1..held[k] : f[k][j] = s + j
             S == {k \in Nat : k <= Len(pieces) => Run(k)}
  <1>3. 0 \in S
    <2>1. <<>> \in Seq(Int) /\ Len(<<>>) = 0
      BY EmptySeq
    <2>2. Run(0)
      BY <1>2, <2>1
    <2> HIDE DEF Run
    <2> QED
      BY <2>2
  <1>4. ASSUME NEW k \in S PROVE k + 1 \in S
    <2> SUFFICES ASSUME k + 1 <= Len(pieces) PROVE Run(k + 1)
      OBVIOUS
    <2>1. k \in Nat /\ k \in 0..Len(pieces) - 1 /\ k + 1 \in 1..Len(pieces) /\ (k + 1) - 1 = k
      BY <1>1
    <2>2. Run(k)
      BY <1>1, <2>1
    <2> DEFINE a == f[k]
               b == pieces[k + 1]
               c == f[k + 1]
    <2>3. c = a \o b /\ a \in Seq(Int) /\ b \in Seq(Int)
      <3>1. f[k + 1] = f[(k + 1) - 1] \o pieces[k + 1]
        BY <1>2, <2>1
      <3>2. c = a \o b
        BY <2>1, <3>1
      <3>3. b \in Seq(Int)
        BY <2>1
      <3> QED
        BY <2>2, <3>2, <3>3
    <2>4. /\ Len(a) = held[k] /\ held[k] \in Nat
          /\ held[k + 1] = held[k] + Len(b)
          /\ \A j \in 1..held[k] : a[j] = s + j
          /\ \A j \in 1..Len(b) : b[j] = (s + held[k]) + j
      BY <1>1, <2>1, <2>2
    <2> HIDE DEF a, b, c, Run
    <2>5. /\ c \in Seq(Int)
          /\ Len(c) = Len(a) + Len(b)
          /\ \A j \in 1..Len(a) + Len(b) : c[j] = IF j <= Len(a) THEN a[j] ELSE b[j - Len(a)]
      BY <2>3, ConcatProperties
    <2>6. Len(b) \in Nat
      BY <2>3
    <2>7. ASSUME NEW j \in 1..held[k + 1] PROVE c[j] = s + j
      <3>1. CASE j <= held[k]
        BY <2>4, <2>5, <2>6, <3>1
      <3>2. CASE j > held[k]
        <4>0. j \in Int /\ 1 <= j /\ j <= held[k] + Len(b) /\ held[k] < j
          BY <2>4, <2>6, <3>2
        <4>1. j - held[k] \in 1..Len(b) /\ j \in 1..Len(a) + Len(b) /\ ~ (j <= Len(a))
          BY <2>4, <2>6, <4>0, SMTT(30)
        <4>2. c[j] = b[j - held[k]]
          BY <2>4, <2>5, <4>1
        <4>3. b[j - held[k]] = (s + held[k]) + (j - held[k])
          BY <2>4, <4>1
        <4> QED
          BY <2>4, <4>1, <4>2, <4>3
      <3> QED
        BY <2>4, <2>6, <3>1, <3>2
    <2> QED
      BY <2>4, <2>5, <2>7 DEF c, Run
  <1>5. S = Nat
    <2> HIDE DEF Run
    <2> QED
      BY <1>3, <1>4, SetInduction
  <1>6. Run(Len(pieces))
    <2> HIDE DEF S
    <2>1. Len(pieces) \in S
      BY <1>1, <1>5
    <2> QED
      BY <1>1, <2>1 DEF S
  <1>7. held[Len(pieces)] \in Nat
    BY <1>1
  <1> QED
    BY <1>2, <1>6, <1>7, IsRun

\* What the slot behind k pages adds, in a segment of p full pages and one of
\* n characters.
LEMMA PageAfter ==
    ASSUME NEW slot \in Slots, NEW s \in Int, NEW p \in Nat, NEW n \in Nat, NEW k \in Nat,
           IF k + 1 <= p THEN Holds(slot, s + Off(k), Width)
           ELSE IF k + 1 = p + 1 THEN Holds(slot, s + Off(p), n)
           ELSE slot.sbuf = NoPage,
           NEW m, m = IF k <= p THEN Off(k) ELSE Off(p) + n
    PROVE  /\ (IF k + 1 <= p THEN Off(k + 1) ELSE Off(p) + n) = m + Len(Piece(slot))
           /\ \A j \in 1..Len(Piece(slot)) : Piece(slot)[j] = (s + m) + j
  <1>1. Off(k) \in Nat /\ Off(p) \in Nat /\ Width \in Nat /\ Off(k + 1) = Off(k) + Width
    BY OffType, OffNext, WidthType
  <1>2. s + Off(k) \in Int /\ s + Off(p) \in Int
    BY <1>1
  <1>3. CASE k + 1 <= p
    <2>1. m = Off(k) /\ Holds(slot, s + Off(k), Width)
      BY <1>3
    <2>2. Len(Piece(slot)) = Width /\ \A j \in 1..Width : Piece(slot)[j] = (s + Off(k)) + j
      BY <1>1, <1>2, <2>1, PieceHolds
    <2> QED
      BY <1>1, <1>3, <2>1, <2>2
  <1>4. CASE k = p
    <2>1. m = Off(p) /\ Holds(slot, s + Off(p), n) /\ ~ (k + 1 <= p)
      BY <1>4
    <2>2. Len(Piece(slot)) = n /\ \A j \in 1..n : Piece(slot)[j] = (s + Off(p)) + j
      BY <1>2, <2>1, PieceHolds
    <2> QED
      BY <1>1, <2>1, <2>2
  <1>5. CASE k > p
    <2>1. slot.sbuf = NoPage /\ m = Off(p) + n /\ ~ (k + 1 <= p)
      BY <1>5
    <2>2. Piece(slot) = <<>>
      BY <2>1 DEF Piece
    <2> QED
      BY <1>1, <2>1, <2>2
  <1> QED
    BY <1>3, <1>4, <1>5

\* What a segment adds that holds p full pages and one of n characters.
LEMMA SegmentHolds ==
    ASSUME NEW segment, \A i \in 1..SGL_SEGSIZE : segment[i] \in Slots,
           NEW s \in Int, NEW p \in Nat, p < SGL_SEGSIZE, NEW n \in Nat,
           PagesAnd(segment, s, p, n)
    PROVE  SegmentStr(segment) = [j \in 1..(Off(p) + n) |-> s + j]
  <1> DEFINE pieces == [i \in 1..SGL_SEGSIZE |-> Piece(segment[i])]
             Held(k) == IF k <= p THEN Off(k) ELSE Off(p) + n
             held == [k \in 0..SGL_SEGSIZE |-> Held(k)]
  <1>1. SGL_SEGSIZE \in Nat
    BY SizeAssumption
  <1>2. pieces \in Seq(Seq(Int)) /\ Len(pieces) = SGL_SEGSIZE
    <2>1. \A i \in 1..SGL_SEGSIZE : Piece(segment[i]) \in Seq(Int)
      BY PieceType
    <2> QED
      BY <1>1, <2>1
  <1>3. \A i \in 1..SGL_SEGSIZE : pieces[i] = Piece(segment[i])
    OBVIOUS
  <1>4. \A k \in Nat : Held(k) \in Nat
    BY OffType
  <1>5. \A k \in 0..SGL_SEGSIZE : held[k] = Held(k) /\ held[k] \in Nat
    BY <1>1, <1>4
  <1>6. held[0] = 0
    BY <1>1, <1>5, OffNext
  <1>7. ASSUME NEW k \in 0..SGL_SEGSIZE - 1
        PROVE  /\ held[k + 1] = held[k] + Len(pieces[k + 1])
               /\ \A j \in 1..Len(pieces[k + 1]) : pieces[k + 1][j] = (s + held[k]) + j
    <2>1. k \in Nat /\ k + 1 \in 1..SGL_SEGSIZE /\ (k + 1) - 1 = k
      BY <1>1
    <2>2. pieces[k + 1] = Piece(segment[k + 1]) /\ segment[k + 1] \in Slots
      BY <1>3, <2>1
    <2>3. IF k + 1 <= p THEN Holds(segment[k + 1], s + Off(k), Width)
          ELSE IF k + 1 = p + 1 THEN Holds(segment[k + 1], s + Off(p), n)
          ELSE segment[k + 1].sbuf = NoPage
      BY <2>1, Zenon DEF PagesAnd
    <2>4. /\ held[k] = IF k <= p THEN Off(k) ELSE Off(p) + n
          /\ held[k + 1] = IF k + 1 <= p THEN Off(k + 1) ELSE Off(p) + n
      BY <1>1, <1>5, <2>1
    <2> HIDE DEF pieces, held
    <2>5. /\ (IF k + 1 <= p THEN Off(k + 1) ELSE Off(p) + n) = held[k] + Len(Piece(segment[k + 1]))
          /\ \A j \in 1..Len(Piece(segment[k + 1])) : Piece(segment[k + 1])[j] = (s + held[k]) + j
      BY <2>1, <2>2, <2>3, <2>4, PageAfter
    <2> QED
      BY <2>2, <2>4, <2>5
  <1>8. held[SGL_SEGSIZE] = Off(p) + n
    <2>1. ~ (SGL_SEGSIZE <= p) /\ SGL_SEGSIZE \in 0..SGL_SEGSIZE
      BY <1>1
    <2> QED
      BY <1>5, <2>1
  <1>9. SegmentStr(segment) = Joined(pieces)
    BY DEF SegmentStr
  <1> HIDE DEF pieces, held, Held
  <1>10. /\ \A k \in 0..Len(pieces) : held[k] \in Nat
         /\ \A k \in 0..Len(pieces) - 1 :
              /\ held[k + 1] = held[k] + Len(pieces[k + 1])
              /\ \A j \in 1..Len(pieces[k + 1]) : pieces[k + 1][j] = (s + held[k]) + j
    BY <1>2, <1>5, <1>7
  <1>11. Joined(pieces) = [j \in 1..held[Len(pieces)] |-> s + j]
    BY <1>2, <1>6, <1>10, JoinedRun
  <1> QED
    BY <1>2, <1>8, <1>9, <1>11

\* There are finitely many newlines up to a position.
LEMMA NewlinesFinite ==
    ASSUME NEW f, NEW q \in Int
    PROVE  IsFiniteSet(NewlinesUpTo(f, q))
  <1>1. IsFiniteSet(1..q)
    BY FS_Interval
  <1>2. NewlinesUpTo(f, q) \in SUBSET (1..q)
    BY DEF NewlinesUpTo
  <1> QED
    BY <1>1, <1>2, FS_Subset

-----------------------------------------------------------------------------
\* Newlines.  The number of a boundary names it.
LEMMA NewlineIs ==
    ASSUME NEW f \in Seq({"char", "newline"}), NEW q, Boundary(f, q)
    PROVE  Newline(f, Cardinality(NewlinesUpTo(f, q))) = q
  <1> DEFINE C(r) == Cardinality(NewlinesUpTo(f, r))
             N == Newline(f, C(q))
  <1>1. Len(f) \in Nat
    OBVIOUS
  <1>2. q \in 0..Len(f) /\ (q = 0 \/ f[q] = "newline")
    BY DEF Boundary
  <1>3. N \in 0..Len(f) /\ C(N) = C(q) /\ (N = 0 \/ f[N] = "newline")
    <2> DEFINE Is(r) == C(r) = C(q) /\ (r = 0 \/ f[r] = "newline")
    <2>1. Is(q)
      BY <1>2
    <2>2. N = CHOOSE r \in 0..Len(f) : Is(r)
      BY DEF Newline
    <2> HIDE DEF Is, N
    <2>3. N \in 0..Len(f) /\ Is(N)
      BY <1>2, <2>1, <2>2
    <2> QED
      BY <2>3 DEF Is
  <1> HIDE DEF N
  <1>4. ASSUME NEW a \in 0..Len(f), NEW b \in 0..Len(f), a < b, f[b] = "newline"
        PROVE  C(a) # C(b)
    <2>1. NewlinesUpTo(f, a) \subseteq NewlinesUpTo(f, b)
      BY <1>1, <1>4 DEF NewlinesUpTo
    <2>2. b \in NewlinesUpTo(f, b) /\ b \notin NewlinesUpTo(f, a)
      BY <1>1, <1>4 DEF NewlinesUpTo
    <2>3. IsFiniteSet(NewlinesUpTo(f, b))
      BY NewlinesFinite
    <2> QED
      BY <2>1, <2>2, <2>3, FS_Subset
  <1> HIDE DEF C
  <1>5. N = q
    BY <1>1, <1>2, <1>3, <1>4
  <1> QED
    BY <1>5 DEF N, C

\* The next newline behind a boundary has the next number.
LEMMA NextNewline ==
    ASSUME NEW f, NEW s \in Nat, NEW q \in Nat, s < q, f[q] = "newline",
           \A r \in (s + 1)..(q - 1) : f[r] # "newline"
    PROVE  Cardinality(NewlinesUpTo(f, q)) = Cardinality(NewlinesUpTo(f, s)) + 1
  <1>1. NewlinesUpTo(f, q) = NewlinesUpTo(f, s) \cup {q}
    BY DEF NewlinesUpTo
  <1>2. q \notin NewlinesUpTo(f, s)
    BY DEF NewlinesUpTo
  <1>3. IsFiniteSet(NewlinesUpTo(f, s))
    BY NewlinesFinite
  <1> QED
    BY <1>1, <1>2, <1>3, FS_AddElement

-----------------------------------------------------------------------------
\* fgets takes at least one character unless the file is at its end, and stops
\* behind a newline, at a full page, or at the end of the file.
LEMMA TakenIs ==
    ASSUME file \in Seq({"char", "newline"}), pos \in 0..Len(file)
    PROVE  /\ Taken = pos <=> pos = Len(file)
           /\ pos # Len(file) =>
                 /\ Taken \in (pos + 1)..Len(file)
                 /\ Taken <= pos + Width
                 /\ \A q \in (pos + 1)..(Taken - 1) : file[q] # "newline"
                 /\ Taken = pos + Width \/ Taken = Len(file) \/ file[Taken] = "newline"
  <1> DEFINE full == pos + SGL_PAGESIZE - 1
             ends == {q \in pos + 1..Len(file) : q = full \/ q = Len(file) \/ file[q] = "newline"}
             First(q) == \A r \in ends : q <= r
  <1>1. Len(file) \in Nat /\ Width \in Nat \ {0} /\ full = pos + Width
    BY WidthType, SizeAssumption DEF Width
  <1>2. Taken = IF ends = {} THEN pos ELSE CHOOSE q \in ends : First(q)
    BY DEF Taken
  <1> HIDE DEF full
  <1>3. CASE pos = Len(file)
    <2>1. ends = {}
      BY <1>1, <1>3
    <2> HIDE DEF ends
    <2> QED
      BY <1>2, <1>3, <2>1
  <1>4. CASE pos # Len(file)
    <2>1. ends # {} /\ ends \in SUBSET Nat
      <3>1. Len(file) \in ends
        BY <1>1, <1>4
      <3> QED
        BY <1>1, <3>1
    <2>2. Taken \in ends /\ First(Taken)
      <3> HIDE DEF ends
      <3>1. \E q \in ends : First(q)
        BY <2>1, Smallest
      <3> HIDE DEF First
      <3> QED
        BY <1>2, <2>1, <3>1
    <2>3. Taken \in (pos + 1)..Len(file)
      BY <2>2
    <2>4. Taken <= full
      <3>1. full \in ends \/ ~ (full <= Len(file))
        BY <1>1
      <3>2. CASE full \in ends
        <4> HIDE DEF ends
        <4> QED
          BY <2>2, <3>2
      <3>3. CASE ~ (full <= Len(file))
        BY <1>1, <2>3, <3>3
      <3> QED
        BY <3>1, <3>2, <3>3
    <2>5. \A q \in (pos + 1)..(Taken - 1) : q \notin ends
      <3> HIDE DEF ends
      <3> QED
        BY <1>1, <2>2, <2>3
    <2>6. \A q \in (pos + 1)..(Taken - 1) : file[q] # "newline"
      BY <1>1, <2>3, <2>5
    <2>7. Taken = full \/ Taken = Len(file) \/ file[Taken] = "newline"
      BY <2>2
    <2>8. Taken # pos
      BY <1>1, <2>3
    <2> QED
      BY <1>1, <1>4, <2>3, <2>4, <2>6, <2>7, <2>8
  <1> QED
    BY <1>3, <1>4

\* The list stays one of segments, and the slot is one of them.
LEMMA AppendType ==
    ASSUME segs \in Seq([1..SGL_SEGSIZE -> Slots]), segs # <<>>
    PROVE  /\ SglAppend.segs \in Seq([1..SGL_SEGSIZE -> Slots])
           /\ SglAppend.segs # <<>>
           /\ SglAppend.seg \in 1..Len(SglAppend.segs)
           /\ SglAppend.slot \in 1..SGL_SEGSIZE
  <1> DEFINE Segment == [1..SGL_SEGSIZE -> Slots]
             last == Len(segs)
             vacant == {i \in 1..SGL_SEGSIZE : segs[last][i].sbuf = NoPage}
             First(j) == \A k \in vacant : j <= k
             i == IF vacant = {} THEN 1 ELSE CHOOSE j \in vacant : First(j)
             old == [segs EXCEPT ![last][i].sbuf = FreshPage]
             new == IF vacant = {} THEN <<EmptySegment>> ELSE <<>>
  <1>1. SglAppend = [seg |-> last, slot |-> i, segs |-> old \o new]
    BY DEF SglAppend
  <1>2. last \in 1..Len(segs) /\ Len(segs) \in Nat /\ segs[last] \in Segment
    BY EmptySeq, ElementOfSeq
  <1>3. i \in 1..SGL_SEGSIZE
    <2>1. vacant \in SUBSET Nat /\ vacant \in SUBSET (1..SGL_SEGSIZE)
      BY SizeAssumption
    <2>2. CASE vacant = {}
      BY <2>2, SizeAssumption
    <2>3. CASE vacant # {}
      <3> HIDE DEF vacant
      <3>1. \E j \in vacant : First(j)
        BY <2>1, <2>3, Smallest
      <3> HIDE DEF First
      <3> QED
        BY <2>1, <2>3, <3>1
    <2> QED
      BY <2>2, <2>3
  <1> HIDE DEF i, last, vacant
  <1>4. old \in Seq(Segment) /\ Len(old) = Len(segs)
    <2>1. FreshPage \in [1..SGL_PAGESIZE -> Int]
      BY DEF FreshPage, JUNK
    <2>2. segs[last][i] \in Slots
      BY <1>2, <1>3
    <2>3. [segs[last][i] EXCEPT !.sbuf = FreshPage] \in Slots
      BY <2>1, <2>2 DEF Slots
    <2> DEFINE slot == [segs[last][i] EXCEPT !.sbuf = FreshPage]
               segment == [segs[last] EXCEPT ![i] = slot]
    <2>4. old = [segs EXCEPT ![last] = segment]
      OBVIOUS
    <2> HIDE DEF slot
    <2>5. slot \in Slots
      BY <2>3 DEF slot
    <2>6. segment \in Segment
      BY <1>2, <1>3, <2>5
    <2> HIDE DEF segment, Segment, old
    <2> QED
      BY <1>2, <2>4, <2>6, ExceptSeq DEF Segment
  <1>5. new \in Seq(Segment) /\ Len(new) \in Nat
    <2>1. EmptySegment \in Segment
      BY SizeAssumption DEF EmptySegment, Slots
    <2> HIDE DEF Segment
    <2> QED
      BY <2>1, EmptySeq
  <1> HIDE DEF old, new
  <1>6. old \o new \in Seq(Segment) /\ Len(old \o new) = Len(old) + Len(new)
    BY <1>4, <1>5, ConcatProperties
  <1> HIDE DEF Segment
  <1>7. old \o new # <<>>
    BY <1>2, <1>4, <1>5, <1>6, EmptySeq
  <1> QED
    BY <1>1, <1>2, <1>3, <1>4, <1>5, <1>6, <1>7 DEF Segment

\* In a segment that is not full the page goes to the first slot without one.
LEMMA AppendSlot ==
    ASSUME segs \in Seq([1..SGL_SEGSIZE -> Slots]), Len(segs) = 1,
           NEW s, NEW p \in Nat, p < SGL_SEGSIZE, Pages(segs[1], s, p)
    PROVE  /\ SglAppend.seg = 1 /\ SglAppend.slot = p + 1
           /\ SglAppend.segs = [segs EXCEPT ![1][p + 1].sbuf = FreshPage]
  <1> DEFINE vacant == {i \in 1..SGL_SEGSIZE : segs[1][i].sbuf = NoPage}
             First(j) == \A k \in vacant : j <= k
             i == IF vacant = {} THEN 1 ELSE CHOOSE j \in vacant : First(j)
             old == [segs EXCEPT ![1][i].sbuf = FreshPage]
  <1>1. SglAppend = [seg |-> 1, slot |-> i,
                     segs |-> old \o IF vacant = {} THEN <<EmptySegment>> ELSE <<>>]
    BY DEF SglAppend
  <1>2. SGL_SEGSIZE \in Nat /\ p + 1 \in 1..SGL_SEGSIZE
    BY SizeAssumption
  <1>3. p + 1 \in vacant /\ \A j \in vacant : p + 1 <= j
    BY <1>2 DEF Pages, Holds
  <1>4. i = p + 1
    <2>1. vacant # {} /\ vacant \in SUBSET Nat
      BY <1>3
    <2> HIDE DEF vacant
    <2>2. i \in vacant /\ First(i)
      <3>1. \E j \in vacant : First(j)
        BY <2>1, Smallest
      <3> HIDE DEF First
      <3> QED
        BY <2>1, <3>1
    <2> HIDE DEF i
    <2> QED
      BY <1>3, <2>1, <2>2
  <1>5. vacant # {}
    BY <1>3
  <1> HIDE DEF vacant, i
  <1>6. old \o <<>> = old
    <2> DEFINE segment == [segs[1] EXCEPT ![i].sbuf = FreshPage]
    <2>2. old = [segs EXCEPT ![1] = segment]
      OBVIOUS
    <2> HIDE DEF segment, old
    <2>3. segs \in Seq([1..SGL_SEGSIZE -> Slots] \cup {segment})
      BY SeqMonotonic
    <2>4. old \in Seq([1..SGL_SEGSIZE -> Slots] \cup {segment})
      BY <2>2, <2>3, ExceptSeq
    <2> QED
      BY <2>4, ConcatEmptySeq
  <1> HIDE DEF old
  <1> QED
    BY <1>1, <1>4, <1>5, <1>6 DEF old

-----------------------------------------------------------------------------
\* The page that is read goes behind the full ones.
LEMMA SlotFilled ==
    ASSUME segs \in Seq([1..SGL_SEGSIZE -> Slots]), Len(segs) = 1,
           NEW s \in Int, NEW p \in Nat, p < SGL_SEGSIZE, Pages(segs[1], s, p),
           NEW n \in 0..Width, pos = s + Off(p), NEW new,
           new = [SglAppend.segs EXCEPT ![SglAppend.seg][SglAppend.slot] =
                     [sbuf |-> Filled(n), slen |-> n]]
    PROVE  /\ Len(new) = 1
           /\ PagesAnd(new[1], s, p, n)
           /\ n = Width => Pages(new[1], s, p + 1)
  <1> DEFINE slot == [sbuf |-> Filled(n), slen |-> n]
             page == [segs[1] EXCEPT ![p + 1].sbuf = FreshPage]
             segment == [page EXCEPT ![p + 1] = slot]
  <1>1. SGL_SEGSIZE \in Nat /\ p + 1 \in 1..SGL_SEGSIZE /\ Width \in Nat \ {0} /\ Off(p) \in Nat
    BY SizeAssumption, WidthType, OffType
  <1>2. segs[1] \in [1..SGL_SEGSIZE -> Slots]
    <2>1. 1 \in 1..Len(segs)
      OBVIOUS
    <2> QED
      BY <2>1, ElementOfSeq
  <1>3. SglAppend.seg = 1 /\ SglAppend.slot = p + 1 /\ SglAppend.segs = [segs EXCEPT ![1] = page]
    BY AppendSlot
  <1> DEFINE old == [segs EXCEPT ![1] = page]
  <1>4. Len(old) = 1 /\ old[1] = page /\ DOMAIN old = 1..1
    <2> HIDE DEF page
    <2> QED
      OBVIOUS
  <1>5. new = [old EXCEPT ![1][p + 1] = slot]
    BY <1>3
  <1>6. new = [old EXCEPT ![1] = segment]
    <2> HIDE DEF slot, page, old
    <2> QED
      BY <1>4, <1>5
  <1>7. new[1] = segment /\ Len(new) = 1
    <2>1. DOMAIN new = 1..1
      BY <1>4, <1>6
    <2> HIDE DEF segment, old
    <2> QED
      BY <1>4, <1>6, <2>1
  <1>8. Holds(slot, s + Off(p), n)
    <2>1. Filled(n) = [j \in 1..SGL_PAGESIZE |-> IF j <= n THEN pos + j ELSE JUNK]
      BY DEF Filled
    <2>2. \A j \in 1..n : j \in 1..SGL_PAGESIZE /\ j <= n
      BY <1>1, SizeAssumption DEF Width
    <2>3. \A j \in 1..n : Filled(n)[j] = pos + j
      BY <2>1, <2>2
    <2>4. Filled(n) # NoPage
      <3>1. 1 \in 1..SGL_PAGESIZE
        BY SizeAssumption
      <3>2. 1 \in DOMAIN Filled(n)
        BY <2>1, <3>1
      <3>3. DOMAIN NoPage = {}
        BY DEF NoPage
      <3> QED
        BY <3>2, <3>3
    <2> QED
      BY <2>3, <2>4 DEF Holds
  <1>9. ASSUME NEW i \in 1..SGL_SEGSIZE
        PROVE  segment[i] = IF i = p + 1 THEN slot ELSE segs[1][i]
    BY <1>1, <1>2
  <1> HIDE DEF slot, segment, page
  <1>10. \A i \in 1..SGL_SEGSIZE :
            IF i <= p THEN Holds(segs[1][i], s + Off(i - 1), Width)
            ELSE segs[1][i].sbuf = NoPage
    BY DEF Pages
  <1>11. PagesAnd(segment, s, p, n)
    <2> SUFFICES ASSUME NEW i \in 1..SGL_SEGSIZE
                 PROVE  IF i <= p THEN Holds(segment[i], s + Off(i - 1), Width)
                        ELSE IF i = p + 1 THEN Holds(segment[i], s + Off(p), n)
                        ELSE segment[i].sbuf = NoPage
      BY DEF PagesAnd
    <2>1. CASE i <= p
      BY <1>9, <1>10, <2>1
    <2>2. CASE i = p + 1
      BY <1>8, <1>9, <2>2
    <2>3. CASE i > p + 1
      BY <1>9, <1>10, <2>3
    <2> QED
      BY <2>1, <2>2, <2>3
  <1>12. ASSUME n = Width PROVE Pages(segment, s, p + 1)
    <2> SUFFICES ASSUME NEW i \in 1..SGL_SEGSIZE
                 PROVE  IF i <= p + 1 THEN Holds(segment[i], s + Off(i - 1), Width)
                        ELSE segment[i].sbuf = NoPage
      BY DEF Pages
    <2>1. CASE i <= p
      BY <1>9, <1>10, <2>1
    <2>2. CASE i = p + 1
      <3>1. i - 1 = p /\ segment[i] = slot
        BY <1>9, <2>2
      <3> QED
        BY <1>8, <1>12, <2>2, <3>1
    <2>3. CASE i > p + 1
      BY <1>9, <1>10, <2>3
    <2> QED
      BY <2>1, <2>2, <2>3
  <1> QED
    BY <1>7, <1>11, <1>12

\* The page that is read is a page, whichever slot it goes to.
LEMMA ReadType ==
    ASSUME segs \in Seq([1..SGL_SEGSIZE -> Slots]), segs # <<>>, pos \in Nat,
           NEW n \in 0..Width, NEW new,
           new = [SglAppend.segs EXCEPT ![SglAppend.seg][SglAppend.slot] =
                     [sbuf |-> Filled(n), slen |-> n]]
    PROVE  new \in Seq([1..SGL_SEGSIZE -> Slots]) /\ new # <<>>
  <1> DEFINE Segment == [1..SGL_SEGSIZE -> Slots]
             a == SglAppend.segs
             k == SglAppend.seg
             i == SglAppend.slot
             slot == [sbuf |-> Filled(n), slen |-> n]
             segment == [a[k] EXCEPT ![i] = slot]
  <1>1. slot \in Slots
    <2>1. Filled(n) \in [1..SGL_PAGESIZE -> Int]
      BY DEF Filled, JUNK
    <2>2. n \in 0..SGL_PAGESIZE
      BY SizeAssumption DEF Width
    <2> QED
      BY <2>1, <2>2 DEF Slots
  <1> HIDE DEF slot
  <1>2. a \in Seq(Segment) /\ k \in 1..Len(a) /\ i \in 1..SGL_SEGSIZE /\ a # <<>>
    BY AppendType
  <1>3. new = [a EXCEPT ![k] = segment]
    BY DEF slot
  <1> HIDE DEF a, k, i
  <1>4. segment \in Segment
    <2>1. a[k] \in Segment
      BY <1>2, ElementOfSeq
    <2> QED
      BY <1>1, <1>2, <2>1
  <1> HIDE DEF segment, Segment
  <1>5. new \in Seq(Segment) /\ Len(new) = Len(a)
    <2>1. a \in Seq(Segment) /\ k \in 1..Len(a) /\ segment \in Segment
      BY <1>2, <1>4
    <2>2. /\ [a EXCEPT ![k] = segment] \in Seq(Segment)
          /\ Len([a EXCEPT ![k] = segment]) = Len(a)
      BY <2>1, ExceptSeq
    <2> QED
      BY <1>3, <2>2
  <1>6. new # <<>>
    BY <1>2, <1>5, EmptySeq
  <1> QED
    BY <1>5, <1>6 DEF Segment

-----------------------------------------------------------------------------
\* Files are sequences, so their length is a number.
LEMMA FileType ==
    ASSUME TypeOK
    PROVE  file \in Seq({"char", "newline"}) /\ Len(file) \in Nat /\ pos \in Nat
  BY FilesAssumption DEF TypeOK

\* Types in a step.
LEMMA TypeStep == TypeOK /\ [Next]_vars => TypeOK'
  <1> SUFFICES ASSUME TypeOK, [Next]_vars PROVE TypeOK'
    OBVIOUS
  <1>1. file \in Seq({"char", "newline"}) /\ Len(file) \in Nat /\ pos \in Nat
    BY FileType
  <1>2. EmptySegment \in [1..SGL_SEGSIZE -> Slots]
    BY SizeAssumption DEF EmptySegment, Slots
  <1> USE DEF TypeOK
  <1>3. CASE Call
    <2>1. segs' \in Seq([1..SGL_SEGSIZE -> Slots]) /\ segs' # <<>>
      BY <1>2, <1>3 DEF Call
    <2>2. lbuf' \in [buf : Seq(Int), len : Nat, eof : BOOLEAN]
      <3>1. lbuf' = [buf |-> <<>>, len |-> 0, eof |-> lbuf.eof]
        BY <1>3 DEF Call
      <3>2. <<>> \in Seq(Int) /\ lbuf.eof \in BOOLEAN
        BY EmptySeq
      <3> QED
        BY <3>1, <3>2
    <2> QED
      BY <1>3, <2>1, <2>2 DEF Call
  <1>4. CASE EndOfFile
    <2>1. segs' \in Seq([1..SGL_SEGSIZE -> Slots]) /\ segs' # <<>>
      BY <1>4, AppendType DEF EndOfFile
    <2>2. lbuf' \in [buf : Seq(Int), len : Nat, eof : BOOLEAN]
      BY <1>4 DEF EndOfFile
    <2> QED
      BY <1>4, <2>1, <2>2 DEF EndOfFile
  <1>5. CASE ReadPage
    <2> DEFINE n == Taken - pos - IF file[Taken] = "newline" THEN 1 ELSE 0
    <2>1. Taken \in (pos + 1)..Len(file) /\ Taken <= pos + Width /\ Width \in Nat
      BY <1>1, <1>5, TakenIs, WidthType DEF ReadPage
    <2>2. n \in 0..Width
      <3>1. CASE file[Taken] = "newline"
        BY <1>1, <2>1, <3>1
      <3>2. CASE file[Taken] # "newline"
        BY <1>1, <2>1, <3>2
      <3> QED
        BY <3>1, <3>2
    <2>3. /\ segs' = [SglAppend.segs EXCEPT ![SglAppend.seg][SglAppend.slot] =
                        [sbuf |-> Filled(n), slen |-> n]]
          /\ llen' = llen + n
      BY <1>5 DEF ReadPage
    <2> HIDE DEF n
    <2>4. segs' \in Seq([1..SGL_SEGSIZE -> Slots]) /\ segs' # <<>>
      BY <1>1, <2>2, <2>3, ReadType
    <2>5. llen' \in Nat
      BY <2>2, <2>3
    <2> QED
      BY <1>1, <1>5, <2>1, <2>4, <2>5, SMTT(30) DEF ReadPage
  <1>6. CASE Build
    <2>1. SglStr \in Seq(Int)
      BY SglType
    <2>2. lbuf' \in [buf : Seq(Int), len : Nat, eof : BOOLEAN]
      BY <1>6, <2>1 DEF Build
    <2>3. lines' \in Seq([buf : Seq(Int), len : Nat])
      <3> DEFINE line == [buf |-> SglStr, len |-> llen]
      <3>1. line \in [buf : Seq(Int), len : Nat]
        BY <2>1
      <3>2. lines' = lines \/ lines' = Append(lines, line)
        BY <1>6 DEF Build
      <3> HIDE DEF line
      <3>3. lines \in Seq([buf : Seq(Int), len : Nat])
        OBVIOUS
      <3>4. Append(lines, line) \in Seq([buf : Seq(Int), len : Nat])
        BY <3>1, <3>3, AppendProperties
      <3> QED
        BY <3>2, <3>3, <3>4
    <2> QED
      BY <1>6, <2>2, <2>3 DEF Build
  <1>7. CASE UNCHANGED vars
    BY <1>7 DEF vars
  <1> QED
    BY <1>3, <1>4, <1>5, <1>6, <1>7 DEF Next, Step

\* The first line begins at the start of the file.
LEMMA LineInit == Init => LineIInv
  <1> SUFFICES ASSUME Init PROVE LineIInv
    OBVIOUS
  <1> USE DEF Init
  <1>1. TypeOK
    <2>1. EmptySegment \in [1..SGL_SEGSIZE -> Slots]
      BY SizeAssumption DEF EmptySegment, Slots
    <2>2. segs \in Seq([1..SGL_SEGSIZE -> Slots]) /\ segs # <<>>
      BY <2>1
    <2>3. Len(file) \in Nat
      BY FilesAssumption
    <2>4. lbuf \in [buf : Seq(Int), len : Nat, eof : BOOLEAN]
      OBVIOUS
    <2> QED
      BY <2>2, <2>3, <2>4 DEF TypeOK
  <1>2. Begins(file, Len(lines), pos, pos)
    <2>1. NewlinesUpTo(file, 0) = {}
      BY DEF NewlinesUpTo
    <2>2. Cardinality(NewlinesUpTo(file, 0)) = 0
      BY <2>1, FS_EmptySet
    <2>3. Len(lines) = 0 /\ Len(file) \in Nat
      BY FilesAssumption
    <2> QED
      BY <2>2, <2>3 DEF Begins, Boundary
  <1>3. ShortLinesIntact
    BY DEF ShortLinesIntact
  <1> QED
    BY <1>1, <1>2, <1>3 DEF LineIInv

\* A call starts a line on an empty segment.
LEMMA CallStep ==
    ASSUME LineIInv, TypeOK', Call
    PROVE  LineIInv'
  <1>1. /\ file' = file /\ pos' = pos /\ lines' = lines /\ llen' = 0 /\ pc' = "page"
        /\ segs' = <<EmptySegment>> /\ pos \in Nat
    BY FileType DEF Call, LineIInv
  <1>2. ~ lbuf'.eof
    BY DEF Call, LineIInv, TypeOK
  <1>3. PagesFull'
    <2>1. pos' - llen' = pos
      BY <1>1
    <2>2. Begins(file, Len(lines), pos, pos)
      BY DEF Call, LineIInv
    <2>3. llen' = Off(0) /\ 0 \in 0..llen'
      BY <1>1, OffNext
    <2>4. Len(segs') = 1 /\ segs'[1] = EmptySegment
      BY <1>1
    <2>5. Pages(EmptySegment, pos, 0)
      BY DEF Pages, EmptySegment
    <2> QED
      BY <1>1, <2>1, <2>2, <2>3, <2>4, <2>5 DEF PagesFull
  <1>4. ShortLinesIntact'
    BY <1>1 DEF LineIInv, ShortLinesIntact, Intact
  <1> QED
    BY <1>1, <1>2, <1>3, <1>4 DEF LineIInv

\* The end of the file: what was read is not a line.
LEMMA EndStep ==
    ASSUME LineIInv, TypeOK', EndOfFile
    PROVE  LineIInv'
  <1>1. file' = file /\ lines' = lines /\ pc' = "build"
    BY DEF EndOfFile
  <1>2. lbuf'.eof
    BY DEF EndOfFile, LineIInv, TypeOK
  <1>3. ShortLinesIntact'
    BY <1>1 DEF LineIInv, ShortLinesIntact, Intact
  <1> QED
    BY <1>1, <1>2, <1>3 DEF LineIInv

\* A page, and what it leaves of the line.
LEMMA ReadStep ==
    ASSUME LineIInv, TypeOK', ReadPage
    PROVE  LineIInv'
  <1> DEFINE s == pos - llen
             t == Taken
             n == t - pos - IF file[t] = "newline" THEN 1 ELSE 0
  <1>1. TypeOK /\ file \in Seq({"char", "newline"}) /\ Len(file) \in Nat /\ pos \in Nat
        /\ llen \in Nat /\ pos \in 0..Len(file)
    BY FileType DEF LineIInv, TypeOK
  <1>2. /\ file' = file /\ lines' = lines /\ lbuf' = lbuf /\ pos' = t /\ llen' = llen + n
        /\ pc' = IF file[t] = "newline" THEN "build" ELSE "page"
        /\ segs' = [SglAppend.segs EXCEPT ![SglAppend.seg][SglAppend.slot] =
                      [sbuf |-> Filled(n), slen |-> n]]
    BY DEF ReadPage
  <1>3. /\ pos # Len(file)
        /\ t \in (pos + 1)..Len(file)
        /\ t <= pos + Width
        /\ \A q \in (pos + 1)..(t - 1) : file[q] # "newline"
        /\ t = pos + Width \/ t = Len(file) \/ file[t] = "newline"
    BY <1>1, TakenIs DEF ReadPage
  <1>4. ~ lbuf.eof /\ PagesFull
    BY DEF ReadPage, LineIInv
  <1>5. PICK p \in 0..llen : llen = Off(p) /\ (p <= SGL_SEGSIZE => Len(segs) = 1 /\ Pages(segs[1], s, p))
    BY <1>3, <1>4 DEF PagesFull
  <1>6. Begins(file, Len(lines), s, pos)
    BY <1>4 DEF PagesFull
  <1> HIDE DEF t
  <1>7. /\ p \in Nat /\ p + 1 \in Nat /\ Width \in Nat \ {0} /\ Off(p) \in Nat
        /\ Off(p + 1) = Off(p) + Width /\ p + 1 <= Off(p + 1) /\ SGL_SEGSIZE \in Nat
        /\ s \in Int /\ pos = s + Off(p)
    <2>1. p \in Nat /\ p + 1 \in Nat /\ SGL_SEGSIZE \in Nat
      BY <1>1, SizeAssumption
    <2>2. Off(p) \in Nat /\ Off(p + 1) = Off(p) + Width
      BY <2>1, OffType, OffNext
    <2>3. p + 1 <= Off(p + 1)
      <3>1. p + 1 <= p + 1
        BY <2>1
      <3> QED
        BY <2>1, <3>1, OffMonotone
    <2> QED
      BY <1>1, <1>5, <2>1, <2>2, <2>3, WidthType
  <1>8. n \in 0..Width
    <2>1. CASE file[t] = "newline"
      BY <1>1, <1>3, <1>7, <2>1
    <2>2. CASE file[t] # "newline"
      BY <1>1, <1>3, <1>7, <2>2
    <2> QED
      BY <2>1, <2>2
  <1>9. ASSUME p < SGL_SEGSIZE
        PROVE  /\ Len(segs') = 1
               /\ PagesAnd(segs'[1], s, p, n)
               /\ n = Width => Pages(segs'[1], s, p + 1)
    <2>1. Len(segs) = 1 /\ Pages(segs[1], s, p)
      BY <1>5, <1>7, <1>9
    <2>2. segs \in Seq([1..SGL_SEGSIZE -> Slots])
      BY <1>1 DEF TypeOK
    <2> HIDE DEF s, n
    <2> QED
      BY <1>2, <1>7, <1>8, <1>9, <2>1, <2>2, SlotFilled
  <1>10. ShortLinesIntact'
    BY <1>2 DEF LineIInv, ShortLinesIntact, Intact
  <1>11. CASE file[t] = "newline"
    <2>1. n = t - pos - 1 /\ pc' = "build" /\ pos' - 1 - llen' = s /\ n < Width
      BY <1>1, <1>2, <1>3, <1>7, <1>11
    <2>2. Begins(file, Len(lines), s, t - 1)
      BY <1>1, <1>3, <1>6, <1>7 DEF Begins
    <2>3. p \in 0..llen' /\ llen' - Off(p) = n /\ 0 <= n
      <3>1. llen' = llen + n /\ n \in Nat
        BY <1>2, <1>7, <1>8
      <3> HIDE DEF n, s
      <3>2. llen = Off(p) /\ llen \in Nat /\ p \in 0..llen
        BY <1>1, <1>5
      <3> QED
        BY <3>1, <3>2
    <2>4. pos' \in 1..Len(file') /\ file'[pos'] = "newline"
      BY <1>1, <1>2, <1>3, <1>11
    <2> HIDE DEF n, s
    <2>5. LineRead'
      BY <1>2, <1>9, <2>1, <2>2, <2>3, <2>4 DEF LineRead
    <2> QED
      BY <1>10, <2>1, <2>5 DEF LineIInv
  <1>12. CASE file[t] # "newline"
    <2>1. n = t - pos /\ pc' = "page" /\ pos' - llen' = s
      BY <1>1, <1>2, <1>3, <1>7, <1>12
    <2>2. Begins(file, Len(lines), s, t)
      BY <1>1, <1>3, <1>6, <1>7, <1>12 DEF Begins
    <2>3. ASSUME t # Len(file)
          PROVE  \E q \in 0..llen' :
                    llen' = Off(q) /\ (q <= SGL_SEGSIZE => Len(segs') = 1 /\ Pages(segs'[1], s, q))
      <3>1. n = Width
        <4>1. t = pos + Width
          BY <1>3, <1>12, <2>3
        <4> HIDE DEF n
        <4> QED
          BY <1>1, <1>7, <2>1, <4>1
      <3>2. llen' = Off(p + 1) /\ p + 1 \in 0..llen'
        BY <1>2, <1>5, <1>7, <3>1
      <3>3. p + 1 <= SGL_SEGSIZE => p < SGL_SEGSIZE
        BY <1>7
      <3> HIDE DEF n, s
      <3> QED
        BY <1>9, <3>1, <3>2, <3>3
    <2>4. PagesFull'
      <3> HIDE DEF n, s
      <3> QED
        BY <1>2, <2>1, <2>2, <2>3 DEF PagesFull
    <2> QED
      BY <1>2, <1>4, <1>10, <2>1, <2>4 DEF LineIInv
  <1> QED
    BY <1>11, <1>12

\* The line that was read is the next one of the file.
LEMMA BuildStep ==
    ASSUME LineIInv, TypeOK', Build
    PROVE  LineIInv'
  <1>1. TypeOK /\ file \in Seq({"char", "newline"}) /\ Len(file) \in Nat /\ pos \in Nat
        /\ llen \in Nat /\ pos \in 0..Len(file)
    BY FileType DEF LineIInv, TypeOK
  <1>2. file' = file /\ pos' = pos
    BY DEF Build
  <1>3. CASE pc' # "call"
    <2>1. lines' = lines /\ pc' \in {"abort", "done"}
      BY <1>3 DEF Build
    <2>2. ShortLinesIntact'
      BY <1>2, <2>1 DEF LineIInv, ShortLinesIntact, Intact
    <2> QED
      BY <2>1, <2>2 DEF LineIInv
  <1>4. CASE pc' = "call"
    <2> DEFINE s == pos - 1 - llen
               line == [buf |-> SglStr, len |-> llen]
               m == Len(lines)
    <2>1. /\ ~ lbuf.eof
          /\ lines' = Append(lines, line)
          /\ lbuf' = [lbuf EXCEPT !.buf = SglStr, !.len = llen]
      BY <1>4 DEF Build
    <2>2. LineRead
      BY <2>1 DEF Build, LineIInv
    <2>3. Begins(file, m, s, pos - 1) /\ pos \in 1..Len(file) /\ file[pos] = "newline"
      BY <2>2 DEF LineRead
    <2>4. PICK p \in 0..llen :
             LET n == llen - Off(p)
             IN  /\ 0 <= n /\ n < Width
                 /\ p < SGL_SEGSIZE => Len(segs) = 1 /\ PagesAnd(segs[1], s, p, n)
      BY <2>2 DEF LineRead
    <2>5. m \in Nat /\ Len(lines') = m + 1 /\ lines'[m + 1] = line
          /\ \A k \in 1..m : lines'[k] = lines[k]
      <3>1. lines \in Seq([buf : Seq(Int), len : Nat])
        BY <1>1 DEF TypeOK
      <3>2. line \in [buf : Seq(Int), len : Nat]
        <4>1. SglStr \in Seq(Int)
          BY <1>1, SglType DEF TypeOK
        <4> QED
          BY <1>1, <4>1
      <3> HIDE DEF line
      <3> QED
        BY <2>1, <3>1, <3>2
    <2>6. s \in Nat /\ s < pos /\ Boundary(file, s) /\ Cardinality(NewlinesUpTo(file, s)) = m
          /\ \A q \in (s + 1)..(pos - 1) : file[q] # "newline"
      BY <1>1, <2>3 DEF Begins, Boundary
    <2> HIDE DEF line, m
    <2>7. Boundary(file, pos) /\ Cardinality(NewlinesUpTo(file, pos)) = m + 1
      <3>1. Boundary(file, pos)
        BY <1>1, <2>3 DEF Boundary
      <3> HIDE DEF s
      <3> QED
        BY <1>1, <2>3, <2>6, <3>1, NextNewline
    <2>8. Newline(file, m) = s /\ Newline(file, m + 1) = pos
      <3> HIDE DEF s
      <3>1. Newline(file, m) = s
        BY <1>1, <2>6, NewlineIs
      <3>2. Newline(file, m + 1) = pos
        BY <1>1, <2>7, NewlineIs
      <3> QED
        BY <3>1, <3>2
    <2>9. Line(file, m + 1) = [i \in 1..llen |-> s + i]
      <3>1. (m + 1) - 1 = m /\ pos - s - 1 = llen
        BY <1>1, <2>5
      <3> HIDE DEF s
      <3> QED
        BY <2>8, <3>1 DEF Line
    <2>10. ASSUME FitsSegment(Len(Line(file, m + 1)))
           PROVE  line = [buf |-> Line(file, m + 1), len |-> Len(Line(file, m + 1))]
      <3>1. Len(Line(file, m + 1)) = llen
        BY <1>1, <2>9
      <3>2. llen + 1 <= Off(SGL_SEGSIZE) /\ SGL_SEGSIZE \in Nat
        BY <2>10, <3>1, SizeAssumption DEF FitsSegment, Off, Width
      <3>3. p \in Nat /\ Off(p) \in Nat /\ llen - Off(p) \in Nat /\ Off(p) + (llen - Off(p)) = llen
        <4>1. p \in Nat /\ 0 <= llen - Off(p)
          BY <1>1, <2>4
        <4>2. Off(p) \in Nat
          BY <4>1, OffType
        <4> QED
          BY <1>1, <4>1, <4>2
      <3>4. p < SGL_SEGSIZE
        <4>1. CASE SGL_SEGSIZE <= p
          <5>1. Off(SGL_SEGSIZE) <= Off(p) /\ Off(SGL_SEGSIZE) \in Nat
            BY <3>2, <3>3, <4>1, OffMonotone, OffType
          <5> QED
            BY <1>1, <3>2, <3>3, <5>1
        <4> QED
          BY <3>2, <3>3, <4>1
      <3>5. Len(segs) = 1 /\ PagesAnd(segs[1], s, p, llen - Off(p))
        BY <2>4, <3>4
      <3>6. segs \in Seq([1..SGL_SEGSIZE -> Slots])
        BY <1>1 DEF TypeOK
      <3>7. \A i \in 1..SGL_SEGSIZE : segs[1][i] \in Slots
        <4>1. 1 \in 1..Len(segs)
          BY <3>5
        <4>2. segs[1] \in [1..SGL_SEGSIZE -> Slots]
          BY <3>6, <4>1, ElementOfSeq
        <4> QED
          BY <4>2
      <3> DEFINE n == llen - Off(p)
      <3> HIDE DEF s, n
      <3>8. SegmentStr(segs[1]) = [j \in 1..(Off(p) + n) |-> s + j]
        BY <2>6, <3>3, <3>4, <3>5, <3>7, SegmentHolds DEF n
      <3>9. SglStr = [j \in 1..llen |-> s + j]
        BY <3>3, <3>5, <3>6, <3>8, SglType DEF n
      <3> QED
        BY <2>9, <3>1, <3>9 DEF line
    <2>11. ShortLinesIntact'
      <3> SUFFICES ASSUME NEW k \in 1..(m + 1), FitsSegment(Len(Line(file, k)))
                   PROVE  lines'[k] = [buf |-> Line(file, k), len |-> Len(Line(file, k))]
        BY <1>2, <2>5 DEF ShortLinesIntact, Intact
      <3>1. CASE k = m + 1
        BY <2>5, <2>10, <3>1
      <3>2. CASE k # m + 1
        <4>1. k \in 1..m
          BY <2>5, <3>2
        <4>2. lines[k] = [buf |-> Line(file, k), len |-> Len(Line(file, k))]
          BY <4>1 DEF LineIInv, ShortLinesIntact, Intact, m
        <4> QED
          BY <2>5, <4>1, <4>2
      <3> QED
        BY <3>1, <3>2
    <2>12. Begins(file, Len(lines), pos, pos)'
      <3>1. Begins(file, m + 1, pos, pos)
        BY <1>1, <2>7 DEF Begins
      <3> QED
        BY <1>2, <2>5, <3>1
    <2>13. ~ lbuf'.eof
      BY <1>1, <2>1 DEF TypeOK
    <2> QED
      BY <1>4, <2>11, <2>12, <2>13 DEF LineIInv
  <1> QED
    BY <1>3, <1>4

\* The invariant under which short lines stay intact: where the line that is
\* being read begins, and which slots hold it.
THEOREM LineInvariance == Spec => []LineIInv
  <1>1. LineIInv /\ [Next]_vars => LineIInv'
    <2> SUFFICES ASSUME LineIInv, [Next]_vars PROVE LineIInv'
      OBVIOUS
    <2>1. TypeOK'
      BY TypeStep DEF LineIInv
    <2>2. CASE Call
      BY <2>1, <2>2, CallStep
    <2>3. CASE EndOfFile
      BY <2>1, <2>3, EndStep
    <2>4. CASE ReadPage
      BY <2>1, <2>4, ReadStep
    <2>5. CASE Build
      BY <2>1, <2>5, BuildStep
    <2>6. CASE UNCHANGED vars
      <3>1. /\ file' = file /\ pos' = pos /\ pc' = pc /\ segs' = segs /\ llen' = llen
            /\ lbuf' = lbuf /\ lines' = lines
        BY <2>6 DEF vars
      <3>2. PagesFull => PagesFull'
        BY <3>1 DEF PagesFull
      <3>3. LineRead => LineRead'
        BY <3>1 DEF LineRead
      <3>4. ShortLinesIntact'
        BY <3>1 DEF LineIInv, ShortLinesIntact, Intact
      <3> QED
        BY <2>1, <3>1, <3>2, <3>3, <3>4 DEF LineIInv
    <2> QED
      BY <2>2, <2>3, <2>4, <2>5, <2>6 DEF Next, Step
  <1> QED
    BY <1>1, LineInit, PTL DEF Spec

\* A line that fits in one segment of the list reaches the caller of
\* sgl_fgetline as it stands in the file, for every file, page size and segment
\* size, whichever lines were read before it.
THEOREM ShortLinesArrive == Spec => []ShortLinesIntact
  <1>1. LineIInv => ShortLinesIntact
    BY DEF LineIInv
  <1> QED
    BY <1>1, LineInvariance, PTL
==============================================================================
