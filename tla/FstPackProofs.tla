---------------------------- MODULE FstPackProofs ----------------------------
(****************************************************************************)
(* What packing does to a transducer, for every alphabet and every set of   *)
(* strings and keys: how the block is laid out, and what it answers.        *)
(****************************************************************************)
EXTENDS FstPackHist, FstHistProofs

\* The inductive invariant of the layout.  The block is read by numbers that
\* fst_pack took from the transducer, which no later step changes, ...
Sizes ==
    /\ fst.len \in Nat
    /\ trans \in [0..fst.len -> Seq(Transitions)]

\* ... and calls come before packing or after it.
Phases ==
    /\ phase \in {"build", "header", "states", "trans", "packed", "aborted"}
    /\ phase = "build" => pc \in {"idle", "add"}
    /\ phase = "packed" => pc \in {"idle", "lookup", "fault"}
    /\ phase \notin {"build", "packed"} => pc = "idle"
    /\ phase # "packed" => call.op = "add" \/ ret = Pending

Arrays == HeadCells + fst.len

\* The headers are in place, and the arrays of the first k states behind them,
\* one after the other.
HeaderOf(s) == cells[HeadCells + s]

BlockEnd == dst.ptr \in Nat /\ dst.ptr >= Arrays /\ DOMAIN cells = 0..dst.ptr - 1

Headers ==
    /\ cells[0] = [len |-> fst.len, size |-> fst.len]
    /\ \A s \in 0..fst.len - 1 :
          HeaderOf(s) = [transv |-> HeaderOf(s).transv, ntrans |-> Ntrans(s)]

ArrayAt(s) ==
    LET v == HeaderOf(s).transv
    IN  /\ v \in Nat /\ v >= Arrays /\ v + Ntrans(s) <= dst.ptr
        /\ \A i \in 1..Ntrans(s) : cells[v + i - 1] = trans[s][i]

InOrder(k) ==
    \A s, t \in 0..k - 1 :
        s < t => HeaderOf(s).transv + Ntrans(s) <= HeaderOf(t).transv

PackedUpTo(k) ==
    /\ k \in 0..fst.len
    /\ BlockEnd /\ Headers
    /\ \A s \in 0..k - 1 : ArrayAt(s)
    /\ InOrder(k)

Layout ==
    /\ phase = "states" =>
          /\ dst = [ptr |-> HeadCells, state |-> 0]
          /\ cells = [i \in 0..HeadCells - 1 |-> [len |-> fst.len, size |-> fst.len]]
    /\ phase = "trans" => PackedUpTo(dst.state)
    /\ phase = "packed" => PackedUpTo(fst.len)

PackIInv ==
    /\ Sizes
    /\ Phases
    /\ pc # "fault" => IInv
    /\ Layout

-----------------------------------------------------------------------------
\* The inductive invariant of the answers.  The last state is the one for the
\* string that made it, or for what has been read of it.
LastState ==
    \/ word[fst.len] = last
    \/ pc = "add" /\ at.state = fst.len /\ call.str = last

\* The process dies in the block only on the state that was lost.
FaultAtLast == pc = "fault" => Begins(last, call.str)

PackHInv ==
    /\ pc # "fault" => HInv
    /\ LastState
    /\ FaultAtLast
    /\ book = Contents
    /\ PackedAnswers

\* Reading the block back gives the transducer, but for its last state.
LEMMA ReadBack ==
    ASSUME Sizes, PackedUpTo(fst.len)
    PROVE  /\ Header.len = fst.len
           /\ DOMAIN PackedTrans = 0..fst.len - 1
           /\ \A s \in 0..fst.len - 1 : PackedTrans[s] = trans[s]
  <1>1. Header.len = fst.len
    BY DEF Header, PackedUpTo, Headers
  <1>2. DOMAIN PackedTrans = 0..fst.len - 1
    BY <1>1 DEF PackedTrans
  <1>3. ASSUME NEW s \in 0..fst.len - 1 PROVE PackedTrans[s] = trans[s]
    <2> DEFINE v == HeaderOf(s).transv
    <2>1. HeaderOf(s).ntrans = Ntrans(s)
      BY DEF PackedUpTo, Headers
    <2>2. \A i \in 1..Ntrans(s) : cells[v + i - 1] = trans[s][i]
      BY DEF PackedUpTo, ArrayAt
    <2>3. PackedTrans[s] = [i \in 1..Ntrans(s) |-> cells[v + i - 1]]
      BY <1>1, <2>1 DEF PackedTrans, HeaderOf
    <2>4. trans[s] \in Seq(Transitions)
      BY DEF Sizes
    <2>5. trans[s] = [i \in 1..Ntrans(s) |-> trans[s][i]]
      BY <2>4 DEF Ntrans
    <2> HIDE DEF v
    <2> QED
      BY <2>2, <2>3, <2>5
  <1> QED
    BY <1>1, <1>2, <1>3

\* On a state that was copied, a turn of fst_lookup in the block sees what it
\* would see in the transducer.
LEMMA SameTurn ==
    ASSUME Sizes, PackedUpTo(fst.len), at.state \in DOMAIN PackedTrans
    PROVE  /\ P!Chr = Chr /\ P!Enext = Enext
           /\ PackedTrans[at.state] = trans[at.state]
           /\ P!IsFinalState(at.state) <=> IsFinalState(at.state)
           /\ P!AtPrefixTest <=> AtPrefixTest
           /\ P!PastPrefixTest <=> PastPrefixTest
  <1>1. Header.len = fst.len /\ PackedTrans[at.state] = trans[at.state]
    BY ReadBack
  <1>2. P!Chr = Chr
    BY DEF P!Chr, Chr
  <1>3. P!Enext = Enext
    BY <1>1, <1>2
       DEF P!Enext, Enext, P!FstRuleLookup, FstRuleLookup, P!OutOfRange, OutOfRange,
           P!UNDEF, UNDEF
  <1>4. P!IsFinalState(at.state) <=> IsFinalState(at.state)
    BY <1>1 DEF P!IsFinalState, IsFinalState
  <1>5. P!AtPrefixTest <=> AtPrefixTest
    BY <1>2, <1>3 DEF P!AtPrefixTest, AtPrefixTest
  <1>6. P!PastPrefixTest <=> PastPrefixTest
    BY <1>1, <1>4, <1>5 DEF P!PastPrefixTest, PastPrefixTest
  <1> QED
    BY <1>1, <1>2, <1>3, <1>4, <1>5, <1>6

\* Calls and answers are those of Fst in the packed block too.
LEMMA SameAnswers ==
    /\ \A err, val : P!Return(err, val) <=> Return(err, val)
    /\ \A s : P!Goto(s) <=> Goto(s)
    /\ \A c : (P!Invoke(c) /\ UNCHANGED <<fst, trans>>) => Invoke(c)
  BY DEF P!Return, Return, P!Answer, Answer, P!Start, Start, P!Goto, Goto,
         P!Invoke, Invoke, P!Pending, Pending, P!UNDEF, UNDEF

\* And so it takes the same step.
LEMMA SameStep ==
    ASSUME Sizes, PackedUpTo(fst.len), PackedLookup
    PROVE  LookupFinal \/ LookupEnd \/ LookupMiss \/ LookupFollow
  <1>1. /\ at.state \in DOMAIN PackedTrans /\ UNCHANGED <<fst, trans>>
        /\ P!LookupFinal \/ P!LookupEnd \/ P!LookupMiss \/ P!LookupFollow
    BY DEF PackedLookup
  <1>2. CASE P!LookupFinal
    BY <1>1, <1>2, SameTurn, SameAnswers DEF P!LookupFinal, LookupFinal
  <1>3. CASE P!LookupEnd
    BY <1>1, <1>3, SameTurn, SameAnswers DEF P!LookupEnd, LookupEnd
  <1>4. CASE P!LookupMiss
    BY <1>1, <1>4, SameTurn, SameAnswers, Zenon
       DEF P!LookupMiss, LookupMiss, P!UNDEF, UNDEF
  <1>5. CASE P!LookupFollow
    BY <1>1, <1>5, SameTurn, SameAnswers DEF P!LookupFollow, LookupFollow
  <1> QED
    BY <1>1, <1>2, <1>3, <1>4, <1>5

-----------------------------------------------------------------------------
\* The block of fst_copy_and_pack, step by step: the headers, ...
LEMMA StatesLaidOut ==
    ASSUME Sizes, phase = "states", Layout, PackStates
    PROVE  PackedUpTo(dst.state)'
  <1>1. /\ dst = [ptr |-> HeadCells, state |-> 0]
        /\ cells = [i \in 0..HeadCells - 1 |-> [len |-> fst.len, size |-> fst.len]]
        /\ fst.len \in Nat
    BY DEF Layout, Sizes
  <1>2. dst' = [ptr |-> HeadCells + fst.len, state |-> 0]
        /\ UNCHANGED <<fst, trans>>
    BY <1>1 DEF PackStates
  <1>3. cells' = [i \in 0..HeadCells + fst.len - 1 |->
                    IF i < HeadCells THEN cells[i]
                    ELSE [transv |-> SRC, ntrans |-> Ntrans(i - HeadCells)]]
    BY DEF PackStates
  <1>4. BlockEnd'
    BY <1>1, <1>2, <1>3 DEF BlockEnd, Arrays, HeadCells
  <1>5. Headers'
    <2>1. cells'[0] = [len |-> fst.len, size |-> fst.len]
      BY <1>1, <1>3 DEF HeadCells
    <2>2. ASSUME NEW s \in 0..fst.len - 1
          PROVE  cells'[HeadCells + s] = [transv |-> SRC, ntrans |-> Len(trans[s])]
      <3> DEFINE j == HeadCells + s
      <3>1. j \in 0..HeadCells + fst.len - 1 /\ ~(j < HeadCells) /\ j - HeadCells = s
        BY <1>1 DEF HeadCells
      <3> HIDE DEF j
      <3>2. cells'[j] = [transv |-> SRC, ntrans |-> Ntrans(j - HeadCells)]
        BY <1>3, <3>1
      <3> QED
        BY <3>1, <3>2 DEF Ntrans, j
    <2>3. \A s \in 0..fst.len - 1 :
             cells'[HeadCells + s] = [transv |-> cells'[HeadCells + s].transv,
                                      ntrans |-> Len(trans[s])]
      <3> TAKE s \in 0..fst.len - 1
      <3>1. cells'[HeadCells + s] = [transv |-> SRC, ntrans |-> Len(trans[s])]
        BY <2>2
      <3>2. cells'[HeadCells + s].transv = SRC
        BY <3>1
      <3> QED
        BY <3>1, <3>2
    <2>4. fst' = fst /\ trans' = trans
      BY <1>2
    <2> QED
      BY <2>1, <2>3, <2>4 DEF Headers, HeaderOf, Ntrans
  <1>6. 0..dst'.state - 1 = {}
    BY <1>2
  <1>7. dst'.state \in 0..fst'.len
    BY <1>1, <1>2
  <1> QED
    BY <1>4, <1>5, <1>6, <1>7 DEF PackedUpTo, InOrder

\* ... and the array of the next state behind those of the others.
LEMMA TransLaidOut ==
    ASSUME Sizes, PackedUpTo(dst.state), PackTrans
    PROVE  PackedUpTo(dst.state)'
  <1> DEFINE k == dst.state
             p == dst.ptr
             n == Ntrans(k)
  <1>1. /\ fst.len \in Nat /\ k \in 0..fst.len - 1 /\ p \in Nat
        /\ p >= HeadCells + fst.len /\ DOMAIN cells = 0..p - 1
        /\ n \in Nat
    <2>1. fst.len \in Nat /\ k \in 0..fst.len - 1
      BY DEF Sizes, PackedUpTo, PackTrans
    <2>2. trans[k] \in Seq(Transitions)
      BY <2>1 DEF Sizes
    <2> QED
      BY <2>1, <2>2 DEF PackedUpTo, BlockEnd, Arrays, Ntrans
  <1>2. /\ UNCHANGED <<fst, trans>>
        /\ dst'.ptr = p + n /\ dst'.state = k + 1
        /\ cells' = [i \in 0..p + n - 1 |->
                        IF i = HeadCells + k
                        THEN [cells[i] EXCEPT !.transv = p]
                        ELSE IF i < p THEN cells[i]
                        ELSE trans[k][i - p + 1]]
    BY DEF PackTrans
  <1> HIDE DEF p, n, k
  <1>3. \A i \in 0..p - 1 : i # HeadCells + k => cells'[i] = cells[i]
    BY <1>1, <1>2
  <1>4. \A i \in 1..n : cells'[p + i - 1] = trans[k][i]
    <2> TAKE i \in 1..n
    <2> DEFINE j == p + i - 1
    <2>1. /\ j \in 0..p + n - 1 /\ j # HeadCells + k /\ ~(j < p)
          /\ j - p + 1 = i
      BY <1>1 DEF HeadCells
    <2> HIDE DEF j
    <2>2. cells'[j] = trans[k][i]
      BY <1>2, <2>1
    <2> QED
      BY <2>2 DEF j
  <1>5. cells'[HeadCells + k] = [transv |-> p, ntrans |-> n]
    <2>1. cells[HeadCells + k] = [transv |-> HeaderOf(k).transv, ntrans |-> n]
      BY <1>1 DEF PackedUpTo, Headers, HeaderOf, n
    <2>2. HeadCells + k \in 0..p + n - 1
      BY <1>1 DEF HeadCells
    <2>3. cells'[HeadCells + k] = [cells[HeadCells + k] EXCEPT !.transv = p]
      BY <1>2, <2>2
    <2> QED
      BY <2>1, <2>3
  <1>6. \A s \in 0..fst.len - 1 : s # k => cells'[HeadCells + s] = cells[HeadCells + s]
    <2> SUFFICES ASSUME NEW s \in 0..fst.len - 1, s # k
                 PROVE  cells'[HeadCells + s] = cells[HeadCells + s]
      OBVIOUS
    <2>1. HeadCells + s \in 0..p - 1 /\ HeadCells + s # HeadCells + k
      BY <1>1 DEF HeadCells
    <2> QED
      BY <1>3, <2>1
  <1>7. BlockEnd'
    <2>1. DOMAIN cells' = 0..dst'.ptr - 1
      <3>1. DOMAIN cells' = 0..p + n - 1
        BY DEF PackTrans, p, n, k
      <3>2. p + n - 1 = dst'.ptr - 1
        BY <1>1, <1>2
      <3> QED
        BY <3>1, <3>2, Zenon
    <2>2. dst'.ptr \in Nat /\ dst'.ptr >= HeadCells + fst'.len
      BY <1>1, <1>2 DEF HeadCells
    <2> QED
      BY <2>1, <2>2 DEF BlockEnd, Arrays
  <1>8. Headers'
    <2>1. cells'[0] = [len |-> fst.len, size |-> fst.len]
      <3>1. 0 \in 0..p - 1 /\ 0 # HeadCells + k
        BY <1>1 DEF HeadCells
      <3>2. cells[0] = [len |-> fst.len, size |-> fst.len]
        BY DEF PackedUpTo, Headers
      <3> QED
        BY <1>3, <3>1, <3>2
    <2>2. ASSUME NEW s \in 0..fst.len - 1
          PROVE  cells'[HeadCells + s] =
                    [transv |-> cells'[HeadCells + s].transv, ntrans |-> Ntrans(s)]
      <3>1. CASE s = k
        BY <1>5, <3>1 DEF n
      <3>2. CASE s # k
        <4>1. cells[HeadCells + s] =
                  [transv |-> cells[HeadCells + s].transv, ntrans |-> Ntrans(s)]
          BY DEF PackedUpTo, Headers, HeaderOf
        <4> QED
          BY <1>6, <3>2, <4>1
      <3> QED
        BY <3>1, <3>2
    <2>3. fst' = fst /\ trans' = trans
      BY <1>2
    <2> QED
      BY <2>1, <2>2, <2>3 DEF Headers, HeaderOf, Ntrans
  <1>9. ASSUME NEW s \in 0..k PROVE ArrayAt(s)'
    <2>1. CASE s = k
      <3>1. cells'[HeadCells + s].transv = p
        BY <1>5, <2>1
      <3>2. \A i \in 1..Len(trans[s]) : cells'[p + i - 1] = trans[s][i]
        BY <1>4, <2>1 DEF n, Ntrans
      <3>3. p \in Nat /\ p >= HeadCells + fst.len /\ p + Len(trans[s]) <= p + n
        BY <1>1, <2>1 DEF n, Ntrans
      <3> QED
        BY <1>2, <3>1, <3>2, <3>3 DEF ArrayAt, HeaderOf, Arrays, Ntrans
    <2>2. CASE s # k
      <3> DEFINE v == HeaderOf(s).transv
      <3>1. s \in 0..k - 1 /\ s \in 0..fst.len - 1
        BY <1>1, <2>2
      <3>2. /\ v \in Nat /\ v >= HeadCells + fst.len /\ v + Ntrans(s) <= p
            /\ \A i \in 1..Ntrans(s) : cells[v + i - 1] = trans[s][i]
        BY <3>1 DEF PackedUpTo, ArrayAt, Arrays, k, p
      <3>3. cells'[HeadCells + s].transv = v
        BY <1>6, <2>2, <3>1 DEF HeaderOf
      <3>4. Ntrans(s) \in Nat
        BY <3>1 DEF Sizes, Ntrans
      <3> HIDE DEF v
      <3>5. \A i \in 1..Ntrans(s) : cells'[v + i - 1] = trans[s][i]
        <4> TAKE i \in 1..Ntrans(s)
        <4>1. v + i - 1 \in 0..p - 1 /\ v + i - 1 # HeadCells + k
          BY <1>1, <3>2, <3>4 DEF HeadCells
        <4> QED
          BY <1>3, <3>2, <4>1
      <3>6. v + Ntrans(s) <= p + n
        BY <1>1, <3>2, <3>4
      <3> QED
        BY <1>2, <3>2, <3>3, <3>5, <3>6 DEF ArrayAt, HeaderOf, Arrays, Ntrans
    <2> QED
      BY <2>1, <2>2
  <1>10. ASSUME NEW s \in 0..k, NEW t \in 0..k, s < t
         PROVE  cells'[HeadCells + s].transv + Ntrans(s) <= cells'[HeadCells + t].transv
    <2>1. s \in 0..k - 1 /\ s \in 0..fst.len - 1 /\ s # k
      BY <1>1, <1>10
    <2>2. cells'[HeadCells + s] = cells[HeadCells + s]
      BY <1>6, <2>1
    <2>3. CASE t = k
      BY <1>5, <2>1, <2>2, <2>3 DEF PackedUpTo, ArrayAt, HeaderOf, k, p
    <2>4. CASE t # k
      <3>1. t \in 0..k - 1 /\ t \in 0..fst.len - 1
        BY <1>1, <2>4
      <3>2. cells'[HeadCells + t] = cells[HeadCells + t]
        BY <1>6, <2>4, <3>1
      <3> QED
        BY <1>10, <2>1, <2>2, <3>1, <3>2 DEF PackedUpTo, InOrder, HeaderOf, k
    <2> QED
      BY <2>3, <2>4
  <1>11. dst'.state - 1 = k /\ dst'.state \in 0..fst'.len
    <2>1. k \in Nat /\ k + 1 - 1 = k /\ k + 1 \in 0..fst.len
      BY <1>1
    <2>2. fst' = fst
      BY <1>2
    <2> QED
      BY <1>2, <2>1, <2>2
  <1>12. InOrder(dst.state)'
    BY <1>2, <1>10, <1>11 DEF InOrder, HeaderOf, Ntrans
  <1> QED
    BY <1>7, <1>8, <1>9, <1>11, <1>12 DEF PackedUpTo

-----------------------------------------------------------------------------
\* A transducer that is well formed has the sizes that fst_pack relies on.
LEMMA IInvSizes == IInv => Sizes
  BY DEF IInv, TypeOK, VecHeader, Sizes

\* Nothing is packed at first.
LEMMA PackInit == PInit => PackIInv
  <1> SUFFICES ASSUME PInit PROVE PackIInv
    OBVIOUS
  <1>1. IInv
    BY InitInv DEF PInit
  <1> QED
    BY <1>1, IInvSizes DEF PInit, Init, Pending, Phases, Layout, PackIInv

\* While strings are added, the transducer takes its own steps.
LEMMA BuildIInv ==
    ASSUME PackIInv, Build
    PROVE  PackIInv' /\ Next /\ (pc' # "idle" \/ call.op = "add")
  <1>1. phase = "build" /\ UNCHANGED packing /\ pc \in {"idle", "add"} /\ IInv
    BY DEF Build, BuildStep, BuildCall, PackIInv, Phases
  <1>2. Next
    BY DEF Build, BuildStep, BuildCall, Next, Step
  <1>3. IInv'
    BY <1>1, <1>2, StepInv
  <1>4. /\ pc' \in {"idle", "add"}
        /\ call'.op = "add" \/ ret' = Pending
        /\ pc' # "idle" \/ call.op = "add"
    <2>1. CASE BuildStep
      <3>1. pc = "add" /\ pc' \in {"idle", "add"} /\ call' = call
        BY <2>1 DEF BuildStep, AddFail, AddFollow, AddFinal, AddNewState, Return, Goto
      <3> QED
        BY <1>1, <3>1 DEF IInv, Serving
    <2>2. CASE \E c \in Calls : c.op = "add" /\ BuildCall(c)
      BY <2>2 DEF BuildCall, Invoke
    <2> QED
      BY <2>1, <2>2 DEF Build
  <1>5. phase' = "build"
    BY <1>1 DEF packing
  <1>6. Sizes'
    BY <1>3 DEF IInv, TypeOK, VecHeader, Sizes
  <1>7. Phases' /\ Layout'
    BY <1>4, <1>5 DEF Phases, Layout
  <1> QED
    BY <1>2, <1>3, <1>4, <1>6, <1>7 DEF PackIInv

\* Packing reads the transducer and leaves it alone.
LEMMA PackStepIInv ==
    ASSUME PackIInv, Pack
    PROVE  PackIInv' /\ pc = "idle" /\ UNCHANGED <<fst, trans, pc, call, at, ret, book, last>>
  <1>1. pc = "idle" /\ UNCHANGED <<fst, trans, pc, call, at, ret, book, last>>
    BY DEF Pack, Allocate, PackHeader, PackStates, PackTrans, Packed, PackIInv, Phases
  <1>2. IInv'
    BY <1>1, StepInv DEF vars, PackIInv
  <1>3. Sizes'
    BY <1>1, <1>2 DEF PackIInv, Sizes
  <1>4. phase # "packed" /\ (call.op = "add" \/ ret = Pending)
    BY DEF Pack, Allocate, PackHeader, PackStates, PackTrans, Packed, PackIInv, Phases
  <1>5. phase' \in {"header", "states", "trans", "packed", "aborted"}
    BY DEF Pack, Allocate, PackHeader, PackStates, PackTrans, Packed
  <1>6. Phases'
    BY <1>1, <1>4, <1>5 DEF Phases
  <1>7. Layout'
    <2>1. CASE Allocate
      BY <2>1 DEF Allocate, Layout
    <2>2. CASE PackHeader
      BY <2>2 DEF PackHeader, Layout
    <2>3. CASE PackStates
      <3>1. phase = "states" /\ phase' = "trans"
        BY <2>3 DEF PackStates
      <3>2. PackedUpTo(dst.state)'
        BY <2>3, <3>1, StatesLaidOut DEF PackIInv
      <3> QED
        BY <3>1, <3>2 DEF Layout
    <2>4. CASE PackTrans
      <3>1. phase = "trans" /\ phase' = "trans"
        BY <2>4 DEF PackTrans
      <3>2. PackedUpTo(dst.state)'
        BY <2>4, <3>1, TransLaidOut DEF PackIInv, Layout
      <3> QED
        BY <3>1, <3>2 DEF Layout
    <2>5. CASE Packed
      <3>1. /\ phase = "trans" /\ dst.state >= fst.len
            /\ UNCHANGED <<fst, trans, cells, dst>>
            /\ phase' \in {"packed", "aborted"}
        BY <2>5 DEF Packed
      <3>2. PackedUpTo(dst.state) /\ fst.len \in Nat
        BY <3>1 DEF PackIInv, Layout, Sizes
      <3>3. dst.state = fst.len
        BY <3>1, <3>2 DEF PackedUpTo
      <3>4. PackedUpTo(fst.len)
        BY <3>2, <3>3
      <3>5. PackedUpTo(fst.len)'
        BY <3>1, <3>4
           DEF PackedUpTo, BlockEnd, Arrays, Headers, HeaderOf, ArrayAt, InOrder, Ntrans
      <3> QED
        BY <3>1, <3>5 DEF Layout
    <2> QED
      BY <2>1, <2>2, <2>3, <2>4, <2>5 DEF Pack
  <1> QED
    BY <1>1, <1>2, <1>3, <1>6, <1>7 DEF PackIInv

\* Once packed, nothing but the cursor and the answer changes.
LEMMA QueryIInv ==
    ASSUME PackIInv, Query \/ PackedStep
    PROVE  /\ UNCHANGED <<fst, trans, packing, book, last>>
           /\ phase = "packed" /\ PackedUpTo(fst.len) /\ Sizes
           /\ PackIInv'
  <1>1. UNCHANGED <<fst, trans, packing, book, last>> /\ phase = "packed"
    BY DEF Query, QueryCall, PackedStep, PackedFault, PackedAstray, PackedLookup
  <1>2. PackedUpTo(fst.len) /\ Sizes
    BY <1>1 DEF PackIInv, Layout
  <1>3. pc # "fault" /\ IInv
    BY DEF Query, QueryCall, PackedStep, PackedFault, PackedAstray, PackedLookup, PackIInv
  <1>4. Layout'
    BY <1>1, <1>2
       DEF packing, Layout, PackedUpTo, BlockEnd, Arrays, Headers, HeaderOf, ArrayAt,
           InOrder, Ntrans
  <1>5. Sizes'
    BY <1>1, <1>2 DEF Sizes
  <1>6. pc' \in {"idle", "lookup", "fault"} /\ (pc' # "fault" => IInv')
    <2>1. CASE Query
      <3>1. PICK c \in Calls : c.op # "add" /\ QueryCall(c)
        BY <2>1 DEF Query
      <3>2. Invoke(c)
        BY <3>1, SameAnswers DEF QueryCall
      <3> QED
        BY <1>3, <3>1, <3>2, InvokeInv DEF Invoke
    <2>2. CASE PackedFault
      BY <2>2 DEF PackedFault
    <2>3. CASE PackedAstray
      <3>1. pc = "lookup" /\ Return("ENOENT", UNDEF)
        BY <2>3 DEF PackedAstray
      <3>2. call.op # "add"
        BY <1>3, <3>1 DEF IInv, Serving
      <3> QED
        BY <1>1, <1>3, <3>1, <3>2, Returning DEF Return
    <2>4. CASE PackedLookup
      <3>1. LookupFinal \/ LookupEnd \/ LookupMiss \/ LookupFollow
        BY <1>2, <2>4, SameStep
      <3>2. Next
        BY <3>1 DEF Next, Step
      <3>3. pc' \in {"idle", "lookup"}
        BY <3>1 DEF LookupFinal, LookupEnd, LookupMiss, LookupFollow, AtPrefixTest,
                    PastPrefixTest, Return, Goto
      <3> QED
        BY <1>3, <3>2, <3>3, StepInv
    <2> QED
      BY <2>1, <2>2, <2>3, <2>4 DEF PackedStep
  <1>7. Phases'
    BY <1>1, <1>6 DEF Phases, packing
  <1> QED
    BY <1>1, <1>2, <1>4, <1>5, <1>6, <1>7 DEF PackIInv

\* Every step keeps the invariant of the layout.
LEMMA PackNextIInv == PackIInv /\ [PNext]_pvars => PackIInv'
  <1> SUFFICES ASSUME PackIInv, [PNext]_pvars PROVE PackIInv'
    OBVIOUS
  <1>1. CASE UNCHANGED pvars
    <2>1. UNCHANGED vars
      BY <1>1 DEF pvars, vars
    <2>2. pc' # "fault" => IInv'
      BY <2>1, StepInv DEF PackIInv, vars
    <2>3. Sizes' /\ Phases'
      BY <1>1 DEF pvars, PackIInv, Sizes, Phases
    <2>4. Layout'
      BY <1>1
         DEF pvars, PackIInv, Layout, PackedUpTo, BlockEnd, Arrays, Headers, HeaderOf,
             ArrayAt, InOrder, Ntrans
    <2> QED
      BY <2>2, <2>3, <2>4 DEF PackIInv
  <1>2. CASE PNext
    BY <1>2, BuildIInv, PackStepIInv, QueryIInv DEF PNext
  <1> QED
    BY <1>1, <1>2

\* The inductive invariant of the layout holds throughout.
THEOREM PackInvariance == PSpec => []PackIInv
  BY PackInit, PackNextIInv, PTL DEF PSpec

\* A header that was copied counts the transitions of its state.
LEMMA HeaderCounts ==
    ASSUME PackedUpTo(fst.len), NEW s \in 0..fst.len - 1
    PROVE  cells[HeadCells + s].ntrans = Ntrans(s)
  <1>1. HeaderOf(s) = [transv |-> HeaderOf(s).transv, ntrans |-> Ntrans(s)]
    BY DEF PackedUpTo, Headers
  <1> DEFINE h == cells[HeadCells + s]
  <1>2. h = [transv |-> h.transv, ntrans |-> Ntrans(s)]
    BY <1>1 DEF HeaderOf
  <1> HIDE DEF h
  <1>3. h.ntrans = Ntrans(s)
    BY <1>2
  <1> QED
    BY <1>3 DEF h

\* Every header of the packed block points to transitions behind the headers,
\* and no two of the arrays overlap, however many states and transitions
\* fst_pack copied.
THEOREM ArraysApart == PSpec => []BlockLayout
  <1>1. PackIInv => BlockLayout
    <2> SUFFICES ASSUME PackIInv, phase = "packed" PROVE BlockLayout
      BY DEF BlockLayout
    <2> DEFINE v(s) == cells[HeadCells + s].transv
               n(s) == cells[HeadCells + s].ntrans
    <2>1. PackedUpTo(fst.len) /\ Sizes
      BY DEF PackIInv, Layout
    <2>2. fst.len \in Nat /\ dst.ptr \in Nat
      BY <2>1 DEF Sizes, PackedUpTo, BlockEnd
    <2>3. \A s \in 0..fst.len - 1 :
             /\ v(s) \in Nat /\ n(s) \in Nat
             /\ v(s) >= HeadCells + fst.len /\ v(s) + n(s) <= dst.ptr
      <3> SUFFICES ASSUME NEW s \in 0..fst.len - 1
                   PROVE  /\ v(s) \in Nat /\ n(s) \in Nat
                          /\ v(s) >= HeadCells + fst.len /\ v(s) + n(s) <= dst.ptr
        OBVIOUS
      <3>1. n(s) = Ntrans(s)
        BY HeaderCounts, <2>1
      <3>2. Ntrans(s) \in Nat
        BY <2>1 DEF Sizes, Ntrans
      <3>3. ArrayAt(s)
        BY <2>1 DEF PackedUpTo
      <3> QED
        BY <3>1, <3>2, <3>3 DEF ArrayAt, HeaderOf, Arrays
    <2>4. \A s, t \in 0..fst.len - 1 : s < t => v(s) + n(s) <= v(t)
      <3> SUFFICES ASSUME NEW s \in 0..fst.len - 1, NEW t \in 0..fst.len - 1, s < t
                   PROVE  v(s) + n(s) <= v(t)
        OBVIOUS
      <3>1. n(s) = Ntrans(s)
        BY HeaderCounts, <2>1
      <3> QED
        BY <2>1, <3>1 DEF PackedUpTo, InOrder, HeaderOf
    <2>5. HeadCells \in Nat
      BY DEF HeadCells
    <2> HIDE DEF v, n
    <2>6. \A s \in 0..fst.len - 1 :
             v(s)..v(s) + n(s) - 1 \subseteq (HeadCells + fst.len)..dst.ptr - 1
      BY <2>2, <2>3, <2>5
    <2>7. \A s, t \in 0..fst.len - 1 :
             s < t => (v(s)..v(s) + n(s) - 1) \cap (v(t)..v(t) + n(t) - 1) = {}
      BY <2>2, <2>3, <2>4
    <2>8. \A s, t \in 0..fst.len - 1 :
             s # t => (v(s)..v(s) + n(s) - 1) \cap (v(t)..v(t) + n(t) - 1) = {}
      <3> SUFFICES ASSUME NEW s \in 0..fst.len - 1, NEW t \in 0..fst.len - 1, s # t
                   PROVE  (v(s)..v(s) + n(s) - 1) \cap (v(t)..v(t) + n(t) - 1) = {}
        OBVIOUS
      <3>1. s < t \/ t < s
        BY <2>2
      <3> QED
        BY <2>7, <3>1
    <2> QED
      BY <2>6, <2>8 DEF BlockLayout, v, n
  <1> QED
    BY <1>1, PackInvariance, PTL

-----------------------------------------------------------------------------
\* What the block answers is what the transducer would have answered, unless
\* the key begins with the string of the state that was lost.

\* Nothing is stored at first, and state 0 is the last.
LEMMA PackHInit == PHInit => PackHInv
  <1> SUFFICES ASSUME PHInit PROVE PackHInv
    OBVIOUS
  <1>1. HInit
    BY DEF PHInit, PInit, HInit
  <1>2. HInv /\ book = Contents
    BY <1>1, HInitInv, EmptyContents DEF PHInit, PInit
  <1>3. LastState
    <2>1. fst.len = 0
      BY <1>1 DEF HInit, Init, VecMakeRoom, VecAlloc, VecEmpty
    <2> QED
      BY <1>2, <2>1 DEF HInv, Words, LastState, PHInit, PInit
  <1>4. FaultAtLast /\ PackedAnswers
    BY DEF PHInit, PInit, Init, FaultAtLast, PackedAnswers
  <1> QED
    BY <1>2, <1>3, <1>4 DEF PackHInv

\* A step of the transducer keeps the invariant of the words.
LEMMA WordsKept ==
    ASSUME HInv, IInv', Recorded, Next \/ UNCHANGED vars
    PROVE  HInv'
  <1>1. CASE Next
    BY <1>1, HStepInv DEF HNext
  <1>2. CASE UNCHANGED vars
    <2>1. UNCHANGED word
      BY <1>2, SameWords DEF vars
    <2> QED
      BY <1>2, <2>1, HStepInv DEF hvars, vars
  <1> QED
    BY <1>1, <1>2

\* An addition that makes a state makes all the rest of its string; the last
\* state is at its end when it answers.
LEMMA LastKept ==
    ASSUME PackHInv, IInv, HInv, Recorded, Build
    PROVE  LastState'
  <1>1. CASE AddFail /\ UNCHANGED <<book, last>>
    <2>1. pc = "add" /\ UNCHANGED <<fst, trans, call>>
      BY <1>1 DEF AddFail, Return
    <2>2. UNCHANGED word
      BY <2>1, SameWords
    <2>3. Chr = NUL
      BY <1>1, <2>1, Turn DEF AddFail
    <2>4. word[fst.len] = last
      BY <2>1, <2>3, AtCursor DEF PackHInv, LastState
    <2> QED
      BY <1>1, <2>1, <2>2, <2>4 DEF LastState
  <1>2. CASE AddFollow /\ UNCHANGED <<book, last>>
    <2>1. pc = "add" /\ UNCHANGED <<fst, trans, call>>
      BY <1>2 DEF AddFollow, Goto
    <2>2. UNCHANGED word
      BY <2>1, SameWords
    <2>3. Enext.nxt \in (at.state + 1)..fst.len
      BY <1>2, <2>1, Turn DEF AddFollow
    <2>4. at.state # fst.len
      BY <2>3, Shape
    <2>5. word[fst.len] = last
      BY <2>4 DEF PackHInv, LastState
    <2> QED
      BY <1>2, <2>1, <2>2, <2>5 DEF LastState
  <1>3. CASE AddFinal /\ UNCHANGED last
    <2>1. pc = "add" /\ Chr = NUL /\ UNCHANGED <<fst, word>>
      BY <1>3, AddFinalStores DEF AddFinal
    <2>2. word[fst.len] = last
      BY <2>1, AtCursor DEF PackHInv, LastState
    <2> QED
      BY <1>3, <2>1, <2>2 DEF LastState
  <1>4. CASE AddNewState /\ last' = call.str
    <2>1. /\ pc = "add" /\ UNCHANGED <<pc, call>> /\ fst'.len = fst.len + 1
          /\ at'.state = fst.len + 1
      BY <1>4, AddNewStateWords DEF AddNewState, Goto, NewState
    <2> QED
      BY <1>4, <2>1 DEF LastState
  <1>5. CASE \E c \in Calls : c.op = "add" /\ BuildCall(c)
    <2>1. pc = "idle" /\ UNCHANGED <<fst, trans, last>>
      BY <1>5 DEF BuildCall, Invoke
    <2>2. UNCHANGED word
      BY <2>1, SameWords
    <2> QED
      BY <2>1, <2>2 DEF PackHInv, LastState
  <1> QED
    BY <1>1, <1>2, <1>3, <1>4, <1>5 DEF Build, BuildStep

\* The strings added, in the order in which fst_add_string answered OK, are
\* the ones stored.
LEMMA BookKept ==
    ASSUME PackHInv, HInv, Recorded, Build
    PROVE  book' = Contents'
  <1>1. CASE AddFinal /\ book' = Extended(book, call.str, call.val)
    BY <1>1, AddFinalContents DEF PackHInv
  <1>2. CASE AddNewState /\ UNCHANGED book
    BY <1>2, AddNewStateWords DEF PackHInv
  <1>3. CASE /\ AddFail \/ AddFollow \/ (\E c \in Calls : c.op = "add" /\ BuildCall(c))
             /\ UNCHANGED book
    <2>1. UNCHANGED <<fst, trans>>
      BY <1>3 DEF AddFail, AddFollow, BuildCall, Invoke
    <2> QED
      BY <1>3, <2>1, SameWords DEF PackHInv
  <1> QED
    BY <1>1, <1>2, <1>3 DEF Build, BuildStep, BuildCall

\* What is found where, and what is not found, in terms of the strings added.
LEMMA DictAnswers ==
    ASSUME book = Contents, UNCHANGED <<book, call>>, call.op # "add",
           Dict!PrefixHit \/ Dict!WholeHit \/ Dict!Miss
    PROVE  PackedAnswers'
  <1> DEFINE leaf(w) == \A u \in DOMAIN book : Begins(w, u) => u = w
             hits == {w \in DOMAIN book :
                        \/ w = call.str
                        \/ call.op = "prefix" /\ Begins(w, call.str) /\ leaf(w)}
  <1>1. \A w : Dict!Leaf(w) <=> leaf(w)
    BY SameApi DEF Dict!Leaf
  <1>2. pc' = "idle"
    BY DEF Dict!PrefixHit, Dict!WholeHit, Dict!Miss, Dict!Return
  <1>3. IF hits = {} THEN ret'.err = "ENOENT"
        ELSE ret'.err = "OK" /\ \E w \in hits : ret'.val = book[w]
    <2>1. CASE Dict!PrefixHit
      <3>1. PICK p \in DOMAIN book :
                /\ call.op = "prefix" /\ Begins(p, call.str) /\ leaf(p)
                /\ ret' = Answer("OK", book[p])
        BY <1>1, <2>1, SameApi DEF Dict!PrefixHit, Dict!Return
      <3>2. p \in hits
        BY <3>1
      <3> HIDE DEF hits
      <3> QED
        BY <3>1, <3>2 DEF Answer
    <2>2. CASE Dict!WholeHit
      <3>1. call.str \in DOMAIN book /\ ret' = Answer("OK", book[call.str])
        BY <2>2, SameApi DEF Dict!WholeHit, Dict!Return
      <3>2. call.str \in hits
        BY <3>1
      <3> HIDE DEF hits
      <3> QED
        BY <3>1, <3>2 DEF Answer
    <2>3. CASE Dict!Miss
      <3>1. hits = {}
        BY <1>1, <2>3, SameApi DEF Dict!Miss
      <3>2. ret'.err = "ENOENT"
        BY <2>3, SameApi DEF Dict!Miss, Dict!Return, Answer
      <3> HIDE DEF hits
      <3> QED
        BY <3>1, <3>2
    <2> QED
      BY <2>1, <2>2, <2>3
  <1> QED
    BY <1>2, <1>3 DEF PackedAnswers

\* A lookup that carries on in the block has not answered yet.
LEMMA FollowSilent ==
    ASSUME HInv, LookupFollow
    PROVE  pc' = "lookup"
  <1>1. Enext.nxt # 0
    BY Turn, Shape DEF LookupFollow, PastPrefixTest, HInv
  <1> QED
    BY <1>1 DEF LookupFollow, Goto, PastPrefixTest

\* is_final_state is safe on every state that was copied.
LEMMA FaultBeyond ==
    ASSUME HInv, Sizes, PackedUpTo(fst.len), PackedFault
    PROVE  at.state = fst.len
  <1> SUFFICES ASSUME at.state # fst.len PROVE FALSE
    OBVIOUS
  <1>1. at.state \in 0..fst.len - 1 /\ at.state \in DOMAIN PackedTrans
    BY Shape, ReadBack
  <1>2. AtPrefixTest /\ trans[at.state] = <<>>
    BY <1>1, SameTurn DEF PackedFault
  <1>3. LookupFault
    BY <1>2 DEF PackedFault, LookupFault
  <1>4. IInv'
    BY <1>3, LookupFaultInv DEF HInv
  <1>5. fst.len = 0
    BY <1>4 DEF IInv, FaultOnlyWhenEmpty, PackedFault
  <1> QED
    BY <1>1, <1>5

\* Where the key begins with the string that made the last state.
LEMMA OnLastState ==
    ASSUME PackHInv, HInv, pc = "lookup", at.state = fst.len
    PROVE  Begins(last, call.str)
  BY AtCursor DEF PackHInv, LastState

\* A call in the packed block, and each turn of it, keeps the invariant of the
\* answers.
LEMMA QueryHInv ==
    ASSUME PackHInv, PackIInv, HInv, Recorded, Query \/ PackedStep
    PROVE  PackHInv'
  <1>1. /\ UNCHANGED <<fst, trans, packing, book, last>>
        /\ phase = "packed" /\ PackedUpTo(fst.len) /\ Sizes /\ PackIInv'
    BY QueryIInv
  <1>2. UNCHANGED word /\ book' = Contents'
    BY <1>1, SameWords DEF PackHInv
  <1>3. pc # "add" /\ (pc = "lookup" => call.op # "add")
    BY <1>1 DEF PackIInv, Phases, HInv, IInv, Serving
  <1>4. LastState'
    BY <1>1, <1>2, <1>3 DEF PackHInv, LastState
  <1>5. CASE Query
    <2>1. PICK c \in Calls : c.op # "add" /\ QueryCall(c)
      BY <1>5 DEF Query
    <2>2. Invoke(c)
      BY <2>1, SameAnswers DEF QueryCall
    <2>3. pc' = "lookup"
      BY <2>1, <2>2 DEF Invoke
    <2>4. HInv'
      BY <1>1, <2>2, <2>3, InvokeHInv DEF PackIInv
    <2> QED
      BY <1>2, <1>4, <2>3, <2>4 DEF PackHInv, FaultAtLast, PackedAnswers
  <1>6. CASE PackedFault
    <2>1. pc = "lookup" /\ pc' = "fault" /\ UNCHANGED call
      BY <1>6 DEF PackedFault
    <2>2. Begins(last, call.str)
      BY <1>1, <1>6, <2>1, FaultBeyond, OnLastState
    <2> QED
      BY <1>1, <1>2, <1>4, <2>1, <2>2 DEF PackHInv, FaultAtLast, PackedAnswers
  <1>7. CASE PackedAstray
    <2>1. pc = "lookup" /\ Return("ENOENT", UNDEF) /\ at.state \notin DOMAIN PackedTrans
      BY <1>7 DEF PackedAstray
    <2>2. pc' = "idle" /\ UNCHANGED call
      BY <2>1 DEF Return
    <2>3. at.state = fst.len
      BY <1>1, <2>1, ReadBack, Shape
    <2>4. Begins(last, call.str)
      BY <2>1, <2>3, OnLastState
    <2>5. HInv'
      BY <1>1, <2>1, <2>2, AnswerHInv DEF PackIInv
    <2> QED
      BY <1>1, <1>2, <1>4, <2>2, <2>4, <2>5 DEF PackHInv, FaultAtLast, PackedAnswers
  <1>8. CASE PackedLookup
    <2>1. LookupFinal \/ LookupEnd \/ LookupMiss \/ LookupFollow
      BY <1>1, <1>8, SameStep
    <2>2. pc = "lookup" /\ pc' \in {"idle", "lookup"} /\ UNCHANGED call
      BY <2>1 DEF LookupFinal, LookupEnd, LookupMiss, LookupFollow, AtPrefixTest,
                  PastPrefixTest, Return, Goto
    <2>3. HInv'
      BY <1>1, <2>1, <2>2, WordsKept DEF PackIInv, Next, Step
    <2>4. PackedAnswers'
      <3>1. CASE LookupFollow
        BY <3>1, FollowSilent DEF PackedAnswers
      <3>2. CASE LookupFinal \/ LookupEnd \/ LookupMiss
        <4>1. Dict!PrefixHit \/ Dict!WholeHit \/ Dict!Miss
          BY <3>2, LookupFinalMaps, LookupEndMaps, LookupMissMaps
        <4> QED
          BY <1>1, <1>3, <2>2, <4>1, DictAnswers DEF PackHInv
      <3> QED
        BY <2>1, <3>1, <3>2
    <2> QED
      BY <1>2, <1>4, <2>2, <2>3, <2>4 DEF PackHInv, FaultAtLast
  <1> QED
    BY <1>5, <1>6, <1>7, <1>8 DEF PackedStep

\* Every step keeps the invariant of the answers.
LEMMA PackHNext == PackHInv /\ PackIInv /\ [PHNext]_phvars => PackHInv'
  <1> SUFFICES ASSUME PackHInv, PackIInv, [PHNext]_phvars PROVE PackHInv'
    OBVIOUS
  <1>1. CASE UNCHANGED phvars
    <2>1. UNCHANGED hvars /\ UNCHANGED <<phase, book, last>>
      BY <1>1 DEF phvars, pvars, hvars
    <2>2. pc # "fault" => HInv'
      <3> SUFFICES ASSUME pc # "fault" PROVE HInv'
        OBVIOUS
      <3>1. HInv /\ IInv
        BY DEF PackHInv, HInv
      <3>2. IInv'
        BY <2>1, <3>1, StepInv DEF hvars, vars
      <3> QED
        BY <2>1, <3>1, <3>2, HStepInv
    <2>3. Contents' = Contents
      BY <2>1 DEF hvars, Contents, Stored, Final, ValueAt
    <2> QED
      BY <2>1, <2>2, <2>3 DEF hvars, PackHInv, LastState, FaultAtLast, PackedAnswers
  <1>2. CASE PNext /\ Recorded
    <2>1. pc # "fault" /\ HInv /\ IInv
      <3>1. pc # "fault"
        BY <1>2 DEF PNext, Build, BuildStep, BuildCall, Pack, Allocate, PackHeader,
               PackStates, PackTrans, Packed, Query, QueryCall, PackedStep, PackedFault,
               PackedAstray, PackedLookup, Invoke, AddFail, AddFinal, AddNewState,
               AddFollow, PackIInv, Phases
      <3> QED
        BY <3>1 DEF PackHInv, HInv
    <2>2. CASE Build
      <3>1. /\ PackIInv' /\ Next /\ phase' = "build"
        BY <2>2, BuildIInv DEF Build, BuildStep, BuildCall, packing
      <3>2. pc' # "fault"
        BY <3>1 DEF PackIInv, Phases
      <3>3. HInv'
        BY <1>2, <2>1, <3>1, <3>2, WordsKept DEF PackIInv
      <3>4. LastState' /\ book' = Contents'
        BY <1>2, <2>1, <2>2, LastKept, BookKept
      <3> QED
        BY <3>1, <3>2, <3>3, <3>4 DEF PackHInv, FaultAtLast, PackedAnswers
    <2>3. CASE Pack
      <3>1. /\ PackIInv' /\ pc = "idle" /\ UNCHANGED <<fst, trans, pc, call, at, ret, book, last>>
            /\ call.op = "add" \/ ret = Pending
        <4>1. phase # "packed"
          BY <2>3 DEF Pack, Allocate, PackHeader, PackStates, PackTrans, Packed
        <4> QED
          BY <2>3, <4>1, PackStepIInv DEF PackIInv, Phases
      <3>2. HInv'
        BY <1>2, <2>1, <3>1, WordsKept DEF PackIInv, vars
      <3>3. UNCHANGED word /\ Contents' = Contents
        BY <1>2, <2>1, <3>1, SameWords
      <3> QED
        BY <3>1, <3>2, <3>3 DEF PackHInv, LastState, FaultAtLast, PackedAnswers
    <2>4. CASE Query \/ PackedStep
      BY <1>2, <2>1, <2>4, QueryHInv
    <2> QED
      BY <1>2, <2>2, <2>3, <2>4 DEF PNext
  <1> QED
    BY <1>1, <1>2 DEF PHNext

\* The history variable only watches.
LEMMA OnlyWatchesPacking == PHSpec => PSpec
  <1>1. PHInit => PInit
    BY DEF PHInit
  <1>2. [PHNext]_phvars => [PNext]_pvars
    BY DEF PHNext, phvars, pvars
  <1> QED
    BY <1>1, <1>2, PTL DEF PHSpec, PSpec

\* The packed block answers every key as the strings added demand, and never
\* dies, but for the keys that begin with the string of the state that was
\* lost: for every alphabet, every set of strings, and in whatever order they
\* were added.
THEOREM BlockAnswers == PHSpec => []PackedAnswers
  <1>1. PHSpec => []PackIInv
    BY OnlyWatchesPacking, PackInvariance, PTL
  <1>2. PackHInv => PackedAnswers
    BY DEF PackHInv
  <1> QED
    BY <1>1, <1>2, PackHInit, PackHNext, PTL DEF PHSpec

-----------------------------------------------------------------------------
\* fst_measure's sum over the first n states, as the loop computes it: m[i] is
\* the sum when i states have been counted.
Sums(m, n) ==
    /\ m = [i \in 0..n |-> m[i]]
    /\ m[0] = 0
    /\ \A i \in 0..n - 1 : m[i + 1] = m[i] + 1 + Ntrans(i)

\* There is a function that counts the cells of the first n states.
LEMMA SumsExist == \A n \in Nat : \E m : Sums(m, n)
  <1> DEFINE S == {n \in Nat : \E m : Sums(m, n)}
  <1>1. 0 \in S
    <2> DEFINE m == [i \in 0..0 |-> 0]
    <2>1. Sums(m, 0)
      BY DEF Sums
    <2> HIDE DEF m
    <2> QED
      BY <2>1
  <1>2. ASSUME NEW n \in S PROVE n + 1 \in S
    <2>1. PICK m : Sums(m, n)
      OBVIOUS
    <2> DEFINE q == [i \in 0..n + 1 |-> IF i = n + 1 THEN m[n] + 1 + Ntrans(n) ELSE m[i]]
    <2>2. n \in Nat /\ 0 \in 0..n + 1 /\ 0 # n + 1 /\ n + 1 \in 0..n + 1
      OBVIOUS
    <2>3. q = [i \in 0..n + 1 |-> q[i]]
      OBVIOUS
    <2>4. q[n + 1] = m[n] + 1 + Ntrans(n) /\ \A i \in 0..n : q[i] = m[i]
      BY <2>2
    <2> HIDE DEF q
    <2>5. q[0] = 0
      BY <2>1, <2>2, <2>4 DEF Sums
    <2>6. ASSUME NEW i \in 0..(n + 1) - 1 PROVE q[i + 1] = q[i] + 1 + Ntrans(i)
      <3>1. i \in 0..n
        BY <2>2
      <3>2. CASE i = n
        BY <2>4, <3>1, <3>2
      <3>3. CASE i # n
        <4>1. i \in 0..n - 1 /\ i + 1 \in 0..n
          BY <2>2, <3>1, <3>3
        <4> QED
          BY <2>1, <2>4, <3>1, <4>1 DEF Sums
      <3> QED
        BY <3>2, <3>3
    <2>7. Sums(q, n + 1)
      BY <2>3, <2>5, <2>6 DEF Sums
    <2> QED
      BY <2>2, <2>7
  <1> HIDE DEF S
  <1>3. S \in SUBSET Nat
    BY DEF S
  <1>4. S = Nat
    BY <1>1, <1>2, <1>3, SetInduction
  <1> QED
    BY <1>4 DEF S

\* The sum over i states does not depend on how many are counted after them.
LEMMA SumsAgree ==
    ASSUME NEW k \in Nat, NEW n \in Nat, NEW m, NEW q, Sums(m, k), Sums(q, n)
    PROVE  \A i \in Nat : i <= k /\ i <= n => m[i] = q[i]
  <1> DEFINE S == {i \in Nat : i <= k /\ i <= n => m[i] = q[i]}
  <1>1. 0 \in S
    BY DEF Sums
  <1>2. ASSUME NEW i \in S PROVE i + 1 \in S
    <2> SUFFICES ASSUME i + 1 <= k, i + 1 <= n PROVE m[i + 1] = q[i + 1]
      OBVIOUS
    <2>1. i \in 0..k - 1 /\ i \in 0..n - 1 /\ i <= k /\ i <= n
      OBVIOUS
    <2>2. m[i] = q[i]
      BY <2>1
    <2>3. m[i + 1] = m[i] + 1 + Ntrans(i) /\ q[i + 1] = q[i] + 1 + Ntrans(i)
      BY <2>1 DEF Sums
    <2> QED
      BY <2>2, <2>3
  <1> HIDE DEF S
  <1>3. S \in SUBSET Nat
    BY DEF S
  <1>4. S = Nat
    BY <1>1, <1>2, <1>3, SetInduction
  <1> QED
    BY <1>4 DEF S

\* MeasureUpTo is that sum.
LEMMA MeasureSums ==
    /\ MeasureUpTo[0] = 0
    /\ \A n \in Nat : MeasureUpTo[n + 1] = MeasureUpTo[n] + 1 + Ntrans(n)
  <1> DEFINE M(n) == CHOOSE m : Sums(m, n)
             F == [n \in Nat |-> M(n)[n]]
             Body(f) == [n \in Nat |-> IF n = 0 THEN 0 ELSE f[n - 1] + 1 + Ntrans(n - 1)]
  <1>1. \A n \in Nat : Sums(M(n), n)
    BY SumsExist
  <1> HIDE DEF M
  <1>2. F[0] = 0
    BY <1>1 DEF Sums
  <1>3. ASSUME NEW n \in Nat PROVE F[n + 1] = F[n] + 1 + Ntrans(n)
    <2>1. Sums(M(n), n) /\ Sums(M(n + 1), n + 1) /\ n + 1 \in Nat
      BY <1>1
    <2>2. M(n + 1)[n] = M(n)[n]
      BY <2>1, SumsAgree
    <2>3. M(n + 1)[n + 1] = M(n + 1)[n] + 1 + Ntrans(n)
      <3>1. n \in 0..(n + 1) - 1
        OBVIOUS
      <3> QED
        BY <2>1, <3>1 DEF Sums
    <2> QED
      BY <2>1, <2>2, <2>3
  <1>4. F = Body(F)
    <2>1. \A n \in Nat : F[n] = IF n = 0 THEN 0 ELSE F[n - 1] + 1 + Ntrans(n - 1)
      <3> TAKE n \in Nat
      <3>1. CASE n = 0
        BY <1>2, <3>1
      <3>2. CASE n # 0
        <4>1. n - 1 \in Nat /\ n - 1 + 1 = n
          BY <3>2
        <4> HIDE DEF F
        <4> QED
          BY <1>3, <3>2, <4>1
      <3> QED
        BY <3>1, <3>2
    <2>2. F = [n \in Nat |-> F[n]]
      OBVIOUS
    <2> HIDE DEF F
    <2> QED
      BY <2>1, <2>2
  <1> HIDE DEF F
  <1>5. MeasureUpTo = Body(MeasureUpTo)
    BY <1>4, Zenon DEF MeasureUpTo
  <1>6. \A n \in Nat :
           MeasureUpTo[n] = IF n = 0 THEN 0 ELSE MeasureUpTo[n - 1] + 1 + Ntrans(n - 1)
    BY <1>5
  <1>7. MeasureUpTo[0] = 0
    BY <1>6
  <1>8. ASSUME NEW n \in Nat PROVE MeasureUpTo[n + 1] = MeasureUpTo[n] + 1 + Ntrans(n)
    <2>1. n + 1 \in Nat /\ n + 1 # 0 /\ n + 1 - 1 = n
      OBVIOUS
    <2> QED
      BY <1>6, <2>1
  <1> QED
    BY <1>7, <1>8

\* fst_pack writes as far behind the block that fst_measure had malloc make as
\* its fst_t takes, which fst_measure leaves out: never further, never less.
OverrunByHeader == phase \in {"packed", "aborted"} => dst.ptr = room + HeadCells

\* What is still to be written while the transitions are copied: the headers
\* and arrays of the states to come, counted as fst_measure counts them.
MeasureInv ==
    /\ phase # "build" => room = FstMeasure
    /\ phase = "trans" =>
          dst.ptr = HeadCells + (fst.len - dst.state) + MeasureUpTo[dst.state]
    /\ OverrunByHeader

\* The sums over the states that there are, are numbers.
LEMMA MeasureTyped ==
    ASSUME Sizes
    PROVE  \A n \in 0..fst.len : MeasureUpTo[n] \in Nat
  <1> DEFINE S == {n \in Nat : n <= fst.len => MeasureUpTo[n] \in Nat}
  <1>1. 0 \in S
    BY MeasureSums
  <1>2. ASSUME NEW n \in S PROVE n + 1 \in S
    <2> SUFFICES ASSUME n + 1 <= fst.len PROVE MeasureUpTo[n + 1] \in Nat
      OBVIOUS
    <2>1. n \in 0..fst.len /\ MeasureUpTo[n] \in Nat
      BY DEF Sizes
    <2>2. Ntrans(n) \in Nat
      BY <2>1 DEF Sizes, Ntrans
    <2>3. MeasureUpTo[n + 1] = MeasureUpTo[n] + 1 + Ntrans(n)
      BY MeasureSums
    <2> QED
      BY <2>1, <2>2, <2>3
  <1> HIDE DEF S
  <1>3. S \in SUBSET Nat
    BY DEF S
  <1>4. S = Nat
    BY <1>1, <1>2, <1>3, SetInduction
  <1> QED
    BY <1>4 DEF S, Sizes

\* The measure depends on the states alone.
LEMMA SameMeasure ==
    ASSUME UNCHANGED <<fst, trans>>
    PROVE  MeasureUpTo' = MeasureUpTo /\ FstMeasure' = FstMeasure
  <1>1. MeasureUpTo' = MeasureUpTo
    BY DEF MeasureUpTo, Ntrans
  <1> QED
    BY <1>1 DEF FstMeasure

\* Every step keeps the count.
LEMMA MeasureStep == MeasureInv /\ PackIInv /\ [PNext]_pvars => MeasureInv'
  <1> SUFFICES ASSUME MeasureInv, PackIInv, [PNext]_pvars PROVE MeasureInv'
    OBVIOUS
  <1>1. CASE UNCHANGED pvars
    BY <1>1, SameMeasure DEF pvars, MeasureInv, OverrunByHeader
  <1>2. CASE Build
    <2>1. phase' = "build"
      BY <1>2 DEF Build, BuildStep, BuildCall, packing
    <2> QED
      BY <2>1 DEF MeasureInv, OverrunByHeader
  <1>3. CASE Allocate
    BY <1>3, SameMeasure DEF Allocate, MeasureInv, OverrunByHeader
  <1>4. CASE PackHeader
    BY <1>4, SameMeasure DEF PackHeader, MeasureInv, OverrunByHeader
  <1>5. CASE PackStates
    <2>1. /\ phase = "states" /\ phase' = "trans" /\ UNCHANGED <<fst, trans, room>>
          /\ dst' = [dst EXCEPT !.ptr = @ + fst.len]
      BY <1>5 DEF PackStates
    <2>2. dst = [ptr |-> HeadCells, state |-> 0] /\ fst.len \in Nat
      BY <2>1 DEF PackIInv, Layout, Sizes
    <2>3. dst'.ptr = HeadCells + fst.len /\ dst'.state = 0
      BY <2>1, <2>2
    <2>4. dst'.ptr = HeadCells + (fst.len - dst'.state) + MeasureUpTo[dst'.state]
      BY <2>2, <2>3, MeasureSums DEF HeadCells
    <2> QED
      BY <2>1, <2>4, SameMeasure DEF MeasureInv, OverrunByHeader
  <1>6. CASE PackTrans
    <2> DEFINE k == dst.state
    <2>1. /\ phase = "trans" /\ phase' = "trans" /\ UNCHANGED <<fst, trans, room>>
          /\ k < fst.len /\ dst'.ptr = dst.ptr + Ntrans(k) /\ dst'.state = k + 1
      BY <1>6 DEF PackTrans
    <2>2. PackedUpTo(k) /\ Sizes
      BY <2>1 DEF PackIInv, Layout
    <2>3. k \in 0..fst.len - 1 /\ fst.len \in Nat
      BY <2>1, <2>2 DEF PackedUpTo, Sizes
    <2>4. /\ Ntrans(k) \in Nat /\ MeasureUpTo[k] \in Nat
          /\ MeasureUpTo[k + 1] = MeasureUpTo[k] + 1 + Ntrans(k)
      <3>1. k \in 0..fst.len /\ k \in Nat
        BY <2>3
      <3>2. trans[k] \in Seq(Transitions)
        BY <2>2, <3>1 DEF Sizes
      <3> HIDE DEF k
      <3>3. Ntrans(k) \in Nat
        BY <3>2 DEF Ntrans
      <3>4. MeasureUpTo[k] \in Nat
        BY <2>2, <3>1, MeasureTyped
      <3>5. MeasureUpTo[k + 1] = MeasureUpTo[k] + 1 + Ntrans(k)
        BY <3>1, MeasureSums
      <3> QED
        BY <3>3, <3>4, <3>5
    <2>5. dst.ptr = HeadCells + (fst.len - k) + MeasureUpTo[k]
      BY <2>1 DEF MeasureInv
    <2> HIDE DEF k
    <2>6. dst'.ptr = HeadCells + (fst.len - (k + 1)) + MeasureUpTo[k + 1]
      BY <2>1, <2>3, <2>4, <2>5 DEF HeadCells
    <2> QED
      BY <2>1, <2>6, SameMeasure DEF MeasureInv, OverrunByHeader
  <1>7. CASE Packed
    <2>1. /\ phase = "trans" /\ phase' \in {"packed", "aborted"}
          /\ dst.state >= fst.len /\ UNCHANGED <<fst, trans, room, dst>>
      BY <1>7 DEF Packed
    <2>2. PackedUpTo(dst.state) /\ Sizes
      BY <2>1 DEF PackIInv, Layout
    <2>3. dst.state = fst.len /\ fst.len \in Nat /\ MeasureUpTo[fst.len] \in Nat
      BY <2>1, <2>2, MeasureTyped DEF PackedUpTo, Sizes
    <2>4. room = MeasureUpTo[fst.len]
      BY <2>1 DEF MeasureInv, FstMeasure
    <2>5. dst.ptr = HeadCells + (fst.len - fst.len) + MeasureUpTo[fst.len]
      BY <2>1, <2>3 DEF MeasureInv
    <2>6. dst.ptr = room + HeadCells
      BY <2>3, <2>4, <2>5 DEF HeadCells
    <2> QED
      BY <2>1, <2>6, SameMeasure DEF MeasureInv, OverrunByHeader
  <1>8. CASE Query \/ PackedStep
    <2>1. UNCHANGED <<fst, trans, packing>>
      BY <1>8, QueryIInv
    <2> QED
      BY <2>1, SameMeasure DEF packing, MeasureInv, OverrunByHeader
  <1> QED
    BY <1>1, <1>2, <1>3, <1>4, <1>5, <1>6, <1>7, <1>8 DEF PNext, Pack

\* The size of the overrun that refutes BlockFits, on every transducer there
\* is: fst_measure and fst_pack agree on the states and their transitions, and
\* the fst_t in front is what is missing.
THEOREM OverrunIsHeader == PSpec => []OverrunByHeader
  <1>1. PInit => MeasureInv
    BY DEF PInit, MeasureInv, OverrunByHeader
  <1>2. MeasureInv => OverrunByHeader
    BY DEF MeasureInv
  <1> QED
    BY <1>1, <1>2, PackInvariance, MeasureStep, PTL DEF PSpec
==============================================================================
