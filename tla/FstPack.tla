------------------------------- MODULE FstPack -------------------------------
(****************************************************************************)
(* Packing (fst_measure, fst_pack, fst_copy_and_pack): a transducer that was *)
(* built by adding strings is copied into one block of memory, which then   *)
(* answers the lookups.  Memory is counted in cells of 16 bytes: fst_t      *)
(* takes two, a state header or a transition one each.                      *)
(****************************************************************************)
EXTENDS Fst

VARIABLES
    phase,      \* "build", "header", "states", "trans", "packed", "aborted"
    room,       \* cells that fst_copy_and_pack allocated
    cells,      \* what fst_pack wrote, by address in the block
    dst,        \* locals of fst_pack: the address to write next, the state
    book,       \* history: the strings added, with their values
    last        \* history: the string that made the last state

pvars == <<fst, trans, pc, call, at, ret, phase, room, cells, dst, book, last>>

packing == <<phase, room, cells, dst>>

HeadCells == 2

\* .transv of a header that was copied and not relocated yet.
SRC == -1

Ntrans(s) == Len(trans[s])

PInit ==
    /\ Init
    /\ phase = "build"
    /\ room = 0
    /\ cells = <<>>
    /\ dst = [ptr |-> 0, state |-> 0]
    /\ book = <<>>
    /\ last = <<>>

BuildStep ==
    /\ phase = "build"
    /\ \/ (AddFail \/ AddFollow) /\ UNCHANGED <<book, last>>
       \/ AddFinal /\ book' = Extended(book, call.str, call.val) /\ UNCHANGED last
       \/ AddNewState /\ last' = call.str /\ UNCHANGED book
    /\ UNCHANGED packing

BuildCall(c) ==
    /\ phase = "build"
    /\ Invoke(c)
    /\ UNCHANGED <<packing, book, last>>

Build == BuildStep \/ \E c \in Calls : c.op = "add" /\ BuildCall(c)

\* fst_measure: the sum over states 0..fst.len - 1.
MeasureUpTo[n \in Nat] == IF n = 0 THEN 0 ELSE MeasureUpTo[n - 1] + 1 + Ntrans(n - 1)

FstMeasure == MeasureUpTo[fst.len]

\* fst_copy_and_pack measures and allocates, ...
Allocate ==
    /\ phase = "build" /\ pc = "idle"
    /\ room' = FstMeasure
    /\ phase' = "header"
    /\ UNCHANGED <<fst, trans, pc, call, at, ret, cells, dst, book, last>>

\* ... fst_pack copies the vec header, whose size becomes its len, ...
PackHeader ==
    /\ phase = "header"
    /\ cells' = [i \in 0..HeadCells - 1 |-> [len |-> fst.len, size |-> fst.len]]
    /\ dst' = [ptr |-> HeadCells, state |-> 0]
    /\ phase' = "states"
    /\ UNCHANGED <<fst, trans, pc, call, at, ret, room, book, last>>

\* ... then the headers of nstates = len states as they are, ...
PackStates ==
    /\ phase = "states"
    /\ cells' = [i \in 0..HeadCells + fst.len - 1 |->
                    IF i < HeadCells THEN cells[i]
                    ELSE [transv |-> SRC, ntrans |-> Ntrans(i - HeadCells)]]
    /\ dst' = [dst EXCEPT !.ptr = @ + fst.len]
    /\ phase' = "trans"
    /\ UNCHANGED <<fst, trans, pc, call, at, ret, room, book, last>>

\* Mutant: .transv keeps pointing into the source.
PackTransNoRelocation ==
    /\ phase = "trans" /\ dst.state < fst.len
    /\ LET s == dst.state
       IN  /\ cells' = [i \in 0..dst.ptr + Ntrans(s) - 1 |->
                            IF i < dst.ptr THEN cells[i] ELSE trans[s][i - dst.ptr + 1]]
           /\ dst' = [ptr |-> dst.ptr + Ntrans(s), state |-> s + 1]
    /\ UNCHANGED <<fst, trans, pc, call, at, ret, phase, room, book, last>>

\* Mutant: the next array is laid over the last transition of this one.
PackTransOverlap ==
    /\ phase = "trans" /\ dst.state < fst.len
    /\ LET s == dst.state
       IN  /\ cells' = [i \in 0..dst.ptr + Ntrans(s) - 1 |->
                            IF i = HeadCells + s
                            THEN [cells[i] EXCEPT !.transv = dst.ptr]
                            ELSE IF i < dst.ptr THEN cells[i]
                            ELSE trans[s][i - dst.ptr + 1]]
           /\ dst' = [ptr |-> dst.ptr + Ntrans(s) - 1, state |-> s + 1]
    /\ UNCHANGED <<fst, trans, pc, call, at, ret, phase, room, book, last>>

\* ... and state by state relocates .transv and copies the transitions.
PackTrans ==
    /\ phase = "trans" /\ dst.state < fst.len
    /\ LET s == dst.state
       IN  /\ cells' = [i \in 0..dst.ptr + Ntrans(s) - 1 |->
                            IF i = HeadCells + s
                            THEN [cells[i] EXCEPT !.transv = dst.ptr]
                            ELSE IF i < dst.ptr THEN cells[i]
                            ELSE trans[s][i - dst.ptr + 1]]
           /\ dst' = [ptr |-> dst.ptr + Ntrans(s), state |-> s + 1]
    /\ UNCHANGED <<fst, trans, pc, call, at, ret, phase, room, book, last>>

\* A block that was overrun may have spoilt the allocator's own records, and
\* the process then ends; or it may not.
Packed ==
    /\ phase = "trans" /\ dst.state >= fst.len
    /\ phase' \in IF dst.ptr > room THEN {"packed", "aborted"} ELSE {"packed"}
    /\ UNCHANGED <<fst, trans, pc, call, at, ret, room, cells, dst, book, last>>

-----------------------------------------------------------------------------
\* The block read back as a transducer: its header, and the states it holds.
Header == [base |-> TRUE, len |-> cells[0].len, size |-> cells[0].size]

PackedTrans ==
    [s \in 0..Header.len - 1 |->
        LET sv == cells[HeadCells + s]
        IN  [i \in 1..sv.ntrans |-> cells[sv.transv + i - 1]]]

P == INSTANCE Fst WITH fst <- Header, trans <- PackedTrans

QueryCall(c) ==
    /\ phase = "packed" /\ pc = "idle"
    /\ UNCHANGED <<fst, trans, packing, book, last>>
    /\ P!Invoke(c)

Query == \E c \in Calls : c.op # "add" /\ QueryCall(c)

\* State number len was not copied: fst_rule_lookup accepts it and takes for
\* its header the first transition in the block, or, in a block without any,
\* what lies behind it.  A header that reads as zero has no transitions.
MayReadZero == IF Header.len = 0 THEN TRUE ELSE cells[HeadCells + Header.len].next = 0

PackedFault ==
    /\ phase = "packed" /\ pc = "lookup"
    /\ IF at.state \in DOMAIN PackedTrans
       THEN P!AtPrefixTest /\ PackedTrans[at.state] = <<>>
       ELSE TRUE
    /\ pc' = "fault"
    /\ UNCHANGED <<fst, trans, call, at, ret, packing, book, last>>

PackedAstray ==
    /\ phase = "packed" /\ pc = "lookup"
    /\ at.state \notin DOMAIN PackedTrans
    /\ MayReadZero
    /\ call.op = "string" \/ Chr = NUL
    /\ Return("ENOENT", UNDEF)
    /\ UNCHANGED <<fst, trans, packing, book, last>>

PackedLookup ==
    /\ phase = "packed" /\ pc = "lookup"
    /\ at.state \in DOMAIN PackedTrans
    /\ UNCHANGED <<fst, trans, packing, book, last>>
    /\ P!LookupFinal \/ P!LookupEnd \/ P!LookupMiss \/ P!LookupFollow

Pack == Allocate \/ PackHeader \/ PackStates \/ PackTrans \/ Packed

PackedStep == PackedFault \/ PackedAstray \/ PackedLookup

PNext == Build \/ Pack \/ Query \/ PackedStep

PSpec == PInit /\ [][PNext]_pvars

-----------------------------------------------------------------------------
\* The block holds headers where states are read and transitions where
\* transitions are read: once packed, every .transv points into the part of
\* the block behind the headers, and the arrays do not overlap.
BlockLayout ==
    phase = "packed" =>
        LET arrays == HeadCells + fst.len
            span(s) == LET sv == cells[HeadCells + s]
                       IN  sv.transv..sv.transv + sv.ntrans - 1
        IN  /\ \A s \in 0..fst.len - 1 : span(s) \subseteq arrays..dst.ptr - 1
            /\ \A s, t \in 0..fst.len - 1 : s # t => span(s) \cap span(t) = {}

\* Packing loses one state, the last that was made, and nothing else: for a
\* key that does not begin with the string that made it, the block answers as
\* the strings added demand.  A string lookup finds exactly those; a prefix
\* lookup one that begins the key and that no other extends.
PackedAnswers ==
    phase = "packed" /\ call.op # "add" /\ ~Begins(last, call.str) =>
        LET leaf(w) == \A u \in DOMAIN book : Begins(w, u) => u = w
            hits == {w \in DOMAIN book :
                        \/ w = call.str
                        \/ call.op = "prefix" /\ Begins(w, call.str) /\ leaf(w)}
        IN  /\ pc # "fault"
            /\ pc = "idle" /\ ret # Pending =>
                  IF hits = {} THEN ret.err = "ENOENT"
                  ELSE ret.err = "OK" /\ \E w \in hits : ret.val = book[w]

\* "fst_measure() tells how big of a single memory allocation will hold the
\* entire FST, including any padding or overhead" (libfst.c): what fst_pack
\* writes of a transducer with strings stays inside the block.
BlockFits == phase \in {"packed", "aborted"} /\ DOMAIN book # {} => dst.ptr <= room

\* dst_fst is "allocated to hold a copy of src_fst": a copy of a transducer with
\* strings answers its lookups.
NeverLost == phase = "packed" /\ DOMAIN book # {} => pc # "fault"
==============================================================================
