--------------------------- MODULE IsbnInfoProofs ---------------------------
(****************************************************************************)
(* What holds of table builder, packed transducer and hyphenation together, *)
(* for every set of documents and strings: the prefix table, the transducer *)
(* and the packed block agree, an entry that is found begins the string,    *)
(* place_hyphens puts out the string's own bytes in their order, and all of *)
(* it implements Hyphenator.                                                *)
(****************************************************************************)
EXTENDS IsbnInfo, FstPackProofs, IsbnTableProofs

\* add_prefix has called fst_add_string for the group at hand.
Adding == tpc = "prefix" /\ IsNumeric(cur_prefix) /\ call = Addition

\* Which part is under way: strings are added while the document is read, the
\* transducer is packed after that, and looked up in for the ISBN at hand.
OneAtATime ==
    /\ phase # "build" => tpc = "done"
    /\ hpc # "idle" => phase = "packed"
    /\ hpc = "lookup" => call = Lookup(isbn)
    /\ pc = "add" => Adding
    /\ call.op = "add" => Adding \/ call.val < cur_value

\* The transducer has the prefixes of the prefix table, and the one at hand
\* from the end of fst_add_string on.
BookIsDict == book = IF Adding /\ pc = "idle" THEN DictWith(Addition.str) ELSE dict

\* A lookup that finds something in the packed block has found a string that
\* was added and begins the key, with its value, also where the string of the
\* state that was lost begins the key.
OkIsHit ==
    phase = "packed" /\ pc = "idle" /\ call.op # "add" /\ ret.err = "OK" =>
        \E w \in DOMAIN book : Begins(w, call.str) /\ ret.val = book[w]

\* The numbers that hyphenate_isbn counts with.
NumbersRead ==
    /\ key.length # NoText => key.length \in Seq(0..14)
    /\ \A k \in 1..prefix_nr : prefixes[k].rule_idx \in Int /\ prefixes[k].nrules \in Nat
    /\ \A r \in 1..rule_nr : ranges[r].rng_len \in Nat
    /\ hpc # "idle" => i \in Nat

\* What is in the buffer is what place_hyphens made of the string at hand, of
\* the prefix that was found and of the length of a range.
Placed ==
    /\ isbn \in Seq(Char)
    /\ \/ hbuf = <<>> /\ rc # "OK"
       \/ /\ hpc = "idle"
          /\ pfx \in 1..prefix_nr
          /\ prefixes[pfx].prefix \in Seq(Char) /\ Len(prefixes[pfx].prefix) >= 3
          /\ Begins(prefixes[pfx].prefix, isbn)
          /\ \E len \in 0..8 : hbuf = H!PlaceHyphens(isbn, len, prefixes[pfx].prefix)

InfoIInv ==
    /\ PackHInv /\ Words
    /\ OneAtATime /\ BookIsDict /\ OkIsHit /\ NumbersRead
    /\ EntryOfPrefix /\ Placed

-----------------------------------------------------------------------------
\* The composition takes the steps of its parts.
LEMMA TableSteps == InfoSpec => TSpec
  <1>1. InfoInit => TInit
    BY DEF InfoInit
  <1>2. [InfoNext]_infovars => [TNext]_tvars
    <2> SUFFICES ASSUME [InfoNext]_infovars PROVE [TNext]_tvars
      OBVIOUS
    <2>1. CASE UNCHANGED infovars
      BY <2>1 DEF infovars
    <2>2. CASE InfoStep
      BY <2>2 DEF InfoStep, ReadDoc, CallAddString, AddString, EntryAdded, CopyAndPack,
                  LookupPrefix, Looked, Scan, TNext
    <2>3. CASE \E s \in Isbns : Ask(s)
      BY <2>3 DEF Ask
    <2> QED
      BY <2>1, <2>2, <2>3 DEF InfoNext
  <1> QED
    BY <1>1, <1>2, PTL DEF InfoSpec, TSpec

\* What the calls look like.
LEMMA GoodCalls == (\A s \in Isbns : Lookup(s) \in Calls) /\ Lookup(<<>>) \in Calls
  BY BytesAssumption DEF Lookup, Calls

\* Every step of the composition is one of FstPackHist, or leaves it alone, and
\* has its history recorded.
LEMMA PackParts ==
    ASSUME InfoNext
    PROVE  Recorded /\ (PNext \/ UNCHANGED pvars)
  <1>1. Recorded
    BY DEF InfoNext, Histories
  <1>2. CASE CallAddString
    <2>1. Addition \in Calls /\ BuildCall(Addition) /\ Addition.op = "add"
      BY <1>2 DEF CallAddString, Addition
    <2>2. Build
      BY <2>1 DEF Build
    <2> QED
      BY <1>1, <2>2 DEF PNext
  <1>3. CASE AddString \/ CopyAndPack \/ LookupPrefix
    <2>1. BuildStep \/ Pack \/ PackedStep
      BY <1>3 DEF AddString, CopyAndPack, LookupPrefix
    <2> QED
      BY <1>1, <2>1 DEF PNext, Build
  <1>5. CASE ReadDoc \/ EntryAdded \/ Looked \/ Scan
    <2>1. UNCHANGED pvars
      BY <1>5 DEF ReadDoc, EntryAdded, Looked, Scan
    <2> QED
      BY <1>1, <2>1
  <1>4. CASE \E s \in Isbns : Ask(s)
    <2>1. PICK s \in Isbns : Ask(s)
      BY <1>4
    <2>2. Lookup(s) \in Calls /\ Lookup(s).op # "add"
      BY GoodCalls DEF Lookup
    <2> QED
      BY <1>1, <2>1, <2>2 DEF Ask, PNext, Query
  <1> QED
    BY <1>2, <1>3, <1>4, <1>5 DEF InfoNext, InfoStep

\* The composition takes the steps of FstPack.
LEMMA PackSteps == InfoSpec => PSpec
  <1>1. InfoInit => PInit
    BY DEF InfoInit, PHInit
  <1>2. [InfoNext]_infovars => [PNext]_pvars
    <2> SUFFICES ASSUME [InfoNext]_infovars PROVE [PNext]_pvars
      OBVIOUS
    <2>1. CASE UNCHANGED infovars
      BY <2>1 DEF infovars, phvars
    <2> QED
      BY <2>1, PackParts
  <1> QED
    BY <1>1, <1>2, PTL DEF InfoSpec, PSpec

\* The invariants of the parts hold in the whole.
LEMMA PartsHold == InfoSpec => [](PackIInv /\ TableIInv /\ WalkIInv)
  BY TableSteps, PackSteps, PackInvariance, TableInvariance, WalkInvariance, PTL

-----------------------------------------------------------------------------
\* Where no state is made the words stay.
LEMMA WordsFixed ==
    ASSUME Words, Recorded, fst' = fst
    PROVE  word' = word /\ Words'
  <1>1. word' = [s \in 0..fst.len |-> word[s]]
    BY DEF Words, Recorded
  <1>2. word' = word
    BY <1>1 DEF Words
  <1> QED
    BY <1>2 DEF Words

\* Only a lookup brings the process down.
LEMMA FaultInLookup ==
    ASSUME PackIInv, PNext
    PROVE  pc # "fault" /\ (pc' = "fault" => UNCHANGED <<fst, trans>>)
  <1>1. CASE Build
    <2>1. PackIInv' /\ phase' = "build" /\ phase = "build"
      BY <1>1, BuildIInv DEF Build, BuildStep, BuildCall, packing
    <2> QED
      BY <2>1 DEF PackIInv, Phases
  <1>2. CASE Pack
    BY <1>2, PackStepIInv
  <1>3. CASE Query \/ PackedStep
    <2>1. UNCHANGED <<fst, trans>>
      BY <1>3, QueryIInv
    <2>2. pc # "fault"
      BY <1>3 DEF Query, QueryCall, PackedStep, PackedFault, PackedAstray, PackedLookup
    <2> QED
      BY <2>1, <2>2
  <1> QED
    BY <1>1, <1>2, <1>3 DEF PNext

\* Words and answers of the packed block are kept (FstPackHist).
LEMMA AnswersStep ==
    ASSUME PackHInv, PackIInv, Words, InfoNext
    PROVE  PackHInv' /\ Words'
  <1>1. Recorded /\ (PNext \/ UNCHANGED pvars)
    BY PackParts
  <1>2. CASE UNCHANGED pvars
    <2>1. word' = word /\ Words'
      BY <1>1, <1>2, WordsFixed DEF pvars
    <2>2. UNCHANGED phvars
      BY <1>2, <2>1 DEF phvars
    <2> QED
      BY <2>1, <2>2, PackHNext
  <1>3. CASE PNext
    <2>1. PackHInv'
      BY <1>1, <1>3, PackHNext DEF PHNext
    <2>2. Words'
      <3>1. CASE pc' = "fault"
        BY <1>1, <1>3, <3>1, FaultInLookup, WordsFixed
      <3>2. CASE pc' # "fault"
        BY <2>1, <3>2 DEF PackHInv, HInv
      <3> QED
        BY <3>1, <3>2
    <2> QED
      BY <2>1, <2>2
  <1> QED
    BY <1>1, <1>2, <1>3

-----------------------------------------------------------------------------
\* What each part leaves alone.

\* The value of the next entry is a number.
LEMMA CurNat ==
    ASSUME TableIInv
    PROVE  cur_value = prefix_nr /\ prefix_nr \in Nat /\ rule_nr \in Nat
  <1>1. cur_value = prefix_nr /\ Sequence(prefixes) /\ Sequence(ranges)
    BY DEF TableIInv, Numbered, TablesHold
  <1> QED
    BY <1>1 DEF Sequence, prefix_nr, rule_nr

\* A step of the walk: nothing was being added.
LEMMA WhileReading ==
    ASSUME TableIInv, OneAtATime, ReadDoc
    PROVE  /\ phase = "build" /\ hpc = "idle" /\ pc # "add" /\ ~Adding
           /\ UNCHANGED <<pvars, hyphenation, dict, cur_value, prefixes>>
           /\ (call.op = "add" => call.val < cur_value)
           /\ ~Adding'
  <1>1. /\ tpc # "done" /\ UNCHANGED <<pvars, hyphenation, dict, cur_value, prefixes>>
        /\ tpc = "prefix" => ~IsNumeric(cur_prefix)
    BY DEF ReadDoc, ParseDoc, Descend, ReadText, PassOver, RefuseRule, AddRule, Ascend,
           LeaveGroup, RefusePrefix, EndOfDocument, Walking, Leaving, entries
  <1>2. phase = "build" /\ hpc = "idle" /\ ~Adding /\ pc # "add"
    BY <1>1 DEF OneAtATime, Adding
  <1>3. call.op = "add" => call.val < cur_value
    BY <1>2 DEF OneAtATime
  <1>4. ~Adding'
    <2> SUFFICES ASSUME Adding' PROVE FALSE
      OBVIOUS
    <2>1. call = Addition'
      BY <1>1 DEF Adding, pvars
    <2>2. call.op = "add" /\ call.val = cur_value
      BY <1>1, <2>1 DEF Addition
    <2> QED
      BY <1>3, <2>2, CurNat
  <1> QED
    BY <1>1, <1>2, <1>3, <1>4

\* The call of fst_add_string.
LEMMA AdditionCalled ==
    ASSUME OneAtATime, CallAddString
    PROVE  /\ UNCHANGED <<tvars, hyphenation, book, phase>>
           /\ phase = "build" /\ hpc = "idle" /\ pc = "idle" /\ ~Adding
           /\ pc' = "add" /\ call' = Addition /\ Adding'
  <1>1. /\ tpc = "prefix" /\ IsNumeric(cur_prefix) /\ call # Addition
        /\ BuildCall(Addition) /\ UNCHANGED <<tvars, hyphenation>>
    BY DEF CallAddString
  <1>2. /\ phase = "build" /\ pc = "idle" /\ UNCHANGED <<phase, book>>
        /\ pc' = "add" /\ call' = Addition
    BY <1>1 DEF BuildCall, Invoke, packing, Addition
  <1>3. hpc = "idle" /\ ~Adding
    BY <1>1, <1>2 DEF OneAtATime, Adding
  <1>4. Adding'
    BY <1>1, <1>2 DEF Adding, Addition, tvars
  <1> QED
    BY <1>1, <1>2, <1>3, <1>4

\* A turn of fst_add_string.
LEMMA WhileAdding ==
    ASSUME OneAtATime, AddString
    PROVE  /\ UNCHANGED <<tvars, hyphenation, phase, call>>
           /\ phase = "build" /\ hpc = "idle" /\ pc = "add" /\ pc' \in {"add", "idle"}
           /\ Adding /\ Adding'
  <1>1. /\ UNCHANGED <<tvars, hyphenation, phase, call>>
        /\ phase = "build" /\ pc = "add" /\ pc' \in {"add", "idle"}
    BY DEF AddString, BuildStep, packing, AddFail, AddFollow, AddFinal, AddNewState,
           Return, Goto
  <1>2. hpc = "idle" /\ Adding
    BY <1>1 DEF OneAtATime
  <1>3. Adding'
    BY <1>1, <1>2 DEF Adding, Addition, tvars
  <1> QED
    BY <1>1, <1>2, <1>3

\* The end of add_prefix.
LEMMA OnEntry ==
    ASSUME OneAtATime, EntryAdded
    PROVE  /\ UNCHANGED <<pvars, hyphenation>>
           /\ phase = "build" /\ hpc = "idle" /\ pc = "idle" /\ Adding /\ ~Adding'
           /\ dict' = DictWith(Addition.str) /\ cur_value' = cur_value + 1
           /\ prefixes' = Append(prefixes, NewEntry) /\ NewEntry.prefix = Addition.str
           /\ call.val = cur_value
  <1>1. /\ tpc = "prefix" /\ tpc' = "walk" /\ pc = "idle" /\ call = Addition
        /\ IsNumeric(cur_prefix) /\ UNCHANGED <<pvars, hyphenation>>
        /\ dict' = DictWith(NewEntry.prefix) /\ cur_value' = cur_value + 1
        /\ prefixes' = Append(prefixes, NewEntry)
    BY DEF EntryAdded, AddPrefix, StorePrefix
  <1>2. NewEntry.prefix = Addition.str /\ Addition.val = cur_value
    BY DEF NewEntry, Addition
  <1>3. phase = "build" /\ hpc = "idle"
    BY <1>1 DEF OneAtATime
  <1> QED
    BY <1>1, <1>2, <1>3 DEF Adding

\* Packing.
LEMMA WhilePacking ==
    ASSUME PackIInv, OneAtATime, CopyAndPack
    PROVE  /\ UNCHANGED <<tvars, hyphenation, pc, call, ret, book>>
           /\ tpc = "done" /\ hpc = "idle" /\ pc = "idle" /\ ~Adding /\ ~Adding'
           /\ (call.op = "add" \/ ret = Pending)
  <1>1. Pack /\ tpc = "done" /\ UNCHANGED <<tvars, hyphenation>>
    BY DEF CopyAndPack
  <1>2. UNCHANGED <<pc, call, ret, book>> /\ pc = "idle"
    BY <1>1, PackStepIInv
  <1>3. phase # "packed"
    BY <1>1 DEF Pack, Allocate, PackHeader, PackStates, PackTrans, Packed
  <1>4. hpc = "idle" /\ (call.op = "add" \/ ret = Pending)
    BY <1>3 DEF OneAtATime, PackIInv, Phases
  <1>5. ~Adding /\ ~Adding'
    BY <1>1 DEF Adding, tvars
  <1> QED
    BY <1>1, <1>2, <1>4, <1>5

\* A call of fst_lookup_prefix, or a turn of it.
LEMMA WhileLooking ==
    ASSUME PackIInv, OneAtATime, Query \/ PackedStep, UNCHANGED tvars
    PROVE  /\ UNCHANGED <<book, last, phase>>
           /\ tpc = "done" /\ phase = "packed" /\ pc # "add" /\ pc' # "add"
           /\ ~Adding /\ ~Adding'
           /\ (PackedStep => UNCHANGED call /\ pc = "lookup")
  <1>1. UNCHANGED <<book, last, phase>> /\ phase = "packed" /\ PackIInv' /\ Sizes
        /\ PackedUpTo(fst.len)
    BY QueryIInv DEF packing
  <1>2. pc # "add" /\ pc' # "add" /\ tpc = "done"
    BY <1>1 DEF PackIInv, Phases, OneAtATime
  <1>3. ~Adding /\ ~Adding'
    BY <1>2 DEF Adding, tvars
  <1>4. PackedStep => UNCHANGED call /\ pc = "lookup"
    <2>1. CASE PackedFault
      BY <2>1 DEF PackedFault
    <2>2. CASE PackedAstray
      BY <2>2 DEF PackedAstray, Return
    <2>3. CASE PackedLookup
      <3>1. LookupFinal \/ LookupEnd \/ LookupMiss \/ LookupFollow
        BY <1>1, <2>3, SameStep DEF PackIInv
      <3> QED
        BY <3>1 DEF LookupFinal, LookupEnd, LookupMiss, LookupFollow, AtPrefixTest,
                    PastPrefixTest, Return, Goto
    <2> QED
      BY <2>1, <2>2, <2>3 DEF PackedStep
  <1> QED
    BY <1>1, <1>2, <1>3, <1>4

\* The head of hyphenate_isbn, up to its call of fst_lookup_prefix.
LEMMA Asked ==
    ASSUME NEW s \in Isbns, Ask(s)
    PROVE  /\ UNCHANGED tvars /\ phase = "packed" /\ hpc = "idle"
           /\ isbn' = s /\ hbuf' = <<>> /\ i' = 0
           /\ \/ /\ hpc' = "lookup" /\ rc' = "none" /\ Query
                 /\ call' = Lookup(s) /\ ret' = Pending
              \/ hpc' = "idle" /\ rc' = "ENOSPC" /\ UNCHANGED pvars
  <1>1. /\ UNCHANGED tvars /\ phase = "packed" /\ hpc = "idle"
        /\ isbn' = s /\ hbuf' = <<>> /\ i' = 0
        /\ \/ hpc' = "lookup" /\ rc' = "none"
           \/ hpc' = "idle" /\ rc' = "ENOSPC"
        /\ IF hpc' = "lookup" THEN QueryCall(Lookup(s)) ELSE UNCHANGED pvars
    BY DEF Ask, H!Ask
  <1>2. ASSUME QueryCall(Lookup(s))
        PROVE  Query /\ call' = Lookup(s) /\ ret' = Pending
    <2>1. Lookup(s) \in Calls /\ Lookup(s).op # "add"
      BY GoodCalls DEF Lookup
    <2>2. Query
      BY <1>2, <2>1 DEF Query
    <2>3. Invoke(Lookup(s))
      BY <1>2, SameAnswers DEF QueryCall
    <2> QED
      BY <2>2, <2>3 DEF Invoke
  <1> QED
    BY <1>1, <1>2

-----------------------------------------------------------------------------
\* The steps of the whole, one by one.
LEMMA InfoCases ==
    ASSUME InfoNext
    PROVE  \/ ReadDoc \/ CallAddString \/ AddString \/ EntryAdded \/ CopyAndPack
           \/ LookupPrefix \/ Looked \/ Scan \/ \E s \in Isbns : Ask(s)
  BY DEF InfoNext, InfoStep

\* hyphenate_isbn itself leaves transducer and tables alone.
LEMMA WhileHyphenating ==
    ASSUME OneAtATime, Looked \/ Scan
    PROVE  /\ UNCHANGED <<tvars, pvars, isbn>> /\ hpc # "idle" /\ hpc' # "lookup"
           /\ phase = "packed" /\ tpc = "done" /\ ~Adding /\ ~Adding'
  <1>1. /\ UNCHANGED <<tvars, pvars, isbn>> /\ hpc # "idle" /\ hpc' # "lookup"
    <2>1. CASE Looked
      BY <2>1 DEF Looked, H!Looked
    <2>2. CASE Scan
      BY <2>2 DEF Scan, H!TryRange, H!NoRange
    <2> QED
      BY <2>1, <2>2
  <1>2. phase = "packed" /\ tpc = "done"
    BY <1>1 DEF OneAtATime
  <1> QED
    BY <1>1, <1>2 DEF Adding, tvars

\* Each part runs in its turn.
LEMMA TurnsStep ==
    ASSUME PackIInv, TableIInv, OneAtATime, InfoNext
    PROVE  OneAtATime'
  <1>1. CASE ReadDoc
    BY <1>1, WhileReading DEF OneAtATime, pvars, hyphenation
  <1>2. CASE CallAddString
    BY <1>2, AdditionCalled DEF OneAtATime, hyphenation
  <1>3. CASE AddString
    BY <1>3, WhileAdding DEF OneAtATime, hyphenation
  <1>4. CASE EntryAdded
    <2>1. cur_value \in Nat
      BY CurNat
    <2> QED
      BY <1>4, <2>1, OnEntry DEF OneAtATime, pvars, hyphenation
  <1>5. CASE CopyAndPack
    BY <1>5, WhilePacking DEF OneAtATime, tvars, hyphenation
  <1>6. CASE LookupPrefix
    <2>1. PackedStep /\ UNCHANGED <<tvars, hyphenation>>
      BY <1>6 DEF LookupPrefix
    <2>2. UNCHANGED <<phase, call>> /\ tpc = "done" /\ phase = "packed" /\ pc' # "add" /\ ~Adding
      BY <2>1, WhileLooking
    <2> QED
      BY <2>1, <2>2 DEF OneAtATime, tvars, hyphenation, Lookup
  <1>7. CASE Looked \/ Scan
    BY <1>7, WhileHyphenating DEF OneAtATime, tvars, pvars
  <1>8. CASE \E s \in Isbns : Ask(s)
    <2>1. PICK s \in Isbns : Ask(s)
      BY <1>8
    <2>2. UNCHANGED tvars /\ phase = "packed" /\ isbn' = s
      BY <2>1, Asked
    <2>3. CASE hpc' = "lookup" /\ Query /\ call' = Lookup(s)
      <3>1. UNCHANGED phase /\ tpc = "done" /\ pc' # "add" /\ call'.op = "prefix"
        BY <2>2, <2>3, WhileLooking DEF Lookup
      <3>2. Lookup(isbn)' = Lookup(s)
        BY <2>2 DEF Lookup
      <3> QED
        BY <2>2, <2>3, <3>1, <3>2 DEF OneAtATime, tvars
    <2>4. CASE hpc' = "idle" /\ UNCHANGED pvars
      <3>1. tpc = "done" /\ ~Adding
        BY <2>2 DEF OneAtATime, Adding
      <3> QED
        BY <2>2, <2>4, <3>1 DEF OneAtATime, pvars, tvars
    <2> QED
      BY <2>1, <2>3, <2>4, Asked
  <1> QED
    BY <1>1, <1>2, <1>3, <1>4, <1>5, <1>6, <1>7, <1>8, InfoCases

\* When fst_add_string is done, its string is in the transducer with its value,
\* or was there before.
LEMMA AdditionDone ==
    ASSUME PackIInv, PackHInv, OneAtATime, BookIsDict, AddString, Recorded, pc' = "idle"
    PROVE  book' = DictWith(Addition.str)
  <1>1. /\ UNCHANGED <<call, tvars>> /\ pc = "add" /\ call = Addition /\ BuildStep
    BY WhileAdding DEF AddString, Adding
  <1>2. book = dict /\ book = Contents
    BY <1>1 DEF BookIsDict, PackHInv
  <1>3. HInv
    BY <1>1 DEF PackHInv
  <1>4. DOMAIN book = Stored /\ book = [w \in DOMAIN book |-> book[w]]
    BY <1>2 DEF Contents
  <1>5. CASE AddFail /\ UNCHANGED book
    <2>1. call.str \in DOMAIN book
      BY <1>3, <1>4, <1>5, AddFailStored
    <2> DEFINE w == Addition.str
    <2>2. w \in DOMAIN dict /\ dict = [v \in DOMAIN dict |-> dict[v]]
      BY <1>1, <1>2, <1>4, <2>1
    <2>3. DictWith(w) = [v \in DOMAIN dict |-> dict[v]]
      BY <2>2 DEF DictWith
    <2> QED
      BY <1>2, <1>5, <2>2, <2>3
  <1>6. CASE AddFinal /\ book' = Extended(book, call.str, call.val)
    <2>1. call.str \notin DOMAIN book
      BY <1>3, <1>4, <1>6, AddFinalStores
    <2> DEFINE w == Addition.str
    <2>2. w \notin DOMAIN dict /\ call.str = w /\ call.val = cur_value
      BY <1>1, <1>2, <2>1 DEF Addition
    <2>3. DictWith(w) = Extended(dict, w, cur_value)
      BY <2>2 DEF DictWith, Extended
    <2> QED
      BY <1>2, <1>6, <2>2, <2>3
  <1>7. ~AddFollow /\ ~AddNewState
    BY <1>1 DEF AddFollow, AddNewState, Goto
  <1> QED
    BY <1>1, <1>5, <1>6, <1>7 DEF BuildStep

\* add_prefix enters into its table what fst_add_string has stored.
LEMMA BookStep ==
    ASSUME PackIInv, PackHInv, TableIInv, OneAtATime, BookIsDict, InfoNext
    PROVE  BookIsDict'
  <1>1. CASE ReadDoc
    <2>1. /\ ~Adding /\ ~Adding' /\ book' = book /\ dict' = dict
      BY <1>1, WhileReading DEF pvars
    <2> QED
      BY <2>1 DEF BookIsDict
  <1>2. CASE CallAddString
    <2>1. ~Adding /\ pc' = "add" /\ book' = book /\ dict' = dict
      BY <1>2, AdditionCalled DEF tvars
    <2> QED
      BY <2>1 DEF BookIsDict
  <1>3. CASE AddString
    <2>1. /\ UNCHANGED <<tvars, call>> /\ pc = "add" /\ pc' \in {"add", "idle"}
          /\ Adding /\ Adding' /\ dict' = dict
      BY <1>3, WhileAdding DEF tvars
    <2>2. CASE pc' = "add"
      <3>1. book' = book
        BY <1>3, <2>2 DEF AddString, BuildStep, AddFail, AddFinal, Return
      <3> QED
        BY <2>1, <2>2, <3>1 DEF BookIsDict
    <2>3. CASE pc' = "idle"
      <3>1. book' = DictWith(Addition.str)
        BY <1>3, <2>3, AdditionDone, PackParts
      <3>2. DictWith(Addition.str)' = DictWith(Addition.str)
        BY <2>1 DEF DictWith, Addition, tvars
      <3> QED
        BY <2>1, <2>3, <3>1, <3>2 DEF BookIsDict
    <2> QED
      BY <2>1, <2>2, <2>3
  <1>4. CASE EntryAdded
    <2>1. /\ Adding /\ ~Adding' /\ pc = "idle" /\ book' = book
          /\ dict' = DictWith(Addition.str)
      BY <1>4, OnEntry DEF pvars
    <2> QED
      BY <2>1 DEF BookIsDict
  <1>5. ASSUME UNCHANGED <<book, dict>>, ~Adding, ~Adding'
        PROVE  BookIsDict'
    BY <1>5 DEF BookIsDict
  <1>6. CASE CopyAndPack
    <2>1. UNCHANGED <<book, dict>> /\ ~Adding /\ ~Adding'
      BY <1>6, WhilePacking DEF tvars
    <2> QED
      BY <1>5, <2>1
  <1>7. CASE LookupPrefix
    <2>1. PackedStep /\ UNCHANGED tvars
      BY <1>7 DEF LookupPrefix
    <2>2. UNCHANGED <<book, dict>> /\ ~Adding /\ ~Adding'
      BY <2>1, WhileLooking DEF tvars
    <2> QED
      BY <1>5, <2>2
  <1>8. CASE Looked \/ Scan
    <2>1. UNCHANGED <<book, dict>> /\ ~Adding /\ ~Adding'
      BY <1>8, WhileHyphenating DEF tvars, pvars
    <2> QED
      BY <1>5, <2>1
  <1>9. CASE \E s \in Isbns : Ask(s)
    <2>1. PICK s \in Isbns : Ask(s)
      BY <1>9
    <2>2. UNCHANGED tvars /\ phase = "packed" /\ (Query \/ UNCHANGED pvars)
      BY <2>1, Asked
    <2>3. tpc = "done" /\ ~Adding /\ ~Adding'
      BY <2>2 DEF OneAtATime, Adding, tvars
    <2>4. UNCHANGED <<book, dict>>
      BY <2>2, WhileLooking DEF tvars, pvars
    <2> QED
      BY <1>5, <2>3, <2>4
  <1> QED
    BY <1>1, <1>2, <1>3, <1>4, <1>6, <1>7, <1>8, <1>9, InfoCases

\* A turn of a lookup in the block that answers OK has found a stored string.
LEMMA FoundInBlock ==
    ASSUME PackIInv, PackHInv, Recorded, PackedStep, pc' = "idle", ret'.err = "OK"
    PROVE  \E w \in DOMAIN book : Begins(w, call.str) /\ ret'.val = book[w]
  <1>1. /\ phase = "packed" /\ PackedUpTo(fst.len) /\ Sizes
    BY QueryIInv
  <1>2. ~PackedFault /\ ~PackedAstray
    BY DEF PackedFault, PackedAstray, Return, Answer
  <1>3. LookupFinal \/ LookupEnd \/ LookupMiss \/ LookupFollow
    BY <1>1, <1>2, SameStep DEF PackedStep
  <1>4. pc = "lookup"
    BY <1>3 DEF LookupFinal, LookupEnd, LookupMiss, LookupFollow, AtPrefixTest,
                PastPrefixTest
  <1>5. HInv /\ book = Contents
    BY <1>4 DEF PackHInv
  <1>6. ~LookupFollow
    BY <1>5, FollowSilent
  <1>7. Dict!PrefixHit \/ Dict!WholeHit \/ Dict!Miss
    BY <1>3, <1>5, <1>6, LookupFinalMaps, LookupEndMaps, LookupMissMaps, PackParts
  <1>8. CASE Dict!PrefixHit
    BY <1>5, <1>8, SameApi DEF Dict!PrefixHit, Dict!Return, Answer
  <1>9. CASE Dict!WholeHit
    <2>1. call.str \in DOMAIN book /\ ret' = Answer("OK", book[call.str])
      BY <1>5, <1>9, SameApi DEF Dict!WholeHit, Dict!Return
    <2>2. Begins(call.str, call.str)
      <3>1. call.str \in Seq(Char)
        BY <1>5, Shape DEF HInv
      <3> QED
        BY <3>1, BeginsSelf
    <2> QED
      BY <2>1, <2>2 DEF Answer
  <1>10. CASE Dict!Miss
    BY <1>10, SameApi DEF Dict!Miss, Dict!Return, Answer
  <1> QED
    BY <1>7, <1>8, <1>9, <1>10

\* What a lookup in the packed block finds was stored: only its last step makes
\* the answer.
LEMMA HitStep ==
    ASSUME PackIInv, PackHInv, OneAtATime, OkIsHit, InfoNext
    PROVE  OkIsHit'
  <1>1. CASE ReadDoc \/ CallAddString \/ AddString \/ EntryAdded
    <2>1. phase' = "build"
      <3>1. UNCHANGED phase /\ tpc # "done"
        <4>1. CASE ReadDoc
          BY <4>1 DEF ReadDoc, ParseDoc, Descend, ReadText, PassOver, RefuseRule, AddRule,
                 Ascend, LeaveGroup, RefusePrefix, EndOfDocument, Walking, Leaving, pvars
        <4>2. CASE CallAddString
          BY <4>2 DEF CallAddString, BuildCall, packing
        <4>3. CASE AddString
          BY <4>3, WhileAdding DEF Adding
        <4>4. CASE EntryAdded
          BY <4>4 DEF EntryAdded, pvars
        <4> QED
          BY <1>1, <4>1, <4>2, <4>3, <4>4
      <3> QED
        BY <3>1 DEF OneAtATime
    <2> QED
      BY <2>1 DEF OkIsHit
  <1>2. CASE CopyAndPack
    <2>1. UNCHANGED <<call, ret>> /\ (call.op = "add" \/ ret = Pending)
      BY <1>2, WhilePacking
    <2> QED
      BY <2>1 DEF OkIsHit, Pending, Answer
  <1>3. ASSUME UNCHANGED pvars PROVE OkIsHit'
    BY <1>3 DEF OkIsHit, pvars
  <1>4. CASE LookupPrefix
    <2>1. PackedStep /\ UNCHANGED tvars
      BY <1>4 DEF LookupPrefix
    <2>2. UNCHANGED <<book, call>>
      BY <2>1, WhileLooking
    <2>3. ASSUME pc' = "idle", ret'.err = "OK"
          PROVE  \E w \in DOMAIN book : Begins(w, call.str) /\ ret'.val = book[w]
      BY <2>1, <2>3, FoundInBlock, PackParts
    <2> QED
      BY <2>2, <2>3 DEF OkIsHit
  <1>5. CASE Looked \/ Scan
    BY <1>3, <1>5, WhileHyphenating
  <1>6. CASE \E s \in Isbns : Ask(s)
    <2>1. PICK s \in Isbns : Ask(s)
      BY <1>6
    <2>2. ret' = Pending \/ UNCHANGED pvars
      BY <2>1, Asked
    <2> QED
      BY <1>3, <2>2 DEF OkIsHit, Pending, Answer
  <1> QED
    BY <1>1, <1>2, <1>4, <1>5, <1>6, InfoCases

-----------------------------------------------------------------------------
\* The digits that begin a text are digits, and make a number.
LEMMA LeadingAreDigits ==
    ASSUME NEW s \in Seq(0..14)
    PROVE  LeadingDigits(s) \in Seq(0..9)
  <1> DEFINE I == {k \in 1..Len(s) : s[k] \notin Digit}
  <1>1. Len(s) \in Nat /\ I \in SUBSET Nat
    OBVIOUS
  <1>2. LeadingDigits(s) =
            LET stop == IF I # {} THEN Min(I) ELSE 0
            IN  IF stop = 0 THEN s ELSE SubSeq(s, 1, stop - 1)
    BY DEF LeadingDigits, SelectInSeq
  <1>3. CASE I = {}
    <2>1. LeadingDigits(s) = s
      BY <1>2, <1>3
    <2>2. \A k \in 1..Len(s) : s[k] \in 0..9
      BY <1>3 DEF Digit
    <2>3. s \in Seq(0..9)
      BY <1>1, <2>2
    <2> QED
      BY <2>1, <2>3
  <1>4. CASE I # {}
    <2>1. PICK n \in I : \A k \in I : n <= k
      <3> HIDE DEF I
      <3> QED
        BY <1>1, <1>4, Smallest
    <2>2. Min(I) = n /\ n \in 1..Len(s)
      <3>1. n \in 1..Len(s)
        OBVIOUS
      <3> HIDE DEF I
      <3> QED
        BY <1>1, <2>1, <3>1, SmallestIsMin
    <2>3. \A k \in 1..n - 1 : k \in 1..Len(s) /\ s[k] \in 0..9
      <3> SUFFICES ASSUME NEW k \in 1..n - 1
                   PROVE  k \in 1..Len(s) /\ s[k] \in 0..9
        OBVIOUS
      <3>1. k \in 1..Len(s) /\ ~(n <= k)
        BY <1>1, <2>2
      <3>2. k \notin I
        BY <2>1, <3>1
      <3> QED
        BY <3>1, <3>2 DEF Digit
    <2> HIDE DEF I
    <2>4. LeadingDigits(s) = SubSeq(s, 1, n - 1)
      BY <1>1, <1>2, <1>4, <2>2
    <2>5. SubSeq(s, 1, n - 1) \in Seq(0..9)
      <3>1. n - 1 \in Int
        BY <2>2
      <3> QED
        BY <2>3, <3>1, SubSeqProperties
    <2> QED
      BY <2>4, <2>5
  <1> QED
    BY <1>3, <1>4

\* strtoul returns a number, whatever the bytes.
LEMMA StrtoulNat ==
    ASSUME NEW s \in Seq(0..14)
    PROVE  Strtoul(s) \in Nat
  <1> PICK d : d = LeadingDigits(s)
    OBVIOUS
  <1> DEFINE m == Len(d)
             add == [k \in 1..m |-> [x \in Int |-> x * 10 + d[k]]]
             Add(f) == f = [n \in 0..m |-> IF n = 0 THEN 0 ELSE f[n - 1] * 10 + d[n]]
             h == CHOOSE f : Add(f)
             S == {n \in Nat : n <= m => h[n] \in Nat}
  <1>1. m \in Nat /\ \A k \in 1..m : d[k] \in 0..9
    <2>1. d \in Seq(0..9)
      BY LeadingAreDigits
    <2> QED
      BY <2>1
  <1>2. Strtoul(s) = h[m]
    BY DEF Strtoul
  <1>3. \A k \in 1..m : add[k] \in [Int -> Int]
    <2> SUFFICES ASSUME NEW k \in 1..m PROVE add[k] \in [Int -> Int]
      OBVIOUS
    <2> PICK c : c = d[k]
      OBVIOUS
    <2>1. \A x \in Int : x * 10 + c \in Int
      BY <1>1
    <2>2. add[k] = [x \in Int |-> x * 10 + c]
      OBVIOUS
    <2> QED
      BY <2>1, <2>2
  <1>4. ASSUME NEW f, Counting(f, add, m) PROVE Add(f)
    <2>1. \A n \in 0..m : n # 0 => n \in 1..m /\ n - 1 \in 0..m
      BY <1>1
    <2>2. f \in [0..m -> Int] /\ f[0] = 0 /\ \A k \in 1..m : f[k] = add[k][f[k - 1]]
      BY <1>4 DEF Counting
    <2>3. ASSUME NEW n \in 0..m
          PROVE  f[n] = IF n = 0 THEN 0 ELSE f[n - 1] * 10 + d[n]
      BY <2>1, <2>2
    <2> QED
      BY <2>2, <2>3
  <1> HIDE DEF add
  <1>5. Add(h)
    <2>1. \E f : Counting(f, add, m)
      BY <1>1, <1>3, CountingExists
    <2> HIDE DEF Add
    <2>2. \E f : Add(f)
      BY <1>4, <2>1
    <2> QED
      BY <2>2
  <1> HIDE DEF h
  <1>6. 0 \in S
    <2>1. 0 \in 0..m
      BY <1>1
    <2> QED
      BY <1>5, <2>1
  <1>7. ASSUME NEW n \in S PROVE n + 1 \in S
    <2>1. n \in Nat /\ (n <= m => h[n] \in Nat)
      OBVIOUS
    <2>2. ASSUME n + 1 <= m PROVE h[n + 1] \in Nat
      <3>1. n + 1 \in 0..m /\ n + 1 # 0 /\ n + 1 - 1 = n /\ n + 1 \in 1..m /\ n <= m
        BY <1>1, <2>1, <2>2
      <3>2. h[n + 1] = h[n] * 10 + d[n + 1]
        BY <1>5, <3>1
      <3>3. h[n] \in Nat /\ d[n + 1] \in 0..9
        BY <1>1, <2>1, <3>1
      <3> PICK x, c : x = h[n] /\ c = d[n + 1]
        OBVIOUS
      <3>4. \A y \in Nat : \A b \in 0..9 : y * 10 + b \in Nat
        BY SMT
      <3>5. x * 10 + c \in Nat
        BY <3>3, <3>4
      <3> QED
        BY <3>2, <3>5
    <2> QED
      BY <2>1, <2>2
  <1>8. S \in SUBSET Nat
    OBVIOUS
  <1> HIDE DEF S
  <1>9. S = Nat
    BY <1>6, <1>7, <1>8, SetInduction
  <1>10. m \in S
    BY <1>1, <1>9
  <1> QED
    BY <1>1, <1>2, <1>10 DEF S

\* Steps that neither read a length, nor add a range or a prefix.
LEMMA NumbersKept ==
    ASSUME NumbersRead, UNCHANGED <<prefixes, ranges>>,
           key'.length \in {key.length, NoText},
           hpc' # "idle" => i' \in Nat
    PROVE  NumbersRead'
  <1>1. prefix_nr' = prefix_nr /\ rule_nr' = rule_nr
    BY DEF prefix_nr, rule_nr
  <1> QED
    BY <1>1 DEF NumbersRead

\* Lengths and indexes come from strtoul and from counters.
LEMMA NumbersStep ==
    ASSUME TableIInv, WalkIInv, OneAtATime, NumbersRead, InfoNext
    PROVE  NumbersRead'
  <1>1. /\ Nested /\ Lists /\ KeyHolds
        /\ new_prefix \in [rule_idx : Int, nrules : 0..rule_nr]
        /\ Sequence(prefixes) /\ Sequence(ranges)
        /\ prefix_nr \in Nat /\ rule_nr \in Nat
    BY CurNat DEF TableIInv, WalkIInv, Counts, TablesHold
  <1>2. CASE ReadText /\ UNCHANGED hyphenation
    <2>1. Cur \in Elements
      <3> PICK n : n = Len(frames)
        OBVIOUS
      <3> QED
        BY <1>1, <1>2, SiblingTodo
    <2>2. Cur.name = "Length" /\ Cur.text # NoText => Cur.text \in Seq(0..14)
      BY <2>1, DocsAssumption DEF IsElement
    <2>3. key'.length = IF Cur.name = "Length" THEN Cur.text ELSE key.length
      BY <1>1, <1>2 DEF ReadText, KeyHolds
    <2>4. UNCHANGED <<prefixes, ranges, hpc, i>>
      BY <1>2 DEF ReadText, rules, entries, hyphenation
    <2>5. prefix_nr' = prefix_nr /\ rule_nr' = rule_nr
      BY <2>4 DEF prefix_nr, rule_nr
    <2> QED
      BY <2>2, <2>3, <2>4, <2>5 DEF NumbersRead
  <1>3. CASE AddRule /\ UNCHANGED hyphenation
    <2> DEFINE rule == [rng_len |-> Strtoul(key.length),
                        rng_lbound |-> StrtoullCut(LoStr(key.range)),
                        rng_ubound |-> StrtoullCut(HiStr(key.range))]
    <2>1. /\ key.length # NoText /\ ranges' = Append(ranges, rule)
          /\ UNCHANGED <<key, prefixes, hpc, i>>
      BY <1>3 DEF AddRule, Accepted, StoreRule, entries, hyphenation
    <2>2. rule.rng_len \in Nat
      <3>1. key.length \in Seq(0..14)
        BY <2>1 DEF NumbersRead
      <3> QED
        BY <3>1, StrtoulNat
    <2> HIDE DEF rule
    <2>3. /\ Len(ranges') = rule_nr + 1 /\ ranges'[rule_nr + 1] = rule
          /\ \A r \in 1..rule_nr : ranges'[r] = ranges[r]
      BY <1>1, <2>1, AppendSequence DEF rule_nr
    <2>4. prefix_nr' = prefix_nr /\ rule_nr' = rule_nr + 1
      BY <2>1, <2>3 DEF prefix_nr, rule_nr
    <2>5. ASSUME NEW r \in 1..rule_nr + 1 PROVE ranges'[r].rng_len \in Nat
      <3>1. r = rule_nr + 1 \/ r \in 1..rule_nr
        BY <1>1
      <3> QED
        BY <2>2, <2>3, <3>1 DEF NumbersRead
    <2> QED
      BY <2>1, <2>4, <2>5 DEF NumbersRead
  <1>4. CASE EntryAdded
    <2>1. prefixes' = Append(prefixes, NewEntry) /\ UNCHANGED <<key, ranges, hpc, i>>
      BY <1>4 DEF EntryAdded, AddPrefix, hyphenation
    <2>2. NewEntry.rule_idx \in Int /\ NewEntry.nrules \in Nat
      BY <1>1 DEF NewEntry
    <2>3. /\ Len(prefixes') = prefix_nr + 1 /\ prefixes'[prefix_nr + 1] = NewEntry
          /\ \A k \in 1..prefix_nr : prefixes'[k] = prefixes[k]
      BY <1>1, <2>1, AppendSequence DEF prefix_nr
    <2>4. prefix_nr' = prefix_nr + 1 /\ rule_nr' = rule_nr
      BY <2>1, <2>3 DEF prefix_nr, rule_nr
    <2>5. ASSUME NEW k \in 1..prefix_nr + 1
          PROVE  prefixes'[k].rule_idx \in Int /\ prefixes'[k].nrules \in Nat
      <3>1. k = prefix_nr + 1 \/ k \in 1..prefix_nr
        BY <1>1
      <3> QED
        BY <2>2, <2>3, <3>1 DEF NumbersRead
    <2> QED
      BY <2>1, <2>4, <2>5 DEF NumbersRead
  <1>5. CASE Descend /\ UNCHANGED hyphenation
    <2>1. UNCHANGED <<prefixes, ranges, hpc, i>> /\ key'.length = NoText
      BY <1>5 DEF Descend, rules, entries, hyphenation
    <2> QED
      BY <2>1, NumbersKept DEF NumbersRead
  <1>6. CASE /\ ParseDoc \/ PassOver \/ RefuseRule \/ Ascend \/ LeaveGroup
                \/ RefusePrefix \/ EndOfDocument
             /\ UNCHANGED hyphenation
    <2>1. UNCHANGED <<prefixes, ranges, key, hpc, i>>
      BY <1>6 DEF ParseDoc, PassOver, RefuseRule, Ascend, LeaveGroup, RefusePrefix,
                  EndOfDocument, rules, entries, hyphenation
    <2> QED
      BY <2>1, NumbersKept DEF NumbersRead
  <1>7. CASE UNCHANGED <<tvars, hyphenation>>
    <2>1. UNCHANGED <<prefixes, ranges, key, hpc, i>>
      BY <1>7 DEF tvars, hyphenation
    <2> QED
      BY <2>1, NumbersKept DEF NumbersRead
  <1>8. CASE Looked \/ Scan
    <2>1. UNCHANGED tvars /\ hpc # "idle"
      BY <1>8, WhileHyphenating
    <2>2. i' \in {i, i + 1} /\ i \in Nat
      BY <1>8, <2>1 DEF Looked, Scan, H!Looked, H!TryRange, H!NoRange, NumbersRead
    <2> QED
      BY <2>1, <2>2, NumbersKept DEF tvars
  <1>9. CASE \E s \in Isbns : Ask(s)
    <2>1. UNCHANGED tvars /\ i' = 0
      BY <1>9, Asked
    <2> QED
      BY <2>1, NumbersKept DEF tvars
  <1>10. CASE ReadDoc
    BY <1>2, <1>3, <1>5, <1>6, <1>10 DEF ReadDoc
  <1>11. CASE CallAddString \/ AddString \/ CopyAndPack \/ LookupPrefix
    BY <1>7, <1>11 DEF CallAddString, AddString, CopyAndPack, LookupPrefix
  <1> QED
    BY <1>4, <1>8, <1>9, <1>10, <1>11, InfoCases
-----------------------------------------------------------------------------
\* Once the document is read the transducer has the prefixes of the table, and
\* the values that it finds are indexes into it.
LEMMA FoundEntry ==
    ASSUME TableIInv, OneAtATime, BookIsDict, OkIsHit, Looked, ret.err = "OK"
    PROVE  /\ ret.val + 1 \in 1..prefix_nr
           /\ Begins(prefixes[ret.val + 1].prefix, isbn)
           /\ prefixes[ret.val + 1].prefix \in DOMAIN book
  <1>1. hpc = "lookup" /\ pc = "idle"
    BY DEF Looked, H!Looked
  <1>2. phase = "packed" /\ call = Lookup(isbn) /\ tpc = "done"
    BY <1>1 DEF OneAtATime
  <1>3. book = dict
    BY <1>2 DEF BookIsDict, Adding
  <1>4. PICK w \in DOMAIN book : Begins(w, call.str) /\ ret.val = book[w]
    BY <1>1, <1>2 DEF OkIsHit, Lookup
  <1>5. ret.val + 1 \in 1..prefix_nr /\ prefixes[ret.val + 1].prefix = w
    BY <1>3, <1>4 DEF TableIInv, Numbered, ValuesAreIndexes
  <1>6. call.str = isbn
    BY <1>2 DEF Lookup
  <1> QED
    BY <1>4, <1>5, <1>6

\* The value of the prefix that begins the string is the index of its entry:
\* OkIsHit has the string in the dictionary, the values are indexes.
LEMMA EntryFoundStep ==
    ASSUME TableIInv, OneAtATime, BookIsDict, OkIsHit, EntryOfPrefix, InfoNext
    PROVE  EntryOfPrefix'
  <1>1. CASE ReadDoc \/ CallAddString \/ AddString \/ EntryAdded \/ CopyAndPack \/ LookupPrefix
    <2>1. UNCHANGED hyphenation
      BY <1>1 DEF ReadDoc, CallAddString, AddString, EntryAdded, CopyAndPack, LookupPrefix
    <2>2. CASE ReadDoc \/ EntryAdded
      <3>1. tpc # "done"
        BY <2>2 DEF ReadDoc, ParseDoc, Descend, ReadText, PassOver, RefuseRule, AddRule,
                    Ascend, LeaveGroup, RefusePrefix, EndOfDocument, Walking, Leaving,
                    EntryAdded
      <3>2. hpc = "idle"
        BY <3>1 DEF OneAtATime
      <3> QED
        BY <2>1, <3>2 DEF EntryOfPrefix, hyphenation
    <2>3. CASE CallAddString \/ AddString \/ CopyAndPack \/ LookupPrefix
      <3>1. UNCHANGED tvars
        BY <2>3 DEF CallAddString, AddString, CopyAndPack, LookupPrefix
      <3> QED
        BY <2>1, <3>1 DEF EntryOfPrefix, hyphenation, tvars
    <2> QED
      BY <1>1, <2>2, <2>3
  <1>2. CASE Looked
    <2>1. UNCHANGED <<prefixes, isbn>> /\ (hpc' = "scan" => ret.err = "OK" /\ pfx' = ret.val + 1)
      BY <1>2 DEF Looked, H!Looked, tvars
    <2> QED
      BY <1>2, <2>1, FoundEntry DEF EntryOfPrefix, prefix_nr
  <1>3. CASE Scan
    <2>1. UNCHANGED <<prefixes, isbn, pfx>> /\ hpc = "scan"
      BY <1>3 DEF Scan, H!TryRange, H!NoRange, tvars
    <2> QED
      BY <2>1 DEF EntryOfPrefix
  <1>4. CASE \E s \in Isbns : Ask(s)
    <2>1. hpc' # "scan"
      BY <1>4, Asked
    <2> QED
      BY <2>1 DEF EntryOfPrefix
  <1> QED
    BY <1>1, <1>2, <1>3, <1>4, InfoCases

\* The ranges of an entry are entries of the range table.
LEMMA RulesInTable ==
    ASSUME TableIInv, NumbersRead, NEW k \in 1..prefix_nr, NEW n \in Nat,
           n < prefixes[k].nrules
    PROVE  prefixes[k].rule_idx + n + 1 \in 1..rule_nr
  <1> PICK a, m : a = prefixes[k].rule_idx /\ m = prefixes[k].nrules
    OBVIOUS
  <1>1. a \in Int /\ m \in Nat /\ n < m
    BY DEF NumbersRead
  <1>2. a + n + 1 \in a + 1..a + m
    BY <1>1
  <1>3. {r \in 1..rule_nr : source.ranges[r] \in Owners(k)} = a + 1..a + m
    BY DEF TableIInv, Counts, RulesHandedOn
  <1>4. a + n + 1 \in {r \in 1..rule_nr : source.ranges[r] \in Owners(k)}
    BY <1>2, <1>3
  <1> QED
    BY <1>4

\* The strings in the transducer are strings.
LEMMA StoredStrings ==
    ASSUME PackIInv, PackHInv, Words
    PROVE  DOMAIN book \subseteq Seq(Char)
  <1>1. DOMAIN trans = 0..fst.len /\ \A s \in 0..fst.len : word[s] \in Seq(Char)
    BY DEF PackIInv, Sizes, Words
  <1>2. DOMAIN book = Stored
    BY DEF PackHInv, Contents
  <1> QED
    BY <1>1, <1>2 DEF Stored, Final

\* What was put into the buffer stays right while the tables grow.
LEMMA PlacedKept ==
    ASSUME TableIInv, Placed, UNCHANGED <<isbn, pfx, hbuf, rc>>,
           hpc = "idle" => hpc' = "idle",
           prefixes' = prefixes \/ \E e : prefixes' = Append(prefixes, e)
    PROVE  Placed'
  <1>1. prefix_nr \in Nat /\ Sequence(prefixes)
    BY CurNat DEF TableIInv, TablesHold
  <1>2. \A k \in 1..prefix_nr : k \in 1..prefix_nr' /\ prefixes'[k] = prefixes[k]
    <2>1. CASE prefixes' = prefixes
      BY <2>1 DEF prefix_nr
    <2>2. CASE \E e : prefixes' = Append(prefixes, e)
      <3>1. PICK e : prefixes' = Append(prefixes, e)
        BY <2>2
      <3>2. /\ Len(prefixes') = prefix_nr + 1
            /\ \A k \in 1..prefix_nr : prefixes'[k] = prefixes[k]
        BY <1>1, <3>1, AppendSequence DEF prefix_nr
      <3>3. prefix_nr' = prefix_nr + 1
        BY <3>2 DEF prefix_nr
      <3> QED
        BY <1>1, <3>2, <3>3
    <2> QED
      BY <2>1, <2>2
  <1>3. CASE hbuf = <<>> /\ rc # "OK"
    BY <1>3 DEF Placed
  <1>4. CASE ~(hbuf = <<>> /\ rc # "OK")
    <2>1. /\ isbn \in Seq(Char) /\ hpc = "idle"
          /\ pfx \in 1..prefix_nr
          /\ prefixes[pfx].prefix \in Seq(Char) /\ Len(prefixes[pfx].prefix) >= 3
          /\ Begins(prefixes[pfx].prefix, isbn)
          /\ \E len \in 0..8 : hbuf = H!PlaceHyphens(isbn, len, prefixes[pfx].prefix)
      BY <1>4 DEF Placed
    <2>2. hpc' = "idle" /\ pfx \in 1..prefix_nr' /\ prefixes'[pfx] = prefixes[pfx]
      BY <1>2, <2>1
    <2>3. \E len \in 0..8 : hbuf' = H!PlaceHyphens(isbn', len, prefixes'[pfx'].prefix)
      BY <2>1, <2>2
    <2> QED
      BY <2>1, <2>2, <2>3 DEF Placed
  <1> QED
    BY <1>3, <1>4

\* A range that has the registrant: the hyphens go in.
LEMMA PlacedNow ==
    ASSUME PackIInv, PackHInv, Words, TableIInv, OneAtATime, BookIsDict, NumbersRead,
           EntryOfPrefix, Placed, Scan, H!TryRange, rc' # rc
    PROVE  Placed'
  <1> DEFINE prefix == prefixes[pfx].prefix
             rule == ranges[prefixes[pfx].rule_idx + i + 1]
  <1>1. /\ hpc = "scan" /\ i < prefixes[pfx].nrules
        /\ ~(rule.rng_len > 8 \/ Len(prefix) < 3)
        /\ hbuf' = H!PlaceHyphens(isbn, rule.rng_len, prefix) /\ hpc' = "idle"
        /\ UNCHANGED <<tvars, isbn, pfx>>
    BY DEF Scan, H!TryRange, H!Rule
  <1>2. pfx \in 1..prefix_nr /\ Begins(prefix, isbn)
    BY <1>1 DEF EntryOfPrefix, prefix_nr
  <1>3. rule.rng_len \in 0..8
    <2>1. i \in Nat
      BY <1>1 DEF NumbersRead
    <2>2. prefixes[pfx].rule_idx + i + 1 \in 1..rule_nr
      BY <1>1, <1>2, <2>1, RulesInTable
    <2>3. rule.rng_len \in Nat
      BY <2>2 DEF NumbersRead
    <2> HIDE DEF rule
    <2> QED
      BY <1>1, <2>3
  <1>4. prefix \in Seq(Char) /\ Len(prefix) >= 3
    <2>1. tpc = "done"
      BY <1>1 DEF OneAtATime
    <2>2. book = dict
      BY <2>1 DEF BookIsDict, Adding
    <2>3. prefix \in DOMAIN dict
      BY <1>2 DEF TableIInv, Numbered
    <2>4. prefix \in Seq(Char)
      BY <2>2, <2>3, StoredStrings
    <2> HIDE DEF prefix
    <2>5. Len(prefix) \in Nat
      BY <2>4
    <2> QED
      BY <1>1, <2>4, <2>5
  <1>5. isbn \in Seq(Char)
    BY DEF Placed
  <1>6. UNCHANGED <<prefixes, isbn, pfx, prefix_nr>>
    BY <1>1 DEF tvars, prefix_nr
  <1> HIDE DEF rule
  <1>7. \E len \in 0..8 : hbuf' = H!PlaceHyphens(isbn', len, prefixes'[pfx'].prefix)
    BY <1>1, <1>3, <1>6
  <1> QED
    BY <1>1, <1>2, <1>4, <1>5, <1>6, <1>7 DEF Placed

\* Only a range that matches fills the buffer, with the entry found.
LEMMA PlacedStep ==
    ASSUME PackIInv, PackHInv, Words, TableIInv, OneAtATime, BookIsDict, NumbersRead,
           EntryOfPrefix, Placed, InfoNext
    PROVE  Placed'
  <1>1. CASE ReadDoc \/ CallAddString \/ AddString \/ EntryAdded \/ CopyAndPack \/ LookupPrefix
    <2>1. UNCHANGED <<isbn, pfx, hbuf, rc, hpc>>
      BY <1>1 DEF ReadDoc, CallAddString, AddString, EntryAdded, CopyAndPack, LookupPrefix,
                  hyphenation
    <2>2. prefixes' = prefixes \/ \E e : prefixes' = Append(prefixes, e)
      <3>1. CASE ReadDoc
        BY <3>1, WhileReading
      <3>2. CASE EntryAdded
        BY <3>2 DEF EntryAdded, AddPrefix
      <3>3. CASE CallAddString \/ AddString \/ CopyAndPack \/ LookupPrefix
        BY <3>3 DEF CallAddString, AddString, CopyAndPack, LookupPrefix, tvars
      <3> QED
        BY <1>1, <3>1, <3>2, <3>3
    <2> QED
      BY <2>1, <2>2, PlacedKept
  <1>2. CASE Looked
    <2>1. UNCHANGED <<prefixes, prefix_nr, isbn, hbuf>> /\ hpc = "lookup"
          /\ (rc' = rc \/ rc' # "OK")
      BY <1>2 DEF Looked, H!Looked, tvars, prefix_nr
    <2>2. isbn \in Seq(Char) /\ hbuf = <<>> /\ rc # "OK"
      BY <2>1 DEF Placed
    <2> QED
      BY <2>1, <2>2 DEF Placed
  <1>3. CASE Scan
    <2>1. UNCHANGED <<tvars, isbn, pfx>> /\ hpc = "scan"
      BY <1>3 DEF Scan, H!NoRange, H!TryRange
    <2>2. isbn \in Seq(Char) /\ hbuf = <<>> /\ rc # "OK"
      BY <2>1 DEF Placed
    <2>3. CASE H!TryRange /\ rc' # rc
      BY <1>3, <2>3, PlacedNow
    <2>4. CASE H!NoRange \/ rc' = rc
      <3>1. UNCHANGED hbuf /\ rc' # "OK"
        <4>1. CASE H!NoRange
          BY <2>2, <4>1 DEF H!NoRange
        <4>2. CASE H!TryRange /\ rc' = rc
          BY <2>2, <4>2 DEF H!TryRange
        <4> QED
          BY <1>3, <2>4, <4>1, <4>2 DEF Scan
      <3> QED
        BY <2>1, <2>2, <3>1 DEF Placed
    <2> QED
      BY <1>3, <2>3, <2>4 DEF Scan
  <1>4. CASE \E s \in Isbns : Ask(s)
    <2>1. PICK s \in Isbns : Ask(s)
      BY <1>4
    <2>2. isbn' = s /\ hbuf' = <<>> /\ rc' # "OK"
      BY <2>1, Asked
    <2>3. s \in Seq(Char)
      BY BytesAssumption, ApiAssumption
    <2> QED
      BY <2>2, <2>3 DEF Placed
  <1> QED
    BY <1>1, <1>2, <1>3, <1>4, InfoCases

-----------------------------------------------------------------------------
\* InfoIInv is an inductive invariant of the composition.
LEMMA InitInfo == InfoInit => InfoIInv
  <1> SUFFICES ASSUME InfoInit PROVE InfoIInv
    OBVIOUS
  <1>1. TInit /\ PHInit /\ call = Lookup(<<>>) /\ H!Init
    BY DEF InfoInit
  <1>2. PackHInv
    BY <1>1, PackHInit
  <1>3. pc = "idle" /\ phase = "build" /\ book = <<>> /\ ret = Pending
    BY <1>1 DEF PHInit, PInit, Init
  <1>4. Words
    BY <1>2, <1>3 DEF PackHInv, HInv
  <1>5. /\ tpc = "doc" /\ dict = <<>> /\ cur_value = 0 /\ prefixes = <<>> /\ ranges = <<>>
        /\ key.length = NoText
    BY <1>1 DEF TInit
  <1>6. hpc = "idle" /\ isbn = <<>> /\ hbuf = <<>> /\ rc = "none"
    BY <1>1 DEF H!Init
  <1>7. OneAtATime
    BY <1>1, <1>3, <1>6 DEF OneAtATime, Adding, Lookup
  <1>8. BookIsDict /\ OkIsHit
    BY <1>3, <1>5 DEF BookIsDict, OkIsHit, Adding
  <1>9. NumbersRead
    <2>1. prefix_nr = 0 /\ rule_nr = 0
      BY <1>5 DEF prefix_nr, rule_nr
    <2> QED
      BY <1>5, <1>6, <2>1 DEF NumbersRead
  <1>10. EntryOfPrefix /\ Placed
    BY <1>6 DEF EntryOfPrefix, Placed
  <1> QED
    BY <1>2, <1>4, <1>7, <1>8, <1>9, <1>10 DEF InfoIInv

\* Every step keeps the invariant.
LEMMA NextInfo ==
    PackIInv /\ TableIInv /\ WalkIInv /\ InfoIInv /\ [InfoNext]_infovars => InfoIInv'
  <1> SUFFICES ASSUME PackIInv, TableIInv, WalkIInv, InfoIInv, [InfoNext]_infovars
               PROVE  InfoIInv'
    OBVIOUS
  <1>1. CASE InfoNext
    <2>1. /\ PackHInv /\ Words /\ OneAtATime /\ BookIsDict /\ OkIsHit /\ NumbersRead
          /\ EntryOfPrefix /\ Placed
      BY DEF InfoIInv
    <2>2. PackHInv' /\ Words'
      BY <1>1, <2>1, AnswersStep
    <2>3. OneAtATime'
      BY <1>1, <2>1, TurnsStep
    <2>4. BookIsDict'
      BY <1>1, <2>1, BookStep
    <2>5. OkIsHit'
      BY <1>1, <2>1, HitStep
    <2>6. NumbersRead'
      BY <1>1, <2>1, NumbersStep
    <2>7. EntryOfPrefix'
      BY <1>1, <2>1, EntryFoundStep
    <2>8. Placed'
      BY <1>1, <2>1, PlacedStep
    <2> QED
      BY <2>2, <2>3, <2>4, <2>5, <2>6, <2>7, <2>8 DEF InfoIInv
  <1>2. CASE UNCHANGED infovars
    <2>1. UNCHANGED <<phvars, tvars, hyphenation>>
      BY <1>2 DEF infovars
    <2>2. PackHInv' /\ Words'
      <3>1. PackHInv'
        BY <2>1, PackHNext DEF InfoIInv
      <3> QED
        BY <2>1, <3>1 DEF InfoIInv, Words, phvars, pvars
    <2>3. OneAtATime' /\ BookIsDict' /\ OkIsHit' /\ EntryOfPrefix'
      BY <2>1 DEF InfoIInv, OneAtATime, BookIsDict, OkIsHit, EntryOfPrefix, Adding,
                  Addition, Lookup, DictWith, phvars, pvars, tvars, hyphenation
    <2>4. NumbersRead'
      BY <2>1, NumbersKept DEF InfoIInv, NumbersRead, tvars, hyphenation
    <2>5. Placed'
      BY <2>1, PlacedKept DEF InfoIInv, tvars, hyphenation
    <2> QED
      BY <2>2, <2>3, <2>4, <2>5 DEF InfoIInv
  <1> QED
    BY <1>1, <1>2

\* The invariant of the whole, which rests on those of its parts.
THEOREM InfoInvariance == InfoSpec => []InfoIInv
  <1>1. InfoIInv /\ (PackIInv /\ TableIInv /\ WalkIInv) /\ [InfoNext]_infovars => InfoIInv'
    BY NextInfo
  <1> QED
    BY <1>1, InitInfo, PartsHold, PTL DEF InfoSpec

\* Whatever the documents, and in particular with groups that come twice, that
\* are refused or that begin each other: the value that fst_lookup_prefix
\* yields is the index of an entry of the prefix table whose prefix begins the
\* string (prefix_tbl + val in hyphenate_isbn).
THEOREM EntryFound == InfoSpec => []EntryOfPrefix
  <1>1. InfoIInv => EntryOfPrefix
    BY DEF InfoIInv
  <1> QED
    BY <1>1, InfoInvariance, PTL
-----------------------------------------------------------------------------
\* Bytes, one after the other.
LEMMA SliceType ==
    ASSUME NEW s \in Seq(0..14), NEW o \in Nat, NEW n \in Nat
    PROVE  /\ Slice(s, o, n) \in Seq(0..14)
           /\ Len(Slice(s, o, n)) = n
           /\ \A k \in 1..n : Slice(s, o, n)[k] = Byte(s, o + k - 1)
  <1>1. \A p \in Nat : Byte(s, p) \in 0..14
    BY DEF Byte, EOS, JUNK
  <1>2. \A k \in 1..n : o + k - 1 \in Nat
    OBVIOUS
  <1>3. \A k \in 1..n : Byte(s, o + k - 1) \in 0..14
    BY <1>1, <1>2
  <1>4. Slice(s, o, n) = [k \in 1..n |-> Byte(s, o + k - 1)]
    BY DEF Slice
  <1>5. Slice(s, o, n) \in Seq(0..14) /\ Len(Slice(s, o, n)) = n
    BY <1>3, <1>4
  <1> QED
    BY <1>4, <1>5

\* Slices that follow each other make one.
LEMMA SlicesJoin ==
    ASSUME NEW s \in Seq(0..14), NEW o \in Nat, NEW n \in Nat, NEW m \in Nat
    PROVE  Slice(s, o, n) \o Slice(s, o + n, m) = Slice(s, o, n + m)
  <1> DEFINE a == Slice(s, o, n)
             b == Slice(s, o + n, m)
             c == Slice(s, o, n + m)
  <1>0. o + n \in Nat /\ n + m \in Nat
    OBVIOUS
  <1>1. /\ a \in Seq(0..14) /\ Len(a) = n
        /\ \A k \in 1..n : a[k] = Byte(s, o + k - 1)
    BY SliceType
  <1>2. /\ b \in Seq(0..14) /\ Len(b) = m
        /\ \A k \in 1..m : b[k] = Byte(s, o + n + k - 1)
    BY <1>0, SliceType
  <1>3. /\ c \in Seq(0..14) /\ Len(c) = n + m
        /\ \A k \in 1..n + m : c[k] = Byte(s, o + k - 1)
    BY <1>0, SliceType
  <1> HIDE DEF a, b, c
  <1>4. /\ a \o b \in Seq(0..14) /\ Len(a \o b) = n + m
        /\ \A k \in 1..n + m : (a \o b)[k] = IF k <= n THEN a[k] ELSE b[k - n]
    BY <1>1, <1>2, ConcatProperties
  <1>5. ASSUME NEW k \in 1..n + m PROVE (a \o b)[k] = c[k]
    <2>1. CASE k <= n
      <3>1. k \in 1..n
        BY <2>1
      <3> QED
        BY <1>1, <1>3, <1>4, <2>1, <3>1
    <2>2. CASE ~(k <= n)
      <3>1. k - n \in 1..m /\ o + n + (k - n) - 1 = o + k - 1
        BY <2>2
      <3>2. b[k - n] = Byte(s, o + k - 1)
        BY <1>2, <3>1
      <3> QED
        BY <1>3, <1>4, <2>2, <3>2
    <2> QED
      BY <2>1, <2>2
  <1> QED
    BY <1>3, <1>4, <1>5, SeqEqual DEF a, b, c

\* The bytes of the prefix are those of the string that it begins.
LEMMA PrefixSlice ==
    ASSUME NEW s \in Seq(0..14), NEW p \in Seq(0..14), Begins(p, s), Len(p) >= 3
    PROVE  SubSeq(p, 4, Len(p)) = Slice(s, 3, Len(p) - 3)
  <1> DEFINE n == Len(p)
             b == SubSeq(p, 4, n)
             c == Slice(s, 3, n - 3)
  <1>1. n \in Nat /\ n >= 3 /\ n - 3 \in Nat /\ n <= Len(s) /\ SubSeq(s, 1, n) = p
        /\ Len(s) \in Nat
    BY DEF Begins
  <1>2. /\ c \in Seq(0..14) /\ Len(c) = n - 3
        /\ \A k \in 1..n - 3 : c[k] = Byte(s, 3 + k - 1)
    BY <1>1, SliceType
  <1>3. \A k \in 1..n : p[k] = s[k]
    BY <1>1, FirstOf
  <1>4. /\ b \in Seq(0..14) /\ Len(b) = n - 3
        /\ \A k \in 1..n - 3 : b[k] = p[3 + k]
    <2>1. 4 \in Int /\ n \in Int /\ \A k \in 4..n : k \in 1..n
      BY <1>1
    <2>2. \A k \in 4..n : p[k] \in 0..14
      BY <2>1
    <2>3. /\ b \in Seq(0..14) /\ Len(b) = IF 4 <= n THEN n - 4 + 1 ELSE 0
          /\ \A k \in 1..n - 4 + 1 : b[k] = p[4 + k - 1]
      BY <2>1, <2>2, SubSeqProperties
    <2> HIDE DEF b, n
    <2>4. n - 4 + 1 = n - 3 /\ (~(4 <= n) => n - 3 = 0) /\ \A k \in 1..n - 3 : 4 + k - 1 = 3 + k
      BY <1>1
    <2> QED
      BY <1>1, <2>3, <2>4
  <1> HIDE DEF b, c, n
  <1>5. ASSUME NEW k \in 1..n - 3 PROVE b[k] = c[k]
    <2>1. 3 + k \in 1..n /\ 3 + k - 1 < Len(s) /\ 3 + k - 1 + 1 = 3 + k
      BY <1>1
    <2>2. Byte(s, 3 + k - 1) = s[3 + k]
      BY <2>1 DEF Byte
    <2> QED
      BY <1>2, <1>3, <1>4, <2>1, <2>2
  <1> QED
    BY <1>1, <1>2, <1>4, <1>5, SeqEqual DEF b, c, n

\* What Unhyphenated takes of each byte: nothing of a hyphen.
Kept(s) == [n \in 1..Len(s) |-> IF s[n] # HYPHEN THEN <<s[n]>> ELSE <<>>]

\* What is kept of a byte.
LEMMA KeptType ==
    ASSUME NEW s \in Seq(0..14)
    PROVE  /\ Kept(s) \in Seq(Seq(0..14)) /\ Len(Kept(s)) = Len(s)
           /\ \A n \in 1..Len(s) : Kept(s)[n] = IF s[n] # HYPHEN THEN <<s[n]>> ELSE <<>>
  <1>1. ASSUME NEW n \in 1..Len(s)
        PROVE  (IF s[n] # HYPHEN THEN <<s[n]>> ELSE <<>>) \in Seq(0..14)
    <2>1. s[n] \in 0..14
      OBVIOUS
    <2>2. <<s[n]>> \in Seq(0..14) /\ <<>> \in Seq(0..14)
      BY <2>1
    <2> QED
      BY <2>2
  <1>2. Len(s) \in Nat
    OBVIOUS
  <1> QED
    BY <1>1, <1>2 DEF Kept

\* Unhyphenated puts together what is kept of each byte.
LEMMA UnhyphenatedJoined ==
    ASSUME NEW s \in Seq(0..14)
    PROVE  H!Unhyphenated(s) = Joined(Kept(s))
  <1> DEFINE m == Len(s)
             p == Kept(s)
             Found(f) ==
                f = [n \in 0..m |-> IF n = 0 THEN <<>> ELSE f[n - 1] \o
                        IF s[n] # HYPHEN THEN <<s[n]>> ELSE <<>>]
             g == CHOOSE f : Found(f)
  <1>1. m \in Nat /\ Len(p) = m
        /\ \A n \in 1..m : p[n] = IF s[n] # HYPHEN THEN <<s[n]>> ELSE <<>>
    BY KeptType
  <1>2. H!Unhyphenated(s) = g[m]
    BY DEF H!Unhyphenated, H!HYPHEN, HYPHEN
  <1> HIDE DEF p
  <1>3. \A f : Found(f) <=> Folds(f, p)
    <2> SUFFICES ASSUME NEW f PROVE Found(f) <=> Folds(f, p)
      OBVIOUS
    <2>1. [n \in 0..m |-> IF n = 0 THEN <<>> ELSE f[n - 1] \o
                IF s[n] # HYPHEN THEN <<s[n]>> ELSE <<>>]
             = [n \in 0..m |-> IF n = 0 THEN <<>> ELSE f[n - 1] \o p[n]]
      BY <1>1
    <2> QED
      BY <1>1, <2>1 DEF Folds, FoldsTo
  <1>4. \E f : Folds(f, p)
    BY <1>1, FoldsExist
  <1>5. Folds(g, p)
    <2> HIDE DEF Found
    <2> QED
      BY <1>3, <1>4, Zenon
  <1> QED
    BY <1>1, <1>2, <1>5, FoldsJoin DEF p

\* Two texts can be rid of their hyphens each for itself.
LEMMA UnhyphenatedConcat ==
    ASSUME NEW s \in Seq(0..14), NEW t \in Seq(0..14)
    PROVE  H!Unhyphenated(s \o t) = H!Unhyphenated(s) \o H!Unhyphenated(t)
  <1> PICK u : u = s \o t
    OBVIOUS
  <1>1. /\ u \in Seq(0..14) /\ Len(u) = Len(s) + Len(t)
        /\ \A k \in 1..Len(s) + Len(t) : u[k] = IF k <= Len(s) THEN s[k] ELSE t[k - Len(s)]
        /\ Len(s) \in Nat /\ Len(t) \in Nat
    BY ConcatProperties
  <1> DEFINE a == Kept(s)
             b == Kept(t)
             c == Kept(u)
             One(x) == IF x # HYPHEN THEN <<x>> ELSE <<>>
  <1>2. a \in Seq(Seq(0..14)) /\ Len(a) = Len(s) /\ \A n \in 1..Len(s) : a[n] = One(s[n])
    BY KeptType
  <1>3. b \in Seq(Seq(0..14)) /\ Len(b) = Len(t) /\ \A n \in 1..Len(t) : b[n] = One(t[n])
    BY KeptType
  <1>4. c \in Seq(Seq(0..14)) /\ Len(c) = Len(u) /\ \A n \in 1..Len(u) : c[n] = One(u[n])
    BY <1>1, KeptType
  <1> HIDE DEF a, b, c, One
  <1>5. /\ a \o b \in Seq(Seq(0..14)) /\ Len(a \o b) = Len(a) + Len(b)
        /\ \A k \in 1..Len(a) + Len(b) :
              (a \o b)[k] = IF k <= Len(a) THEN a[k] ELSE b[k - Len(a)]
    <2> PICK E : E = Seq(0..14)
      OBVIOUS
    <2>1. a \in Seq(E) /\ b \in Seq(E)
      BY <1>2, <1>3
    <2> QED
      BY <2>1, ConcatProperties
  <1>6. ASSUME NEW k \in 1..Len(s) + Len(t) PROVE (a \o b)[k] = c[k]
    <2>1. CASE k <= Len(s)
      <3>1. k \in 1..Len(s)
        BY <1>1, <2>1
      <3> QED
        BY <1>1, <1>2, <1>3, <1>4, <1>5, <2>1, <3>1
    <2>2. CASE ~(k <= Len(s))
      <3>1. k - Len(s) \in 1..Len(t)
        BY <1>1, <2>2
      <3> QED
        BY <1>1, <1>2, <1>3, <1>4, <1>5, <2>2, <3>1
    <2> QED
      BY <2>1, <2>2
  <1>7. c = a \o b
    BY <1>1, <1>2, <1>3, <1>4, <1>5, <1>6, SeqEqual
  <1>8. Joined(c) = Joined(a) \o Joined(b)
    BY <1>2, <1>3, <1>7, JoinedConcat
  <1> QED
    BY <1>1, <1>8, UnhyphenatedJoined DEF a, b, c

\* Of a hyphen nothing is kept.
LEMMA HyphenGone ==
    ASSUME NEW s \in Seq(0..14)
    PROVE  /\ H!Unhyphenated(s) \in Seq(0..14)
           /\ s \o <<HYPHEN>> \in Seq(0..14)
           /\ H!Unhyphenated(s \o <<HYPHEN>>) = H!Unhyphenated(s)
  <1> PICK h : h = <<HYPHEN>>
    OBVIOUS
  <1>1. h \in Seq(0..14) /\ Len(h) = 1 /\ h[1] = HYPHEN
    BY DEF HYPHEN
  <1>2. Kept(h) = <<<<>>>>
    <2>1. /\ Kept(h) \in Seq(Seq(0..14)) /\ Len(Kept(h)) = 1
          /\ \A n \in 1..1 : Kept(h)[n] = IF h[n] # HYPHEN THEN <<h[n]>> ELSE <<>>
      BY <1>1, KeptType
    <2> PICK k, E : k = Kept(h) /\ E = Seq(0..14)
      OBVIOUS
    <2>2. k[1] = <<>>
      <3>1. 1 \in 1..1
        OBVIOUS
      <3> QED
        BY <1>1, <2>1, <3>1
    <2>3. k \in Seq(E) /\ Len(k) = 1
      BY <2>1
    <2>4. k = <<k[1]>>
      BY <2>3
    <2> QED
      BY <2>2, <2>4
  <1>3. H!Unhyphenated(h) = <<>>
    <2>1. <<>> \in Seq(0..14)
      OBVIOUS
    <2>2. Joined(<<<<>>>>) = <<>>
      BY <2>1, JoinedOne
    <2> QED
      BY <1>1, <1>2, <2>2, UnhyphenatedJoined
  <1>4. H!Unhyphenated(s) \in Seq(0..14)
    BY KeptType, UnhyphenatedJoined, JoinedType
  <1>5. H!Unhyphenated(s \o h) = H!Unhyphenated(s) \o H!Unhyphenated(h)
    BY <1>1, UnhyphenatedConcat
  <1>6. s \o h \in Seq(0..14)
    BY <1>1, ConcatProperties
  <1>7. H!Unhyphenated(s) \o <<>> = H!Unhyphenated(s)
    BY <1>4, ConcatEmptySeq
  <1> QED
    BY <1>3, <1>4, <1>5, <1>6, <1>7

\* Two fields with a hyphen between them.
LEMMA FieldJoin ==
    ASSUME NEW s \in Seq(0..14), NEW t \in Seq(0..14)
    PROVE  /\ (s \o <<HYPHEN>>) \o t \in Seq(0..14)
           /\ Len((s \o <<HYPHEN>>) \o t) = Len(s) + 1 + Len(t)
           /\ H!Unhyphenated((s \o <<HYPHEN>>) \o t) = H!Unhyphenated(s) \o H!Unhyphenated(t)
  <1> PICK r : r = s \o <<HYPHEN>>
    OBVIOUS
  <1>1. r \in Seq(0..14) /\ H!Unhyphenated(r) = H!Unhyphenated(s)
    BY HyphenGone
  <1>2. Len(r) = Len(s) + 1
    <2>1. <<HYPHEN>> \in Seq(0..14) /\ Len(<<HYPHEN>>) = 1
      BY DEF HYPHEN
    <2> QED
      BY <2>1, ConcatProperties
  <1>3. r \o t \in Seq(0..14) /\ Len(r \o t) = Len(r) + Len(t)
    BY <1>1, ConcatProperties
  <1>4. H!Unhyphenated(r \o t) = H!Unhyphenated(r) \o H!Unhyphenated(t)
    BY <1>1, UnhyphenatedConcat
  <1> QED
    BY <1>1, <1>2, <1>3, <1>4

\* What place_hyphens puts out: up to the last hyphen it is consecutive bytes
\* of the string.
LEMMA FieldsPlaced ==
    ASSUME NEW s \in Seq(0..14), NEW p \in Seq(0..14), Begins(p, s), Len(p) >= 3,
           NEW len \in 0..8
    PROVE  LET h == H!PlaceHyphens(s, len, p)
               n == Len(h) - 3
           IN  /\ Len(h) = Len(p) + 14
               /\ H!Unhyphenated(SubSeq(h, 1, n)) = H!Unhyphenated(H!Slice(s, 0, n - 3))
  <1> PICK m, group, from, rest : m = Len(p) /\ group = m - 3 /\ from = m + len /\ rest = 8 - len
    OBVIOUS
  <1> DEFINE a == Slice(s, 0, 3)
             b == Slice(s, 3, group)
             c == Slice(s, m, len)
             d == Slice(s, from, rest)
             e == Slice(s, 12, 1)
             t == ((((((a \o <<HYPHEN>>) \o b) \o <<HYPHEN>>) \o c) \o <<HYPHEN>>) \o d)
             h == H!PlaceHyphens(s, len, p)
  <1>1. /\ m \in Nat /\ group \in Nat /\ len \in Nat /\ rest \in Nat /\ from \in Nat
        /\ 3 + group = m /\ m + len = from /\ from + rest = m + 8
    BY SMT
  <1>0. /\ 0 \in Nat /\ 3 \in Nat /\ 12 \in Nat /\ 1 \in Nat /\ m \in Nat /\ group \in Nat
        /\ len \in Nat /\ rest \in Nat /\ from \in Nat
    BY <1>1
  <1>10. \A o, n \in Nat : Slice(s, o, n) \in Seq(0..14) /\ Len(Slice(s, o, n)) = n
    BY SliceType
  <1>11. \A n, k \in Nat : Slice(s, 0, n) \o Slice(s, 0 + n, k) = Slice(s, 0, n + k)
    BY <1>0, SlicesJoin
  <1>2. /\ a \in Seq(0..14) /\ Len(a) = 3
        /\ b \in Seq(0..14) /\ Len(b) = group
        /\ c \in Seq(0..14) /\ Len(c) = len
        /\ d \in Seq(0..14) /\ Len(d) = rest
        /\ e \in Seq(0..14) /\ Len(e) = 1
    BY <1>0, <1>10, Zenon
  <1>3. \A o, n : H!Slice(s, o, n) = Slice(s, o, n)
    BY DEF H!Slice, Slice, H!Byte, Byte, H!EOS, EOS, H!JUNK, JUNK
  <1>4. h = ((t \o <<HYPHEN>>) \o e) \o <<EOS>>
    <2>1. SubSeq(p, 4, m) = b
      BY PrefixSlice
    <2>2. h = Slice(s, 0, 3) \o <<HYPHEN>> \o SubSeq(p, 4, m)
                \o <<HYPHEN>> \o Slice(s, 3 + (m - 3), len)
                \o <<HYPHEN>> \o Slice(s, 3 + (m - 3) + len, 8 - len)
                \o <<HYPHEN>> \o Slice(s, 12, 1) \o <<EOS>>
      BY <1>3 DEF H!PlaceHyphens, H!Publication, H!HYPHEN, HYPHEN, H!EOS, EOS
    <2>3. m - 3 = group /\ 3 + group + len = from /\ 8 - len = rest
      BY <1>1
    <2> QED
      BY <1>1, <2>1, <2>2, <2>3
  <1> HIDE DEF h
  <1>5. /\ t \in Seq(0..14) /\ Len(t) = m + 11
        /\ H!Unhyphenated(t) = ((H!Unhyphenated(a) \o H!Unhyphenated(b))
                                \o H!Unhyphenated(c)) \o H!Unhyphenated(d)
    <2> DEFINE t1 == (a \o <<HYPHEN>>) \o b
               t2 == (t1 \o <<HYPHEN>>) \o c
               t3 == (t2 \o <<HYPHEN>>) \o d
    <2>0. t = t3
      OBVIOUS
    <2> HIDE DEF a, b, c, d
    <2>1. /\ t1 \in Seq(0..14) /\ Len(t1) = 3 + 1 + group
          /\ H!Unhyphenated(t1) = H!Unhyphenated(a) \o H!Unhyphenated(b)
      <3>1. /\ t1 \in Seq(0..14) /\ Len(t1) = Len(a) + 1 + Len(b)
            /\ H!Unhyphenated(t1) = H!Unhyphenated(a) \o H!Unhyphenated(b)
        BY <1>2, FieldJoin
      <3> QED
        BY <1>2, <3>1
    <2> HIDE DEF t1
    <2>2. /\ t2 \in Seq(0..14) /\ Len(t2) = Len(t1) + 1 + len
          /\ H!Unhyphenated(t2) = H!Unhyphenated(t1) \o H!Unhyphenated(c)
      BY <1>2, <2>1, FieldJoin
    <2> HIDE DEF t2
    <2>3. /\ t3 \in Seq(0..14) /\ Len(t3) = Len(t2) + 1 + rest
          /\ H!Unhyphenated(t3) = H!Unhyphenated(t2) \o H!Unhyphenated(d)
      BY <1>2, <2>2, FieldJoin
    <2> HIDE DEF t3, t
    <2>4. Len(t3) = m + 11
      BY <1>1, <2>1, <2>2, <2>3
    <2> QED
      BY <2>0, <2>1, <2>2, <2>3, <2>4
  <1>6. H!Unhyphenated(t) = H!Unhyphenated(Slice(s, 0, m + 8))
    <2> DEFINE s1 == a \o b
               s2 == s1 \o c
               s3 == s2 \o d
    <2>1. s1 = Slice(s, 0, m)
      <3>1. Slice(s, 0, 3) \o Slice(s, 0 + 3, group) = Slice(s, 0, 3 + group)
        BY <1>0, <1>11, Zenon
      <3>2. 0 + 3 = 3
        OBVIOUS
      <3> QED
        BY <1>1, <3>1, <3>2
    <2>2. s2 = Slice(s, 0, from)
      <3>1. Slice(s, 0, m) \o Slice(s, 0 + m, len) = Slice(s, 0, m + len)
        BY <1>0, <1>11, Zenon
      <3>2. 0 + m = m
        BY <1>1
      <3> QED
        BY <1>1, <2>1, <3>1, <3>2
    <2>3. s3 = Slice(s, 0, m + 8)
      <3>1. Slice(s, 0, from) \o Slice(s, 0 + from, rest) = Slice(s, 0, from + rest)
        BY <1>0, <1>11, Zenon
      <3>2. 0 + from = from
        BY <1>1
      <3> QED
        BY <1>1, <2>2, <3>1, <3>2
    <2> HIDE DEF a, b, c, d, t
    <2>4. s1 \in Seq(0..14) /\ H!Unhyphenated(s1) = H!Unhyphenated(a) \o H!Unhyphenated(b)
      BY <1>2, UnhyphenatedConcat, ConcatProperties
    <2> HIDE DEF s1
    <2>5. s2 \in Seq(0..14) /\ H!Unhyphenated(s2) = H!Unhyphenated(s1) \o H!Unhyphenated(c)
      BY <1>2, <2>4, UnhyphenatedConcat, ConcatProperties
    <2> HIDE DEF s2
    <2>6. H!Unhyphenated(s3) = H!Unhyphenated(s2) \o H!Unhyphenated(d)
      BY <1>2, <2>5, UnhyphenatedConcat
    <2> QED
      BY <1>5, <2>3, <2>4, <2>5, <2>6
  <1> HIDE DEF a, b, c, d, e, t
  <1>7. Len(h) = m + 14 /\ SubSeq(h, 1, m + 11) = t
    <2> DEFINE r1 == t \o <<HYPHEN>>
               r2 == r1 \o e
               r3 == r2 \o <<EOS>>
    <2>1. /\ <<HYPHEN>> \in Seq(0..14) /\ Len(<<HYPHEN>>) = 1
          /\ <<EOS>> \in Seq(0..14) /\ Len(<<EOS>>) = 1
      BY DEF HYPHEN, EOS
    <2>2. r1 \in Seq(0..14) /\ Len(r1) = m + 12 /\ \A k \in 1..m + 11 : r1[k] = t[k]
      BY <1>1, <1>5, <2>1, ConcatProperties
    <2> HIDE DEF r1
    <2>3. r2 \in Seq(0..14) /\ Len(r2) = m + 13 /\ \A k \in 1..m + 12 : r2[k] = r1[k]
      <3>1. e \in Seq(0..14) /\ Len(e) = 1
        BY <1>2
      <3>2. /\ r2 \in Seq(0..14) /\ Len(r2) = Len(r1) + Len(e)
            /\ \A k \in 1..Len(r1) + Len(e) :
                  r2[k] = IF k <= Len(r1) THEN r1[k] ELSE e[k - Len(r1)]
        BY <2>2, <3>1, ConcatProperties
      <3>3. \A k \in 1..m + 12 : k \in 1..m + 12 + 1 /\ k <= m + 12
        BY <1>1
      <3> QED
        BY <1>1, <2>2, <3>1, <3>2, <3>3
    <2> HIDE DEF r2
    <2>4. r3 \in Seq(0..14) /\ Len(r3) = m + 14 /\ \A k \in 1..m + 13 : r3[k] = r2[k]
      BY <1>1, <2>1, <2>3, ConcatProperties
    <2>5. h = r3
      BY <1>4 DEF r1, r2
    <2> HIDE DEF r3
    <2>6. \A k \in 1..m + 11 : r3[k] = t[k] /\ k \in 1..m + 12 /\ k \in 1..m + 13
      <3>1. \A k \in 1..m + 11 : k \in 1..m + 12 /\ k \in 1..m + 13
        BY <1>1
      <3> QED
        BY <2>2, <2>3, <2>4, <3>1
    <2>7. m + 11 \in 0..Len(r3)
      BY <1>1, <2>4
    <2>8. /\ SubSeq(r3, 1, m + 11) \in Seq(0..14) /\ Len(SubSeq(r3, 1, m + 11)) = m + 11
          /\ \A k \in 1..m + 11 : SubSeq(r3, 1, m + 11)[k] = r3[k]
      BY <2>4, <2>7, FirstOf
    <2>9. SubSeq(r3, 1, m + 11) = t
      BY <1>5, <2>6, <2>8, SeqEqual
    <2> QED
      BY <2>4, <2>5, <2>9
  <1>8. m + 14 - 3 = m + 11 /\ m + 11 - 3 = m + 8
    BY <1>1
  <1>9. H!Unhyphenated(SubSeq(h, 1, m + 11)) = H!Unhyphenated(H!Slice(s, 0, m + 8))
    BY <1>3, <1>6, <1>7
  <1> QED
    BY <1>7, <1>8, <1>9 DEF h

\* Bytes stay within the alphabet, so that what is placed is what FieldsPlaced
\* speaks of.
LEMMA BytesAreBytes == Seq(Char) \subseteq Seq(0..14)
  BY BytesAssumption, SeqMonotonic

\* The fields that place_hyphens writes are the string's own bytes in their
\* order, none skipped and none twice, up to the check digit: for every document,
\* every group of three digits or more (with 978) and every string.
THEOREM FieldsConsecutive == InfoSpec => []ConsecutiveFields
  <1>1. InfoIInv => ConsecutiveFields
    <2> SUFFICES ASSUME InfoIInv, hpc = "idle", rc = "OK"
                 PROVE  LET n == Len(hbuf) - 3
                        IN  H!Unhyphenated(SubSeq(hbuf, 1, n))
                                = H!Unhyphenated(H!Slice(isbn, 0, n - 3))
      BY DEF ConsecutiveFields, H!ConsecutiveFields, H!Answered
    <2>1. Placed
      BY DEF InfoIInv
    <2>2. PICK p \in Seq(Char), len \in 0..8 :
            /\ isbn \in Seq(Char) /\ Len(p) >= 3 /\ Begins(p, isbn)
            /\ hbuf = H!PlaceHyphens(isbn, len, p)
      <3> DEFINE q == prefixes[pfx].prefix
      <3>1. /\ isbn \in Seq(Char) /\ q \in Seq(Char) /\ Len(q) >= 3 /\ Begins(q, isbn)
            /\ \E len \in 0..8 : hbuf = H!PlaceHyphens(isbn, len, q)
        BY <2>1 DEF Placed
      <3> HIDE DEF q
      <3> QED
        BY <3>1, Zenon
    <2>3. isbn \in Seq(0..14) /\ p \in Seq(0..14)
      BY <2>2, BytesAreBytes
    <2> QED
      BY <2>2, <2>3, FieldsPlaced
  <1> QED
    BY <1>1, InfoInvariance, PTL

\* The prefixes of the table are as short as the document's.
ShortEntries == \A k \in 1..prefix_nr : Len(prefixes[k].prefix) < ARRAY_SIZE

\* What add_prefix enters is no longer than the text of the element.
LEMMA EntriesStep ==
    ASSUME TableIInv, ShortTexts, ShortEntries, TNext
    PROVE  ShortEntries'
  <1>1. Sequence(prefixes) /\ prefix_nr \in Nat
    BY CurNat DEF TableIInv, TablesHold
  <1>2. CASE AddPrefix
    <2>1. tpc = "prefix" /\ prefixes' = Append(prefixes, NewEntry)
      BY <1>2 DEF AddPrefix
    <2>2. Len(NewEntry.prefix) < ARRAY_SIZE
      <3>1. cur_prefix \in Seq(0..14) /\ Len(cur_prefix) < ARRAY_SIZE
        BY <2>1 DEF ShortTexts
      <3>2. NewEntry.prefix \in Seq(Digit) /\ Len(NewEntry.prefix) <= Len(cur_prefix)
        BY <3>1, NumericDigits DEF NewEntry
      <3>3. Len(NewEntry.prefix) \in Nat /\ Len(cur_prefix) \in Nat
        BY <3>1, <3>2, LenProperties
      <3> QED
        BY <3>1, <3>2, <3>3 DEF ARRAY_SIZE
    <2>3. /\ Len(prefixes') = prefix_nr + 1 /\ prefixes'[prefix_nr + 1] = NewEntry
          /\ \A k \in 1..prefix_nr : prefixes'[k] = prefixes[k]
      BY <1>1, <2>1, AppendSequence DEF prefix_nr
    <2>4. prefix_nr' = prefix_nr + 1
      BY <2>3 DEF prefix_nr
    <2>5. ASSUME NEW k \in 1..prefix_nr + 1
          PROVE  Len(prefixes'[k].prefix) < ARRAY_SIZE
      <3>1. k = prefix_nr + 1 \/ k \in 1..prefix_nr
        BY <1>1
      <3> QED
        BY <2>2, <2>3, <3>1 DEF ShortEntries
    <2> QED
      BY <2>4, <2>5 DEF ShortEntries, ARRAY_SIZE
  <1>3. CASE ~AddPrefix
    <2>1. UNCHANGED <<prefixes, prefix_nr>>
      BY <1>3 DEF TNext, ParseDoc, Descend, ReadText, PassOver, RefuseRule, AddRule, Ascend,
                  LeaveGroup, RefusePrefix, EndOfDocument, entries, prefix_nr
    <2> QED
      BY <2>1 DEF ShortEntries
  <1> QED
    BY <1>2, <1>3

\* place_hyphens asks for 18 bytes and writes 14 and the prefix: a buffer that
\* takes 13 bytes more than numeric_prefix (the callers' 32 do) is enough for
\* any document whose prefixes numeric_prefix has room for.
THEOREM BufferSuffices ==
    ASSUME ShortPrefixes, BufSize \in Nat, BufSize >= ARRAY_SIZE + 13
    PROVE  InfoSpec => []BufferHolds
  <1>1. TInit => ShortEntries
    BY DEF TInit, ShortEntries, prefix_nr
  <1>2. TableIInv /\ ShortTexts /\ ShortEntries /\ [TNext]_tvars => ShortEntries'
    <2>1. UNCHANGED tvars /\ ShortEntries => ShortEntries'
      BY DEF tvars, ShortEntries, prefix_nr
    <2> QED
      BY <2>1, EntriesStep
  <1>3. InfoIInv /\ ShortEntries => BufferHolds
    <2> SUFFICES ASSUME InfoIInv, ShortEntries PROVE Len(hbuf) <= BufSize
      BY DEF BufferHolds, H!BufferHolds
    <2>1. Placed
      BY DEF InfoIInv
    <2>2. CASE hbuf = <<>>
      <3>1. Len(hbuf) = 0
        BY <2>2
      <3> QED
        BY <3>1
    <2>3. CASE hbuf # <<>>
      <3>1. PICK p \in Seq(Char), len \in 0..8 :
              /\ isbn \in Seq(Char) /\ Len(p) >= 3 /\ Begins(p, isbn)
              /\ hbuf = H!PlaceHyphens(isbn, len, p) /\ Len(p) < ARRAY_SIZE
        <4> DEFINE q == prefixes[pfx].prefix
        <4>1. /\ isbn \in Seq(Char) /\ q \in Seq(Char) /\ Len(q) >= 3 /\ Begins(q, isbn)
              /\ \E len \in 0..8 : hbuf = H!PlaceHyphens(isbn, len, q)
              /\ Len(q) < ARRAY_SIZE
          BY <2>1, <2>3 DEF Placed, ShortEntries
        <4> HIDE DEF q
        <4> QED
          BY <4>1, Zenon
      <3>2. isbn \in Seq(0..14) /\ p \in Seq(0..14)
        BY <3>1, BytesAreBytes
      <3>3. Len(hbuf) = Len(p) + 14
        BY <3>1, <3>2, FieldsPlaced
      <3>4. Len(p) \in Nat
        BY <3>2
      <3> QED
        BY <3>1, <3>3, <3>4 DEF ARRAY_SIZE
    <2> QED
      BY <2>2, <2>3
  <1>4. TSpec => []ShortEntries
    BY <1>1, <1>2, TextsInvariance, TableInvariance, PTL DEF TSpec
  <1> QED
    BY <1>3, <1>4, InfoInvariance, TableSteps, PTL

-----------------------------------------------------------------------------
\* Whose the ranges are.  The rules of the first g groups, in the order of the
\* document.
RulesUpTo(g) == Named(Named(SubSeq(DocGroups, 1, g), "Rules"), "Rule")

\* parseGroup is under way.
InGroup == Len(frames) >= 3

\* A range in the table is that of a rule of its group; when a group begins, the
\* rules of those before it are in the table.
RangeGroups ==
    /\ OnCourse /\ InGroup =>
          source.group >= 1 /\ Len(RulesUpTo(source.group - 1)) <= rule_nr
    /\ \A r \in 1..rule_nr :
          LET g == source.ranges[r]
          IN  /\ g \in 1..Len(DocGroups)
              /\ Len(RulesUpTo(g - 1)) < r /\ r <= Len(RulesUpTo(g))

\* The rules of two lists of groups are those of the first, then of the second.
LEMMA RulesConcat ==
    \A s, t \in Seq(Elements) :
        /\ Named(Named(s, "Rules"), "Rule") \in Seq(Elements)
        /\ Named(Named(s \o t, "Rules"), "Rule")
             = Named(Named(s, "Rules"), "Rule") \o Named(Named(t, "Rules"), "Rule")
  <1> SUFFICES ASSUME NEW s \in Seq(Elements), NEW t \in Seq(Elements)
               PROVE  /\ Named(Named(s, "Rules"), "Rule") \in Seq(Elements)
                      /\ Named(Named(s \o t, "Rules"), "Rule")
                           = Named(Named(s, "Rules"), "Rule") \o Named(Named(t, "Rules"), "Rule")
    OBVIOUS
  <1>1. Named(s, "Rules") \in Seq(Elements) /\ Named(t, "Rules") \in Seq(Elements)
    BY NamedType, OfElements
  <1>2. Named(Named(s, "Rules"), "Rule") \in Seq(Elements)
    BY <1>1, NamedType, OfElements
  <1>3. Named(s \o t, "Rules") = Named(s, "Rules") \o Named(t, "Rules")
    BY NamedConcat
  <1> DEFINE Rules(x) == Named(x, "Rule")
  <1>4. \A a, b \in Seq(Elements) : Rules(a \o b) = Rules(a) \o Rules(b)
    BY NamedConcat
  <1>5. Rules(Named(s, "Rules") \o Named(t, "Rules"))
          = Rules(Named(s, "Rules")) \o Rules(Named(t, "Rules"))
    <2> HIDE DEF Rules
    <2> QED
      BY <1>1, <1>4, Zenon
  <1> QED
    BY <1>2, <1>3, <1>5

\* The document's rules are those of its first groups, then those of the rest.
LEMMA RulesSplit ==
    ASSUME doc.root \in Elements, NEW g \in 0..Len(DocGroups)
    PROVE  /\ RulesUpTo(g) \in Seq(Elements)
           /\ Rest(DocGroups, g) \in Seq(Elements)
           /\ Named(Named(Rest(DocGroups, g), "Rules"), "Rule") \in Seq(Elements)
           /\ DocRules = RulesUpTo(g) \o Named(Named(Rest(DocGroups, g), "Rules"), "Rule")
  <1> DEFINE n == Len(DocGroups)
             s == SubSeq(DocGroups, 1, g)
             t == SubSeq(DocGroups, g + 1, n)
  <1>1. DocGroups \in Seq(Elements) /\ n \in Nat /\ g \in Nat /\ g <= n
    BY DocTypes, LenProperties
  <1>2. s \in Seq(Elements) /\ t \in Seq(Elements)
    BY <1>1
  <1>3. DocGroups = s \o t
    <2>1. SubSeq(DocGroups, 1, n) = DocGroups
      BY <1>1, SubSeqFull
    <2>2. 1 \in 1..n + 1 /\ g \in 1 - 1..n /\ n \in g..n
      BY <1>1
    <2>3. s \o t = SubSeq(DocGroups, 1, n)
      BY <1>1, <2>2, ConcatAdjacentSubSeq
    <2> QED
      BY <2>1, <2>3
  <1> HIDE DEF s, t
  <1>4. DocRules = Named(Named(s, "Rules"), "Rule") \o Named(Named(t, "Rules"), "Rule")
    BY <1>2, <1>3, RulesConcat DEF DocRules
  <1> QED
    BY <1>2, <1>4, RulesConcat DEF RulesUpTo, Rest, s, t

\* One group more has its rules behind the others.
LEMMA RulesUpToNext ==
    ASSUME doc.root \in Elements, NEW g \in 1..Len(DocGroups)
    PROVE  /\ DocGroups[g] \in Elements
           /\ RulesUpTo(g - 1) \in Seq(Elements)
           /\ RulesOf(DocGroups[g]) \in Seq(Elements)
           /\ RulesUpTo(g) = RulesUpTo(g - 1) \o RulesOf(DocGroups[g])
  <1> DEFINE s == SubSeq(DocGroups, 1, g - 1)
             e == DocGroups[g]
  <1>1. DocGroups \in Seq(Elements) /\ e \in Elements
    BY DocTypes
  <1>2. g \in Nat /\ Len(DocGroups) \in Nat /\ g >= 1 /\ g <= Len(DocGroups)
        /\ g - 1 \in 0..Len(DocGroups)
    BY <1>1
  <1>3. s \in Seq(Elements) /\ <<e>> \in Seq(Elements)
    BY <1>1, <1>2
  <1>4. SubSeq(DocGroups, 1, g) = s \o <<e>>
    <2>1. 1 \in 1..Len(DocGroups) /\ g \in 1..Len(DocGroups)
      BY <1>2
    <2> QED
      BY <1>1, <2>1, SubSeqRecursiveSecond
  <1> HIDE DEF s, e
  <1>5. RulesUpTo(g) = Named(Named(s, "Rules"), "Rule") \o Named(Named(<<e>>, "Rules"), "Rule")
    BY <1>3, <1>4, RulesConcat DEF RulesUpTo
  <1> QED
    BY <1>1, <1>3, <1>5, RulesConcat DEF RulesUpTo, RulesOf, s, e

\* More groups have no fewer rules.
LEMMA RulesUpToGrows ==
    ASSUME doc.root \in Elements
    PROVE  /\ \A g \in 0..Len(DocGroups) : Len(RulesUpTo(g)) \in Nat
           /\ \A g, h \in 0..Len(DocGroups) : g <= h => Len(RulesUpTo(g)) <= Len(RulesUpTo(h))
  <1>1. DocGroups \in Seq(Elements) /\ Len(DocGroups) \in Nat
    BY DocTypes, LenProperties
  <1>2. \A g \in 0..Len(DocGroups) : Len(RulesUpTo(g)) \in Nat
    BY RulesSplit, LenProperties
  <1>3. ASSUME NEW g \in 0..Len(DocGroups), NEW h \in 0..Len(DocGroups), g <= h
        PROVE  Len(RulesUpTo(g)) <= Len(RulesUpTo(h))
    <2> DEFINE s == SubSeq(DocGroups, 1, g)
               t == SubSeq(DocGroups, g + 1, h)
    <2>1. s \in Seq(Elements) /\ t \in Seq(Elements)
      BY <1>1
    <2>2. SubSeq(DocGroups, 1, h) = s \o t
      <3>1. 1 \in 1..h + 1 /\ g \in 1 - 1..h /\ h \in Nat /\ h <= Len(DocGroups)
        BY <1>1, <1>3
      <3> QED
        BY <1>1, <3>1, ConcatAdjacentSubSeq
    <2> HIDE DEF s, t
    <2>3. RulesUpTo(h) = Named(Named(s, "Rules"), "Rule") \o Named(Named(t, "Rules"), "Rule")
      BY <2>1, <2>2, RulesConcat DEF RulesUpTo
    <2>4. /\ Named(Named(s, "Rules"), "Rule") \in Seq(Elements)
          /\ Named(Named(t, "Rules"), "Rule") \in Seq(Elements)
      BY <2>1, RulesConcat
    <2>5. RulesUpTo(g) = Named(Named(s, "Rules"), "Rule")
      BY DEF RulesUpTo, s
    <2> QED
      BY <2>3, <2>4, <2>5
  <1> QED
    BY <1>2, <1>3

\* As many rules were begun as the groups so far have; within a group some of
\* its own may be missing.
LEMMA RulesSoFar ==
    ASSUME TableIInv, Lists, GroupsInOrder, RulesInOrder, OnCourse
    PROVE  /\ doc.root \in Elements /\ source.group \in 0..Len(DocGroups)
           /\ Begun \in Nat
           /\ Begun <= Len(RulesUpTo(source.group))
           /\ ~InGroup => Begun = Len(RulesUpTo(source.group))
  <1> DEFINE g == source.group
             inner == Matching(Todo(4), "Rule")
             outer == Named(Matching(Todo(3), "Rules"), "Rule")
             later == Named(Named(LeftGroups, "Rules"), "Rule")
  <1>1. /\ doc.root \in Elements /\ g \in 0..Len(DocGroups)
        /\ Rest(DocGroups, g) = LeftGroups
        /\ Begun \in 0..Len(DocRules) /\ Rest(DocRules, Begun) = LeftRules
    BY DEF Lists, GroupsInOrder, RulesInOrder
  <1>2. DocRules \in Seq(Elements) /\ Len(DocRules) \in Nat
    BY <1>1, DocTypes, LenProperties
  <1>3. Begun \in Nat /\ Len(LeftRules) = Len(DocRules) - Begun
    <2> PICK b : b = Begun
      OBVIOUS
    <2>1. b \in Nat /\ b <= Len(DocRules)
      BY <1>1, <1>2
    <2>2. Len(SubSeq(DocRules, b + 1, Len(DocRules))) = Len(DocRules) - b
      BY <1>2, <2>1
    <2> QED
      BY <1>1, <2>1, <2>2 DEF Rest
  <1>4. /\ RulesUpTo(g) \in Seq(Elements) /\ later \in Seq(Elements)
        /\ DocRules = RulesUpTo(g) \o later
    BY <1>1, RulesSplit
  <1>5. Todo(3) \in Seq(Elements) /\ Todo(4) \in Seq(Elements)
    BY DEF Lists
  <1>6. inner \in Seq(Elements) /\ outer \in Seq(Elements)
    <2>1. inner \in Seq(Elements) /\ Matching(Todo(3), "Rules") \in Seq(Elements)
      BY <1>5, MatchingType, OfElements
    <2> QED
      BY <2>1, NamedType, OfElements
  <1>7. LeftRules = inner \o (outer \o later)
    BY DEF LeftRules, RulesIn
  <1> HIDE DEF inner, outer, later
  <1>8. Len(LeftRules) = Len(inner) + (Len(outer) + Len(later))
    <2>1. outer \o later \in Seq(Elements) /\ Len(outer \o later) = Len(outer) + Len(later)
      BY <1>4, <1>6, ConcatProperties
    <2> QED
      BY <1>6, <1>7, <2>1, ConcatProperties
  <1>9. Len(DocRules) = Len(RulesUpTo(g)) + Len(later)
    BY <1>4, ConcatProperties
  <1>10. /\ Len(inner) \in Nat /\ Len(outer) \in Nat /\ Len(later) \in Nat
         /\ Len(RulesUpTo(g)) \in Nat
    BY <1>4, <1>6, LenProperties
  <1>11. Begun + Len(inner) + Len(outer) = Len(RulesUpTo(g))
    BY <1>2, <1>3, <1>8, <1>9, <1>10
  <1>12. ASSUME ~InGroup PROVE Len(inner) = 0 /\ Len(outer) = 0
    <2>1. Len(frames) \in 0..5
      BY DEF TableIInv, Nested, Chain
    <2>2. Todo(3) = <<>> /\ Todo(4) = <<>>
      BY <1>12, <2>1 DEF Todo, InGroup
    <2>3. inner = <<>> /\ outer = <<>>
      BY <2>2, MatchingNone, NamedNone DEF inner, outer
    <2> QED
      BY <2>3
  <1> QED
    BY <1>1, <1>3, <1>10, <1>11, <1>12

\* Steps to and within a group.
LEMMA GroupEntered ==
    ASSUME TableIInv, TNext, OnCourse', InGroup'
    PROVE  OnCourse /\ (InGroup \/ (Descend /\ Len(frames) = 2))
  <1>1. Nested
    BY DEF TableIInv
  <1>2. InGroup \/ (Descend /\ Len(frames) = 2)
    <2>1. Len(frames') >= 3
      BY DEF InGroup
    <2>2. Len(frames) >= 3 \/ (Descend /\ Len(frames) = 2)
      BY <1>1, <2>1, IntoGroup
    <2> QED
      BY <2>2 DEF InGroup
  <1>3. OnCourse
    <2>1. CASE ParseDoc
      <3>1. tpc = "doc"
        BY <2>1 DEF ParseDoc
      <3>2. Len(frames) = 0
        BY <1>1, <3>1 DEF Nested
      <3> QED
        BY <1>2, <3>2 DEF InGroup
    <2> QED
      BY <2>1, OnTheWay
  <1> QED
    BY <1>2, <1>3 DEF InGroup

\* What a step adds to the range table, and whose it is.
LEMMA RangesAdded ==
    ASSUME TableIInv, TNext
    PROVE  /\ Len(source.ranges) = rule_nr /\ source.ranges \in Seq(Nat) /\ rule_nr \in Nat
           /\ IF AddRule
              THEN /\ source'.ranges = Append(source.ranges, source.group)
                   /\ rule_nr' = rule_nr + 1 /\ source'.group = source.group
              ELSE source'.ranges = source.ranges /\ rule_nr' = rule_nr
  <1>1. /\ source \in [group : Nat, ranges : Seq(Nat), prefixes : Seq(Nat)]
        /\ Len(source.ranges) = rule_nr /\ source.ranges \in Seq(Nat) /\ rule_nr \in Nat
    BY CurNat DEF TableIInv, Counts
  <1>2. CASE AddRule
    <2>1. source' = [source EXCEPT !.ranges = Append(@, source.group)]
      BY <1>2 DEF AddRule, StoreRule
    <2>2. rule_nr' = rule_nr + 1
      <3> PICK e : ranges' = Append(ranges, e)
        BY <1>2 DEF AddRule, StoreRule
      <3> QED
        BY AppendSequence DEF TableIInv, TablesHold, rule_nr
    <2> QED
      BY <1>1, <1>2, <2>1, <2>2
  <1>3. CASE ~AddRule
    <2>1. /\ UNCHANGED ranges
          /\ \/ UNCHANGED source
             \/ source' = [source EXCEPT !.prefixes = Append(@, source.group)]
             \/ source' = [source EXCEPT !.group = @ + IF Cur.name = "Group" THEN 1 ELSE 0]
      BY <1>3 DEF TNext, ParseDoc, Descend, ReadText, PassOver, RefuseRule, AddPrefix,
             Ascend, LeaveGroup, RefusePrefix, EndOfDocument, entries, rules
    <2>2. source'.ranges = source.ranges
      BY <1>1, <2>1
    <2> QED
      BY <1>1, <1>3, <2>1, <2>2 DEF rule_nr
  <1> QED
    BY <1>2, <1>3

\* The document stays.
LEMMA DocKept ==
    ASSUME TNext
    PROVE  /\ doc' = doc /\ DocGroups' = DocGroups /\ DocRules' = DocRules
           /\ \A g : RulesUpTo(g)' = Named(Named(SubSeq(DocGroups, 1, g'), "Rules"), "Rule")
  <1>1. doc' = doc
    BY DEF TNext, ParseDoc, Descend, ReadText, PassOver, RefuseRule, AddRule, Ascend,
           LeaveGroup, AddPrefix, RefusePrefix, EndOfDocument
  <1>2. DocGroups' = DocGroups /\ DocRules' = DocRules
    BY <1>1 DEF DocGroups, DocRules
  <1> QED
    BY <1>1, <1>2 DEF RulesUpTo

\* The ranges of the table lie among those of their group.
LEMMA RangeGroupsStep ==
    ASSUME TableIInv, Lists, GroupsInOrder, RulesInOrder, RangeGroups, TNext
    PROVE  RangeGroups'
  <1> DEFINE Count(g) == Len(RulesUpTo(g))
             Within(g, r) == g \in 1..Len(DocGroups) /\ Count(g - 1) < r /\ r <= Count(g)
  <1>1. \A r \in 1..rule_nr : Within(source.ranges[r], r)
    BY DEF RangeGroups
  <1>2. OnCourse /\ InGroup => source.group >= 1 /\ Count(source.group - 1) <= rule_nr
    BY DEF RangeGroups
  <1>3. SUFFICES /\ \A r \in 1..rule_nr' : Within(source'.ranges[r], r)
                 /\ OnCourse' /\ InGroup' =>
                       source'.group >= 1 /\ Count(source'.group - 1) <= rule_nr'
    BY DocKept DEF RangeGroups, RulesUpTo
  <1>4. /\ Len(source.ranges) = rule_nr /\ source.ranges \in Seq(Nat) /\ rule_nr \in Nat
        /\ IF AddRule
           THEN /\ source'.ranges = Append(source.ranges, source.group)
                /\ rule_nr' = rule_nr + 1 /\ source'.group = source.group
           ELSE source'.ranges = source.ranges /\ rule_nr' = rule_nr
    BY RangesAdded
  <1>5. /\ source.group \in Nat
        /\ source'.group = IF Descend /\ Len(frames) = 2 THEN source.group + 1
                           ELSE source.group
    BY GroupCount
  <1>6. ASSUME OnCourse
        PROVE  /\ source.group \in 0..Len(DocGroups) /\ Len(DocGroups) \in Nat
               /\ Begun \in Nat /\ Begun <= Count(source.group)
               /\ ~InGroup => Begun = Count(source.group)
               /\ \A g \in 0..Len(DocGroups) : Count(g) \in Nat
    <2>1. doc.root \in Elements
      BY <1>6, RulesSoFar
    <2>2. Len(DocGroups) \in Nat
      BY <2>1, DocTypes, LenProperties
    <2> QED
      BY <1>6, <2>1, <2>2, RulesSoFar, RulesUpToGrows
  <1> HIDE DEF Count
  <1>7. \A r \in 1..rule_nr' : Within(source'.ranges[r], r)
    <2>1. CASE AddRule
      <3>1. OnCourse /\ Len(frames) = 5 /\ InGroup
        <4>1. Leaving({"Rule"})
          BY <2>1 DEF AddRule
        <4>2. tpc = "walk" /\ Len(frames) = 5
          BY <4>1, LeavingDepth DEF TableIInv
        <4> QED
          BY <4>2 DEF OnCourse, InGroup
      <3>2. Begun = rule_nr + 1
        BY <3>1 DEF Begun
      <3>3. source.group - 1 \in 0..Len(DocGroups)
        BY <1>2, <1>6, <3>1
      <3>4. Count(source.group - 1) \in Nat
        BY <1>6, <3>1, <3>3
      <3>5. Within(source.group, rule_nr + 1)
        BY <1>2, <1>4, <1>6, <3>1, <3>2, <3>4
      <3> HIDE DEF Within
      <3>6. /\ Append(source.ranges, source.group)[rule_nr + 1] = source.group
            /\ \A r \in 1..rule_nr : Append(source.ranges, source.group)[r] = source.ranges[r]
        BY <1>4, <1>5
      <3>7. \A r \in 1..rule_nr + 1 : r = rule_nr + 1 \/ r \in 1..rule_nr
        BY <1>4
      <3> QED
        BY <1>1, <1>4, <2>1, <3>5, <3>6, <3>7
    <2>2. CASE ~AddRule
      BY <1>1, <1>4, <2>2
    <2> QED
      BY <2>1, <2>2
  <1>8. ASSUME OnCourse', InGroup'
        PROVE  source'.group >= 1 /\ Count(source'.group - 1) <= rule_nr'
    <2>1. OnCourse /\ (InGroup \/ (Descend /\ Len(frames) = 2))
      BY <1>8, GroupEntered
    <2>2. CASE Descend /\ Len(frames) = 2
      <3>1. ~InGroup /\ Begun = rule_nr
        BY <1>4, <2>2 DEF InGroup, Begun
      <3>2. ~AddRule
        BY <2>2 DEF Descend, AddRule, Walking, Leaving
      <3>3. source'.group - 1 = source.group
        BY <1>5, <2>2
      <3> QED
        BY <1>4, <1>5, <1>6, <2>1, <2>2, <3>1, <3>2, <3>3
    <2>3. CASE ~(Descend /\ Len(frames) = 2)
      <3>1. source'.group = source.group /\ rule_nr' >= rule_nr
        BY <1>4, <1>5, <2>3
      <3>2. source.group >= 1 /\ Count(source.group - 1) <= rule_nr
        BY <1>2, <2>1, <2>3
      <3>3. Count(source.group - 1) \in Nat
        <4>1. source.group - 1 \in 0..Len(DocGroups)
          BY <1>6, <2>1, <3>2
        <4> QED
          BY <1>6, <2>1, <4>1
      <3> QED
        BY <1>4, <3>1, <3>2, <3>3
    <2> QED
      BY <2>2, <2>3
  <1> QED
    BY <1>7, <1>8

-----------------------------------------------------------------------------
\* A published document: what was read of the prefix of the group at hand.
PrefixRead ==
    LET group == DocGroups[source.group]
        left == Matching(Todo(3), "Prefix")
    IN  \/ left = Matching(group.children, "Prefix") /\ cur_prefix = NoText
        \/ left = <<>> /\ cur_prefix = Text1(group, "Prefix")

EntryFollows(k) ==
    /\ source.prefixes[k] = k /\ k \in 1..Len(DocGroups)
    /\ prefixes[k].prefix = PrefixOf(DocGroups[k])

\* Every group of a published document gets its entry, in its order.
EntriesFollow ==
    /\ doc_err # 2
    /\ tpc = "doc" => prefix_nr = 0
    /\ OnCourse => prefix_nr = source.group - (IF InGroup THEN 1 ELSE 0)
    /\ OnCourse /\ InGroup => source.group >= 1 /\ PrefixRead
    /\ tpc = "done" => prefix_nr = Len(DocGroups)
    /\ \A k \in 1..prefix_nr : EntryFollows(k)

\* What a published document's groups have.
LEMMA GoodGroups ==
    ASSUME Lists, Published
    PROVE  /\ doc.root \in Elements
           /\ \A g \in 1..Len(DocGroups) :
                 LET group == DocGroups[g]
                     all == Matching(group.children, "Prefix")
                 IN  /\ group \in Elements /\ GoodGroup(group)
                     /\ all \in Seq(Elements) /\ Len(all) = 1
                     /\ Text1(group, "Prefix") = all[1].text
                     /\ Text1(group, "Prefix") # NoText
                     /\ IsNumeric(Text1(group, "Prefix")) /\ Len(PrefixOf(group)) >= 4
  <1>1. doc.root \in Elements
    <2>1. doc \in Docs /\ doc.root # NoRoot
      BY DEF Lists, Published
    <2> QED
      BY <2>1, DocsAssumption
  <1>2. ASSUME NEW g \in 1..Len(DocGroups)
        PROVE  LET group == DocGroups[g]
                   all == Matching(group.children, "Prefix")
               IN  /\ group \in Elements /\ GoodGroup(group)
                   /\ all \in Seq(Elements) /\ Len(all) = 1
                   /\ Text1(group, "Prefix") = all[1].text
                   /\ Text1(group, "Prefix") # NoText
                   /\ IsNumeric(Text1(group, "Prefix")) /\ Len(PrefixOf(group)) >= 4
    <2> PICK group : group = DocGroups[g]
      OBVIOUS
    <2>1. DocGroups \in Seq(Elements) /\ group \in Elements
      BY <1>1, DocTypes
    <2>2. GoodGroup(group)
      <3>1. \A e \in ToSet(DocGroups) : GoodGroup(e)
        BY DEF Published
      <3>2. DocGroups[g] \in ToSet(DocGroups)
        BY <2>1 DEF ToSet
      <3> QED
        BY <3>1, <3>2
    <2>3. Named(<<group>>, "Prefix") = Matching(group.children, "Prefix")
      BY <2>1, NamedOne
    <2>4. Named(<<group>>, "Prefix") \in Seq(Elements)
      <3>1. <<group>> \in Seq(Elements)
        BY <2>1
      <3> QED
        BY <3>1, NamedType, OfElements
    <2>5. /\ Only(group, "Prefix") /\ Text1(group, "Prefix") # NoText
          /\ IsNumeric(Text1(group, "Prefix")) /\ Len(PrefixOf(group)) >= 4
      BY <2>2 DEF GoodGroup
    <2> QED
      BY <2>1, <2>2, <2>3, <2>4, <2>5 DEF Only, Text1
  <1> QED
    BY <1>1, <1>2

\* The prefix is read once.
LEMMA PrefixReadStep ==
    ASSUME TableIInv, Lists, GroupsInOrder, Published, TNext, OnCourse', InGroup',
           OnCourse /\ InGroup => source.group >= 1 /\ PrefixRead
    PROVE  source'.group >= 1 /\ PrefixRead'
  <1>1. Nested /\ DocGroups' = DocGroups
    BY DocKept DEF TableIInv
  <1>2. OnCourse /\ (InGroup \/ (Descend /\ Len(frames) = 2))
    BY GroupEntered
  <1>3. /\ source.group \in Nat
        /\ source'.group = IF Descend /\ Len(frames) = 2 THEN source.group + 1
                           ELSE source.group
    BY GroupCount
  <1>4. CASE Descend /\ Len(frames) = 2
    <2>1. DocGroups[source.group + 1] = Cur
      BY <1>2, <1>4, IntoNextGroup
    <2>2. Cur.name = "Group" /\ Todo(3)' = Cur.children
      BY <1>1, <1>4, DescendTodo, LevelNames
    <2>3. cur_prefix' = NoText
      BY <1>4, <2>2 DEF Descend, Forget
    <2>4. PrefixRead'
      BY <1>1, <1>3, <1>4, <2>1, <2>2, <2>3 DEF PrefixRead
    <2> QED
      BY <1>3, <1>4, <2>4
  <1>5. CASE ~(Descend /\ Len(frames) = 2)
    <2> PICK g, group, all, left :
            /\ g = source.group /\ group = DocGroups[g]
            /\ all = Matching(group.children, "Prefix") /\ left = Matching(Todo(3), "Prefix")
      OBVIOUS
    <2>1. /\ InGroup /\ g >= 1 /\ source'.group = g
          /\ \/ left = all /\ cur_prefix = NoText
             \/ left = <<>> /\ cur_prefix = Text1(group, "Prefix")
      BY <1>2, <1>3, <1>5 DEF PrefixRead
    <2>2. SUFFICES \/ Matching(Todo(3)', "Prefix") = all /\ cur_prefix' = NoText
                   \/ Matching(Todo(3)', "Prefix") = <<>> /\ cur_prefix' = Text1(group, "Prefix")
      BY <1>1, <2>1 DEF PrefixRead
    <2>3. /\ g \in 1..Len(DocGroups)
          /\ all \in Seq(Elements) /\ Len(all) = 1
          /\ Text1(group, "Prefix") = all[1].text /\ Text1(group, "Prefix") # NoText
      <3>1. g \in 1..Len(DocGroups)
        <4>1. g \in 0..Len(DocGroups)
          BY <1>2 DEF GroupsInOrder
        <4> QED
          BY <1>3, <2>1, <4>1
      <3> QED
        BY <3>1, GoodGroups
    <2>4. CASE Todo(3)' = Todo(3) /\ cur_prefix' = cur_prefix
      BY <2>1, <2>4
    <2>5. ASSUME Len(frames) = 3, Todo(3) # <<>>, Todo(3)' = Tail(Todo(3)), Cur = Head(Todo(3)),
                 Cur.name # "Prefix", cur_prefix' = cur_prefix
          PROVE  Matching(Todo(3)', "Prefix") = left /\ cur_prefix' = cur_prefix
      <3>1. Todo(3) \in Seq(Elements)
        BY DEF Lists
      <3>2. Matching(Todo(3), "Prefix") = <<>> \o Matching(Tail(Todo(3)), "Prefix")
        BY <2>5, <3>1, MatchingHead
      <3>3. Matching(Tail(Todo(3)), "Prefix") \in Seq(Elements)
        BY <2>5, <3>1, HeadAndTail, MatchingType, OfElements
      <3> QED
        BY <2>5, <3>2, <3>3, ConcatEmptySeq
    <2>6. CASE Descend
      <3> PICK n : n = Len(frames)
        OBVIOUS
      <3>1. /\ n \in 1..4 /\ Todo(n) # <<>> /\ Cur = Head(Todo(n)) /\ Cur.name = Levels[n + 1]
            /\ Todo(n)' = Tail(Todo(n))
            /\ \A k \in 1..5 : k \notin {n, n + 1} => Todo(k)' = Todo(k)
        BY <1>1, <2>6, DescendTodo
      <3>2. n = 3 \/ n = 4
        BY <2>1, <3>1 DEF InGroup
      <3>3. CASE n = 3
        <4>1. Cur.name = "Rules"
          BY <3>1, <3>3, LevelNames
        <4>2. cur_prefix' = cur_prefix
          BY <2>6, <4>1 DEF Descend, Forget
        <4>3. Todo(3) # <<>> /\ Cur = Head(Todo(3)) /\ Todo(3)' = Tail(Todo(3))
          BY <3>1, <3>3
        <4> QED
          BY <2>1, <2>5, <3>3, <4>1, <4>2, <4>3
      <3>4. CASE n = 4
        <4>1. Cur.name = "Rule"
          BY <3>1, <3>4, LevelNames
        <4>2. cur_prefix' = cur_prefix
          BY <2>6, <4>1 DEF Descend, Forget
        <4>3. 3 \in 1..5 /\ 3 \notin {n, n + 1}
          BY <3>4
        <4>4. Todo(3)' = Todo(3)
          BY <3>1, <4>3
        <4> QED
          BY <2>4, <4>2, <4>4
      <3> QED
        BY <3>2, <3>3, <3>4
    <2>7. CASE ReadText \/ PassOver
      <3> PICK n : n = Len(frames)
        OBVIOUS
      <3>1. /\ n \in 1..5 /\ Todo(n) # <<>> /\ Frame.name = Levels[n] /\ Cur = Head(Todo(n))
            /\ Todo(n)' = Tail(Todo(n))
            /\ \A k \in 1..5 : k # n => Todo(k)' = Todo(k)
        BY <1>1, <2>7, SiblingTodo
      <3>2. n = 3 \/ n = 4 \/ n = 5
        BY <2>1, <3>1 DEF InGroup
      <3>3. CASE n # 3
        <4>1. Frame.name = "Rules" \/ Frame.name = "Rule"
          BY <3>1, <3>2, <3>3, LevelNames
        <4>2. cur_prefix' = cur_prefix
          <5>1. PassOver => cur_prefix' = cur_prefix
            BY DEF PassOver
          <5>2. ReadText => Cur.name # "Prefix"
            BY <4>1 DEF ReadText, Here, Reads
          <5> QED
            BY <2>7, <5>1, <5>2 DEF ReadText
        <4>3. 3 \in 1..5
          OBVIOUS
        <4> QED
          BY <2>4, <3>1, <3>3, <4>2, <4>3
      <3>4. CASE n = 3
        <4>1. /\ Todo(3) # <<>> /\ Cur = Head(Todo(3)) /\ Todo(3)' = Tail(Todo(3))
              /\ Frame.name = "Group"
          BY <3>1, <3>4, LevelNames
        <4>2. CASE Cur.name # "Prefix"
          <5>1. cur_prefix' = cur_prefix
            BY <2>7, <4>2 DEF ReadText, PassOver
          <5> QED
            BY <2>1, <2>5, <3>4, <4>1, <4>2, <5>1
        <4>3. CASE Cur.name = "Prefix"
          <5>1. ReadText
            BY <2>7, <4>1, <4>3 DEF PassOver, Here, Reads
          <5>2. cur_prefix' = Cur.text
            BY <4>3, <5>1 DEF ReadText
          <5>3. Todo(3) \in Seq(Elements)
            BY DEF Lists
          <5> PICK rest, e : rest = Matching(Tail(Todo(3)), "Prefix") /\ e = Cur
            OBVIOUS
          <5>4. left = <<e>> \o rest
            BY <4>1, <4>3, <5>3, MatchingHead
          <5>5. rest \in Seq(Elements) /\ e \in Elements
            BY <4>1, <5>3, HeadAndTail, MatchingType, OfElements
          <5>6. Len(left) = 1 + Len(rest) /\ left[1] = e
            BY <5>4, <5>5
          <5>7. left = all
            <6>1. left # <<>>
              BY <5>5, <5>6
            <6> QED
              BY <2>1, <6>1
          <5>8. rest = <<>>
            <6>1. Len(rest) = 0
              BY <2>3, <5>5, <5>6, <5>7
            <6> QED
              BY <5>5, <6>1, EmptySeq
          <5> QED
            BY <2>3, <4>1, <5>2, <5>6, <5>7, <5>8
        <4> QED
          BY <4>2, <4>3
      <3> QED
        BY <3>3, <3>4
    <2>8. CASE AddRule \/ RefuseRule \/ Ascend \/ LeaveGroup \/ AddPrefix \/ RefusePrefix
               \/ EndOfDocument
      <3>1. Todo(3)' = Todo(3)
        <4>1. \A k \in 1..5 : Todo(k)' = Todo(k)
          BY <1>1, <2>8, StillTodo
        <4>2. 3 \in 1..5
          OBVIOUS
        <4> QED
          BY <4>1, <4>2
      <3>2. CASE ~LeaveGroup
        <4>1. cur_prefix' = cur_prefix
          BY <2>8, <3>2 DEF AddRule, RefuseRule, Ascend, AddPrefix, RefusePrefix, EndOfDocument
        <4> QED
          BY <2>4, <3>1, <4>1
      <3>3. CASE LeaveGroup
        <4>1. tpc' = "prefix" /\ cur_prefix' = IF cur_prefix = NoText THEN PREFIX_ERROR ELSE cur_prefix
          BY <3>3 DEF LeaveGroup
        <4>2. Todo(3) = <<>>
          <5>1. Lists'
            BY ListsStep
          <5> QED
            BY <3>1, <4>1, <5>1 DEF Lists
        <4>3. left = <<>> /\ all # <<>>
          BY <2>3, <4>2, MatchingNone
        <4> QED
          BY <2>1, <2>3, <2>4, <3>1, <4>1, <4>3
      <3> QED
        BY <3>2, <3>3
    <2> QED
      BY <1>2, <2>6, <2>7, <2>8, Steps
  <1> QED
    BY <1>4, <1>5

\* parseGroup is begun by a descent and ends with add_prefix.
LEMMA GroupBounds ==
    ASSUME TableIInv, Lists, TNext, OnCourse
    PROVE  InGroup' <=> \/ Descend /\ Len(frames) = 2
                        \/ InGroup /\ ~AddPrefix /\ ~RefusePrefix
  <1> PICK n : n = Len(frames)
    OBVIOUS
  <1>1. Nested /\ Chain(frames, path) /\ n \in 0..5 /\ n > 0
    BY DEF TableIInv, Nested, Chain, OnCourse
  <1>2. ASSUME frames' = Pop(frames), path' = Pop(path) PROVE Len(frames') = n - 1
    BY <1>1, <1>2, Popped
  <1>3. CASE Descend
    <2>1. n \in 1..4 /\ Len(frames') = n + 1
      BY <1>1, <1>3, DescendTodo
    <2>2. ~AddPrefix /\ ~RefusePrefix
      BY <1>3 DEF Descend, AddPrefix, RefusePrefix, Walking
    <2> QED
      BY <1>3, <2>1, <2>2 DEF InGroup
  <1>4. CASE ReadText \/ PassOver
    <2>1. Len(frames') = n
      BY <1>1, <1>4, SiblingTodo
    <2>2. ~Descend /\ ~AddPrefix /\ ~RefusePrefix
      BY <1>4 DEF ReadText, PassOver, Descend, AddPrefix, RefusePrefix, Walking
    <2> QED
      BY <2>1, <2>2 DEF InGroup
  <1>5. CASE AddRule \/ RefuseRule
    <2>1. n = 5
      <3>1. Leaving({"Rule"})
        BY <1>5 DEF AddRule, RefuseRule
      <3> QED
        BY <1>1, <3>1, LeavingDepth
    <2>2. Len(frames') = n - 1
      BY <1>2, <1>5 DEF AddRule, RefuseRule, LeaveRule
    <2>3. ~AddPrefix /\ ~RefusePrefix
      BY <1>5 DEF AddRule, RefuseRule, Leaving, AddPrefix, RefusePrefix
    <2> QED
      BY <2>1, <2>2, <2>3 DEF InGroup
  <1>6. CASE Ascend
    <2>1. n \in {2, 4}
      <3>1. Leaving({"Rules", "RegistrationGroups"})
        BY <1>6 DEF Ascend
      <3> QED
        BY <1>1, <3>1, LeavingDepth
    <2>2. Len(frames') = n - 1
      BY <1>2, <1>6 DEF Ascend
    <2>3. ~AddPrefix /\ ~RefusePrefix /\ ~Descend
      BY <1>6 DEF Ascend, Leaving, AddPrefix, RefusePrefix, Descend, Walking
    <2> QED
      BY <2>1, <2>2, <2>3 DEF InGroup
  <1>7. CASE LeaveGroup
    <2>1. Len(frames') = n /\ ~AddPrefix /\ ~RefusePrefix /\ ~Descend
      BY <1>7 DEF LeaveGroup, Leaving, AddPrefix, RefusePrefix, Descend, Walking
    <2> QED
      BY <2>1 DEF InGroup
  <1>8. CASE AddPrefix \/ RefusePrefix
    <2>1. n = 3 /\ ~Descend
      BY <1>1, <1>8 DEF Nested, AddPrefix, RefusePrefix, Descend, Walking
    <2>2. Len(frames') = n - 1
      BY <1>2, <1>8 DEF AddPrefix, RefusePrefix
    <2> QED
      BY <1>8, <2>1, <2>2 DEF InGroup
  <1>9. CASE EndOfDocument
    <2>1. n = 1
      <3>1. Leaving({ROOT})
        BY <1>9 DEF EndOfDocument
      <3> QED
        BY <1>1, <3>1, LeavingDepth
    <2>2. Len(frames') = n - 1
      BY <1>2, <1>9 DEF EndOfDocument
    <2>3. ~AddPrefix /\ ~RefusePrefix
      BY <1>9 DEF EndOfDocument, Leaving, AddPrefix, RefusePrefix
    <2> QED
      BY <2>1, <2>2, <2>3 DEF InGroup
  <1> QED
    BY <1>3, <1>4, <1>5, <1>6, <1>7, <1>8, <1>9, Steps

\* In a published document add_prefix gets the prefix of the group at hand.
LEMMA PrefixAtHand ==
    ASSUME TableIInv, Lists, GroupsInOrder, Published, EntriesFollow, tpc = "prefix"
    PROVE  /\ source.group \in 1..Len(DocGroups)
           /\ cur_prefix = Text1(DocGroups[source.group], "Prefix")
           /\ IsNumeric(cur_prefix)
  <1>1. OnCourse /\ InGroup /\ Todo(3) = <<>>
    <2>1. Len(frames) = 3
      BY DEF TableIInv, Nested
    <2>2. Todo(3) = <<>>
      BY DEF Lists
    <2> QED
      BY <2>1, <2>2 DEF OnCourse, InGroup
  <1>2. source.group >= 1 /\ PrefixRead
    BY <1>1 DEF EntriesFollow
  <1>3. source.group \in 1..Len(DocGroups)
    <2>1. source.group \in 0..Len(DocGroups)
      BY <1>1 DEF GroupsInOrder
    <2> QED
      BY <1>2, <2>1
  <1> PICK g, group, all : g = source.group /\ group = DocGroups[g]
                           /\ all = Matching(group.children, "Prefix")
    OBVIOUS
  <1>4. /\ all \in Seq(Elements) /\ Len(all) = 1
        /\ IsNumeric(Text1(group, "Prefix"))
    BY <1>3, GoodGroups
  <1>5. Matching(Todo(3), "Prefix") = <<>> /\ all # <<>>
    <2>1. all # <<>>
      BY <1>4
    <2> QED
      BY <1>1, <2>1, MatchingNone
  <1>6. cur_prefix = Text1(group, "Prefix")
    BY <1>2, <1>5 DEF PrefixRead
  <1> QED
    BY <1>3, <1>4, <1>6

\* The end of the document comes after its last group.
LEMMA AllGroupsRead ==
    ASSUME TableIInv, Lists, GroupsInOrder, EndOfDocument
    PROVE  source.group = Len(DocGroups) /\ OnCourse /\ ~InGroup
  <1>1. Len(frames) = 1 /\ Chain(frames, path) /\ tpc = "walk" /\ Frame.todo = <<>>
    <2>1. Leaving({ROOT})
      BY DEF EndOfDocument
    <2> QED
      BY <2>1, LeavingDepth DEF Leaving, TableIInv
  <1>2. \A k \in 1..4 : Todo(k) = <<>>
    <2>1. frames[1].todo = <<>>
      <3>1. Len(frames) > 0
        BY <1>1
      <3> QED
        BY <1>1, <3>1, Depth
    <2>2. \A k \in 1..4 : k = 1 \/ ~(1 >= k)
      OBVIOUS
    <2> QED
      BY <1>1, <2>1, <2>2 DEF Todo
  <1>3. LeftGroups = <<>>
    BY <1>2, MatchingNone, NamedNone, ConcatEmptySeq DEF LeftGroups, GroupsIn
  <1>4. /\ doc.root \in Elements /\ source.group \in 0..Len(DocGroups)
        /\ Rest(DocGroups, source.group) = <<>>
    BY <1>1, <1>3 DEF Lists, GroupsInOrder, OnCourse
  <1>5. DocGroups \in Seq(Elements)
    BY <1>4, DocTypes
  <1>6. source.group = Len(DocGroups)
    BY <1>4, <1>5, RestNone
  <1> QED
    BY <1>1, <1>6 DEF OnCourse, InGroup

\* A published document is read to its end, group by group, unless a rule ends
\* the process.
LEMMA EntriesFollowStep ==
    ASSUME TableIInv, Lists, GroupsInOrder, Published, EntriesFollow, TNext
    PROVE  EntriesFollow'
  <1>1. /\ doc' = doc /\ DocGroups' = DocGroups
        /\ prefix_nr \in Nat /\ Sequence(prefixes) /\ Len(source.prefixes) = prefix_nr
        /\ source \in [group : Nat, ranges : Seq(Nat), prefixes : Seq(Nat)]
    BY DocKept, CurNat DEF TableIInv, TablesHold, Counts
  <1> DEFINE Follows(e, p, k) == /\ p = k /\ k \in 1..Len(DocGroups)
                                 /\ e.prefix = PrefixOf(DocGroups[k])
  <1>2. /\ doc_err # 2 /\ (tpc = "doc" => prefix_nr = 0)
        /\ OnCourse => prefix_nr = source.group - (IF InGroup THEN 1 ELSE 0)
        /\ OnCourse /\ InGroup => source.group >= 1 /\ PrefixRead
        /\ \A k \in 1..prefix_nr : Follows(prefixes[k], source.prefixes[k], k)
    BY DEF EntriesFollow, EntryFollows
  <1>3. ASSUME UNCHANGED prefixes, source'.prefixes = source.prefixes
        PROVE  /\ prefix_nr' = prefix_nr
               /\ \A k \in 1..prefix_nr' : Follows(prefixes'[k], source'.prefixes[k], k)
    BY <1>2, <1>3 DEF prefix_nr
  <1>4. CASE ParseDoc
    <2>1. tpc = "doc" /\ tpc' = "walk" /\ UNCHANGED <<doc_err, prefixes, source>>
      BY <1>4 DEF ParseDoc, Published, entries
    <2>2. source.group = 0 /\ Len(frames') = 1
      BY <1>4, <2>1, ParseStart
    <2>3. ~InGroup'
      BY <2>2 DEF InGroup
    <2>4. prefix_nr' = 0 /\ source'.group = 0
      BY <1>2, <1>3, <2>1, <2>2
    <2>5. prefix_nr' = source'.group - (IF InGroup' THEN 1 ELSE 0)
      <3>1. (IF InGroup' THEN 1 ELSE 0) = 0
        BY <2>3
      <3>2. 0 - 0 = 0
        OBVIOUS
      <3> QED
        BY <2>4, <3>1, <3>2
    <2>6. \A k \in 1..prefix_nr' : EntryFollows(k)'
      BY <2>4
    <2> QED
      BY <1>2, <2>1, <2>3, <2>5, <2>6 DEF EntriesFollow
  <1>5. CASE ~ParseDoc
    <2>1. OnCourse /\ tpc' # "doc"
      BY <1>5 DEF TNext, ParseDoc, Descend, ReadText, PassOver, RefuseRule, AddRule, Ascend,
             LeaveGroup, AddPrefix, RefusePrefix, EndOfDocument, Walking, Leaving, OnCourse
    <2>2. doc_err' # 2
      <3>1. UNCHANGED doc_err \/ doc_err' = 1 \/ (LeaveGroup /\ doc_err' = doc_err)
        BY <1>5 DEF TNext, Descend, ReadText, PassOver, RefuseRule, AddRule, Ascend,
               LeaveGroup, AddPrefix, RefusePrefix, EndOfDocument
      <3> QED
        BY <1>2, <3>1
    <2>3. ~RefusePrefix
      BY PrefixAtHand DEF RefusePrefix
    <2>4. InGroup' <=> (Descend /\ Len(frames) = 2) \/ (InGroup /\ ~AddPrefix)
      BY <2>1, <2>3, GroupBounds
    <2>5. /\ source.group \in Nat
          /\ source'.group = IF Descend /\ Len(frames) = 2 THEN source.group + 1
                             ELSE source.group
      BY GroupCount
    <2>6. OnCourse' /\ InGroup' => source'.group >= 1 /\ PrefixRead'
      BY <1>2, PrefixReadStep
    <2>7. CASE AddPrefix
      <3>1. /\ tpc = "prefix" /\ tpc' = "walk" /\ prefixes' = Append(prefixes, NewEntry)
            /\ source' = [source EXCEPT !.prefixes = Append(@, source.group)]
        BY <2>7 DEF AddPrefix
      <3>2. /\ InGroup /\ ~InGroup' /\ ~Descend
        BY <2>4, <2>7, <3>1 DEF InGroup, TableIInv, Nested, Descend, Walking
      <3>3. prefix_nr + 1 = source.group
        BY <1>1, <1>2, <2>1, <2>5, <3>2
      <3>4. /\ Len(prefixes') = prefix_nr + 1 /\ prefixes'[prefix_nr + 1] = NewEntry
            /\ \A k \in 1..prefix_nr : prefixes'[k] = prefixes[k]
        BY <1>1, <3>1, AppendSequence DEF prefix_nr
      <3>5. prefix_nr' = prefix_nr + 1
        BY <3>4 DEF prefix_nr
      <3>6. source'.prefixes = Append(source.prefixes, source.group)
        BY <1>1, <3>1
      <3>7. /\ source'.prefixes[prefix_nr + 1] = source.group
            /\ \A k \in 1..prefix_nr : source'.prefixes[k] = source.prefixes[k]
        BY <1>1, <3>6
      <3>8. Follows(NewEntry, source.group, prefix_nr + 1)
        <4>1. /\ source.group \in 1..Len(DocGroups)
              /\ cur_prefix = Text1(DocGroups[source.group], "Prefix")
          BY <3>1, PrefixAtHand
        <4>2. NewEntry.prefix = Numeric(cur_prefix)
          BY DEF NewEntry
        <4> QED
          BY <3>3, <4>1, <4>2 DEF PrefixOf
      <3> HIDE DEF Follows
      <3>9. \A k \in 1..prefix_nr + 1 : k = prefix_nr + 1 \/ k \in 1..prefix_nr
        BY <1>1
      <3>10. \A k \in 1..prefix_nr' : Follows(prefixes'[k], source'.prefixes[k], k)
        BY <1>2, <3>4, <3>5, <3>7, <3>8, <3>9
      <3>11. source'.group = source.group
        BY <2>5, <3>2
      <3>12. prefix_nr' = source'.group - (IF InGroup' THEN 1 ELSE 0)
        BY <2>5, <3>2, <3>3, <3>5, <3>11
      <3>13. \A k \in 1..prefix_nr' : EntryFollows(k)'
        BY <1>1, <3>10 DEF EntryFollows, Follows
      <3> QED
        BY <2>1, <2>2, <3>1, <3>2, <3>12, <3>13 DEF EntriesFollow
    <2>8. CASE ~AddPrefix
      <3>1. UNCHANGED prefixes /\ source'.prefixes = source.prefixes
        <4>1. /\ prefixes' = prefixes
              /\ \/ UNCHANGED source
                 \/ source' = [source EXCEPT !.ranges = Append(@, source.group)]
                 \/ source' = [source EXCEPT !.group = @ + IF Cur.name = "Group" THEN 1 ELSE 0]
          BY <2>8 DEF TNext, ParseDoc, Descend, ReadText, PassOver, RefuseRule, AddRule,
                 StoreRule, Ascend, LeaveGroup, RefusePrefix, EndOfDocument, entries
        <4> QED
          BY <1>1, <4>1
      <3>2. /\ prefix_nr' = prefix_nr
            /\ \A k \in 1..prefix_nr' : Follows(prefixes'[k], source'.prefixes[k], k)
        BY <1>3, <3>1
      <3>3. OnCourse' => prefix_nr' = source'.group - (IF InGroup' THEN 1 ELSE 0)
        <4>1. CASE Descend /\ Len(frames) = 2
          <5>1. ~InGroup /\ InGroup'
            BY <2>4, <4>1 DEF InGroup
          <5> QED
            BY <1>2, <2>1, <2>5, <3>2, <4>1, <5>1
        <4>2. CASE ~(Descend /\ Len(frames) = 2)
          BY <1>2, <2>1, <2>4, <2>5, <2>8, <3>2, <4>2
        <4> QED
          BY <4>1, <4>2
      <3>4. tpc' = "done" => prefix_nr' = Len(DocGroups)
        <4> SUFFICES ASSUME tpc' = "done" PROVE prefix_nr' = Len(DocGroups)
          OBVIOUS
        <4>1. EndOfDocument
          BY <1>5, <2>8 DEF TNext, Descend, ReadText, PassOver, RefuseRule, AddRule, Ascend,
             LeaveGroup, RefusePrefix, EndOfDocument, Walking, Leaving
        <4> QED
          BY <1>2, <2>5, <3>2, <4>1, AllGroupsRead
      <3> QED
        BY <1>1, <2>1, <2>2, <2>6, <3>2, <3>3, <3>4 DEF EntriesFollow, EntryFollows
    <2> QED
      BY <2>7, <2>8
  <1> QED
    BY <1>4, <1>5

\* What follows of the whole table: entry k of a published document is that of
\* its group k, and the ranges are grouped as the document's rules are.
LEMMA FollowInvariance ==
    TSpec => [](RangeGroups /\ (Published => EntriesFollow))
  <1>1. TInit => RangeGroups /\ (Published => EntriesFollow)
    <2> SUFFICES ASSUME TInit PROVE RangeGroups /\ EntriesFollow
      OBVIOUS
    <2>1. tpc = "doc" /\ prefixes = <<>> /\ ranges = <<>> /\ doc_err = 0
      BY DEF TInit
    <2>2. prefix_nr = 0 /\ rule_nr = 0 /\ ~OnCourse
      BY <2>1 DEF prefix_nr, rule_nr, OnCourse
    <2> QED
      BY <2>1, <2>2 DEF RangeGroups, EntriesFollow
  <1>2. TableIInv /\ WalkIInv /\ RangeGroups /\ (Published => EntriesFollow) /\ [TNext]_tvars
          => RangeGroups' /\ (Published => EntriesFollow)'
    <2> SUFFICES ASSUME TableIInv, WalkIInv, RangeGroups, Published => EntriesFollow,
                        [TNext]_tvars
                 PROVE  RangeGroups' /\ (Published => EntriesFollow)'
      OBVIOUS
    <2>1. CASE TNext
      <3>1. RangeGroups'
        BY <2>1, RangeGroupsStep DEF WalkIInv
      <3>2. Published' => Published
        BY <2>1, DocKept DEF Published
      <3>3. Published => EntriesFollow'
        BY <2>1, EntriesFollowStep DEF WalkIInv
      <3> QED
        BY <3>1, <3>2, <3>3
    <2>2. CASE UNCHANGED tvars
      <3>1. RangeGroups'
        BY <2>2 DEF tvars, RangeGroups, OnCourse, InGroup, RulesUpTo, DocGroups, rule_nr
      <3>2. (Published => EntriesFollow)'
        BY <2>2 DEF tvars, EntriesFollow, EntryFollows, OnCourse, InGroup, PrefixRead, Todo,
               DocGroups, prefix_nr, Published
      <3> QED
        BY <3>1, <3>2
    <2> QED
      BY <2>1, <2>2
  <1> QED
    BY <1>1, <1>2, TableInvariance, WalkInvariance, PTL DEF TSpec

-----------------------------------------------------------------------------
\* Which string made the last state, in a published document.

\* Either the string under way has made the last state, or stored strings pass
\* through every state.
NewWord ==
    pc = "add" =>
        last = call.str \/ \A s \in 1..fst.len : \E w \in Stored : Begins(word[s], w)

\* No prefix begins another, so that each makes a state, and the last entry's
\* has made the last.
LastMade ==
    /\ Adding /\ pc = "idle" => last = Addition.str
    /\ ~Adding /\ prefix_nr > 0 => last = prefixes[prefix_nr].prefix

\* A step that leaves transducer and history of additions alone.
LEMMA SameTransducer ==
    ASSUME Words, Recorded, UNCHANGED <<fst, trans>>
    PROVE  word' = word /\ Stored' = Stored
  <1>1. word' = word
    BY WordsFixed
  <1> QED
    BY <1>1 DEF Stored, Final

\* What no other string passes through was made for the string under way.
LEMMA NewWordStep ==
    ASSUME PackIInv, TableIInv, PackHInv, Words, OneAtATime, NewWord, InfoNext
    PROVE  NewWord'
  <1>1. Recorded
    BY PackParts
  <1>2. CASE CallAddString
    <2>1. pc = "idle" /\ UNCHANGED <<fst, trans>>
      BY <1>2, AdditionCalled DEF CallAddString, BuildCall, Invoke
    <2>2. word' = word /\ Stored' = Stored
      BY <1>1, <2>1, SameTransducer
    <2>3. \A s \in 1..fst.len : \E w \in Stored : Begins(word[s], w)
      BY <2>1 DEF PackHInv, HInv, WordsInUse
    <2> QED
      BY <2>1, <2>2, <2>3 DEF NewWord
  <1>3. CASE AddString
    <2>1. UNCHANGED call /\ pc = "add" /\ BuildStep
      BY <1>3, WhileAdding DEF AddString
    <2>2. CASE AddNewState /\ last' = call.str
      BY <2>1, <2>2 DEF NewWord
    <2>3. CASE AddFollow /\ UNCHANGED last
      <3>1. UNCHANGED <<fst, trans>>
        BY <2>3 DEF AddFollow
      <3>2. word' = word /\ Stored' = Stored
        BY <1>1, <3>1, SameTransducer
      <3> QED
        BY <2>1, <2>3, <3>1, <3>2 DEF NewWord
    <2>4. CASE AddFail \/ AddFinal
      BY <2>4 DEF AddFail, AddFinal, Return, NewWord
    <2> QED
      BY <2>1, <2>2, <2>3, <2>4 DEF BuildStep
  <1>4. CASE ReadDoc \/ EntryAdded \/ CopyAndPack \/ LookupPrefix \/ Looked \/ Scan
             \/ \E s \in Isbns : Ask(s)
    <2>1. pc' # "add"
      <3>1. CASE ReadDoc
        BY <3>1, WhileReading DEF pvars
      <3>2. CASE EntryAdded
        BY <3>2, OnEntry DEF pvars
      <3>3. CASE CopyAndPack
        BY <3>3, WhilePacking
      <3>4. CASE LookupPrefix
        BY <3>4, WhileLooking DEF LookupPrefix
      <3>5. CASE Looked \/ Scan
        <4>1. UNCHANGED pvars /\ phase = "packed"
          BY <3>5, WhileHyphenating
        <4> QED
          BY <4>1 DEF pvars, PackIInv, Phases
      <3>6. CASE \E s \in Isbns : Ask(s)
        <4>1. UNCHANGED tvars /\ phase = "packed" /\ (Query \/ UNCHANGED pvars)
          BY <3>6, Asked
        <4>2. CASE Query
          BY <4>1, <4>2, WhileLooking
        <4>3. CASE UNCHANGED pvars
          BY <4>1, <4>3 DEF pvars, PackIInv, Phases
        <4> QED
          BY <4>1, <4>2, <4>3
      <3> QED
        BY <1>4, <3>1, <3>2, <3>3, <3>4, <3>5, <3>6
    <2> QED
      BY <2>1 DEF NewWord
  <1> QED
    BY <1>2, <1>3, <1>4, InfoCases

\* What is stored, in a published document, are the prefixes of its groups so
\* far; the string under way begins none of them.
LEMMA StoredPrefixes ==
    ASSUME TableIInv, OneAtATime, BookIsDict, Published, EntriesFollow, book = Contents,
           ~(Adding /\ pc = "idle"), NEW w \in Stored
    PROVE  \E k \in 1..prefix_nr : /\ k \in 1..Len(DocGroups) /\ w = PrefixOf(DocGroups[k])
                                   /\ prefixes[k].prefix = w
  <1>1. w \in DOMAIN dict
    BY DEF BookIsDict, Contents
  <1> PICK k : k = dict[w] + 1
    OBVIOUS
  <1>2. k \in 1..prefix_nr /\ prefixes[k].prefix = w
    BY <1>1 DEF TableIInv, Numbered, ValuesAreIndexes
  <1>3. EntryFollows(k)
    BY <1>2 DEF EntriesFollow
  <1> QED
    BY <1>2, <1>3 DEF EntryFollows

\* A string that is being added is longer than 978 or 979 and begins no stored one.
LEMMA StringIsNew ==
    ASSUME TableIInv, WalkIInv, OneAtATime, BookIsDict, PackHInv, Published, EntriesFollow,
           pc = "add"
    PROVE  /\ Len(call.str) >= 4
           /\ \A w \in Stored : ~Begins(call.str, w)
  <1>1. Adding
    BY DEF OneAtATime
  <1> PICK g : g = source.group
    OBVIOUS
  <1>2. tpc = "prefix" /\ call.str = Numeric(cur_prefix)
    BY <1>1 DEF Adding, Addition
  <1>3. /\ g \in 1..Len(DocGroups)
        /\ cur_prefix = Text1(DocGroups[g], "Prefix")
    BY <1>2, PrefixAtHand DEF WalkIInv
  <1>4. call.str = PrefixOf(DocGroups[g])
    BY <1>2, <1>3 DEF PrefixOf
  <1>5. Len(PrefixOf(DocGroups[g])) >= 4
    BY <1>3, GoodGroups DEF WalkIInv
  <1>6. prefix_nr = g - 1
    <2>1. OnCourse /\ InGroup
      <3>1. Len(frames) = 3
        BY <1>2 DEF TableIInv, Nested
      <3> QED
        BY <1>2, <3>1 DEF OnCourse, InGroup
    <2> QED
      BY <2>1 DEF EntriesFollow
  <1>7. ASSUME NEW w \in Stored, Begins(call.str, w) PROVE FALSE
    <2>1. PICK k \in 1..prefix_nr : k \in 1..Len(DocGroups) /\ w = PrefixOf(DocGroups[k])
      BY <1>7, StoredPrefixes DEF PackHInv
    <2>2. Begins(PrefixOf(DocGroups[g]), PrefixOf(DocGroups[k]))
      BY <1>4, <1>7, <2>1
    <2>3. g = k
      BY <1>3, <2>1, <2>2 DEF Published
    <2> QED
      BY <1>3, <1>6, <2>1, <2>3
  <1> QED
    BY <1>4, <1>5, <1>7

\* The addition of such a string makes a state.
LEMMA LastAdded ==
    ASSUME TableIInv, WalkIInv, OneAtATime, BookIsDict, PackHInv, Published, EntriesFollow,
           NewWord, AddString, pc' = "idle"
    PROVE  last' = call.str
  <1>1. pc = "add" /\ BuildStep
    BY WhileAdding DEF AddString
  <1>2. HInv
    BY <1>1 DEF PackHInv
  <1>3. Len(call.str) >= 4 /\ \A w \in Stored : ~Begins(call.str, w)
    BY <1>1, StringIsNew
  <1>4. call.str \in Seq(Char)
    BY <1>2, Shape
  <1>5. ~AddFail
    <2>1. AddFail => call.str \in Stored
      BY <1>2, AddFailStored
    <2>2. Begins(call.str, call.str)
      BY <1>4, BeginsSelf
    <2> QED
      BY <1>3, <2>1, <2>2
  <1>6. ~AddFollow /\ ~AddNewState
    BY <1>1 DEF AddFollow, AddNewState, Goto
  <1>7. AddFinal /\ UNCHANGED last
    BY <1>1, <1>5, <1>6 DEF BuildStep
  <1>8. word[at.state] = call.str /\ at.state \in 0..fst.len /\ fst.len \in Nat /\ word[0] = <<>>
    <2>1. Chr = NUL
      BY <1>7 DEF AddFinal
    <2>2. word[at.state] = call.str
      BY <1>1, <1>2, <2>1, AtCursor
    <2> QED
      BY <1>2, <2>2, Shape DEF HInv, Words
  <1>9. at.state # 0
    <2>1. Len(<<>>) = 0
      OBVIOUS
    <2> QED
      BY <1>3, <1>8, <2>1
  <1>10. at.state \in 1..fst.len
    BY <1>8, <1>9
  <1>11. last = call.str
    BY <1>1, <1>3, <1>8, <1>10 DEF NewWord
  <1> QED
    BY <1>7, <1>11

\* The last state is the last prefix's.
LEMMA LastStep ==
    ASSUME PackIInv, TableIInv, WalkIInv, OneAtATime, BookIsDict, PackHInv, Published,
           EntriesFollow, NewWord, LastMade, InfoNext
    PROVE  LastMade'
  <1>1. ASSUME UNCHANGED <<last, prefixes>>, ~Adding, ~Adding'
        PROVE  LastMade'
    BY <1>1 DEF LastMade, prefix_nr
  <1>2. CASE ReadDoc
    BY <1>1, <1>2, WhileReading DEF pvars
  <1>3. CASE CallAddString
    <2>1. pc' = "add" /\ Adding'
      BY <1>3, AdditionCalled
    <2> QED
      BY <2>1 DEF LastMade
  <1>4. CASE AddString
    <2>1. Adding /\ Adding' /\ UNCHANGED <<tvars, call>>
      BY <1>4, WhileAdding
    <2>2. pc' = "idle" => last' = call.str
      BY <1>4, LastAdded
    <2>3. call.str = Addition.str /\ Addition' = Addition
      BY <2>1 DEF Adding, Addition, tvars
    <2> QED
      BY <2>1, <2>2, <2>3 DEF LastMade
  <1>5. CASE EntryAdded
    <2>1. /\ UNCHANGED last /\ Adding /\ pc = "idle" /\ ~Adding'
          /\ prefixes' = Append(prefixes, NewEntry) /\ NewEntry.prefix = Addition.str
      BY <1>5, OnEntry DEF pvars
    <2>2. Sequence(prefixes)
      BY DEF TableIInv, TablesHold
    <2>3. Len(prefixes') = prefix_nr + 1 /\ prefixes'[prefix_nr + 1] = NewEntry
      BY <2>1, <2>2, AppendSequence DEF prefix_nr
    <2>4. prefix_nr' = prefix_nr + 1
      BY <2>3 DEF prefix_nr
    <2> QED
      BY <2>1, <2>3, <2>4 DEF LastMade
  <1>6. CASE CopyAndPack
    <2>1. UNCHANGED tvars /\ ~Adding /\ ~Adding' /\ Pack
      BY <1>6, WhilePacking DEF CopyAndPack
    <2>2. UNCHANGED last
      BY <2>1, PackStepIInv
    <2> QED
      BY <1>1, <2>1, <2>2 DEF tvars
  <1>7. CASE LookupPrefix
    <2>1. PackedStep /\ UNCHANGED tvars
      BY <1>7 DEF LookupPrefix
    <2>2. UNCHANGED last /\ ~Adding /\ ~Adding'
      BY <2>1, WhileLooking
    <2> QED
      BY <1>1, <2>1, <2>2 DEF tvars
  <1>8. CASE Looked \/ Scan
    <2>1. UNCHANGED <<tvars, pvars>> /\ ~Adding /\ ~Adding'
      BY <1>8, WhileHyphenating
    <2> QED
      BY <1>1, <2>1 DEF tvars, pvars
  <1>9. CASE \E s \in Isbns : Ask(s)
    <2>1. UNCHANGED tvars /\ phase = "packed" /\ (Query \/ UNCHANGED pvars)
      BY <1>9, Asked
    <2>2. tpc = "done" /\ ~Adding /\ ~Adding'
      BY <2>1 DEF OneAtATime, Adding, tvars
    <2>3. UNCHANGED last
      <3>1. CASE Query
        BY <2>1, <3>1, WhileLooking
      <3>2. CASE UNCHANGED pvars
        BY <3>2 DEF pvars
      <3> QED
        BY <2>1, <3>1, <3>2
    <2> QED
      BY <1>1, <2>1, <2>2, <2>3 DEF tvars
  <1> QED
    BY <1>2, <1>3, <1>4, <1>5, <1>6, <1>7, <1>8, <1>9, InfoCases

-----------------------------------------------------------------------------
\* hyphenate_isbn under way.

\* A lookup in the block is the call of hyphenate_isbn, which has not tried a
\* range before it; its answer is OK or ENOENT.
OnTurn ==
    /\ phase = "packed" /\ pc # "idle" => hpc = "lookup"
    /\ hpc = "lookup" => i = 0
    /\ hpc = "lookup" /\ pc = "idle" => ret.err \in {"OK", "ENOENT"}

RangeHas(r) == ranges[r].rng_lbound <= registrant /\ registrant <= ranges[r].rng_ubound

\* The ranges tried so far do not have the registrant.
Scanned ==
    hpc = "scan" =>
        /\ Len(isbn) >= 10 => registrant = H!Registrant(isbn)
        /\ i <= prefixes[pfx].nrules
        /\ \A j \in 1..i : ~RangeHas(prefixes[pfx].rule_idx + j)

Told == published = IF Published THEN TableOf(DocGroups) ELSE NoTable

\* The invariant that the refinement rests on, with those of the parts.
HyphenatorIInv ==
    /\ OnTurn /\ Scanned /\ Told /\ NewWord
    /\ Published => LastMade

\* Nothing but OK and ENOENT comes out of the block.
LEMMA BlockErrors ==
    ASSUME PackIInv, PackHInv, Recorded, PackedStep, pc' = "idle"
    PROVE  ret'.err \in {"OK", "ENOENT"}
  <1>1. /\ phase = "packed" /\ PackedUpTo(fst.len) /\ Sizes
    BY QueryIInv
  <1>2. CASE PackedFault
    BY <1>2 DEF PackedFault
  <1>3. CASE PackedAstray
    BY <1>3 DEF PackedAstray, Return, Answer
  <1>4. CASE PackedLookup
    <2>1. LookupFinal \/ LookupEnd \/ LookupMiss \/ LookupFollow
      BY <1>1, <1>4, SameStep
    <2>2. pc = "lookup"
      BY <2>1 DEF LookupFinal, LookupEnd, LookupMiss, LookupFollow, AtPrefixTest,
                  PastPrefixTest
    <2>3. HInv /\ book = Contents
      BY <2>2 DEF PackHInv
    <2>4. ~LookupFollow
      BY <2>3, FollowSilent
    <2>5. Dict!PrefixHit \/ Dict!WholeHit \/ Dict!Miss
      BY <2>1, <2>3, <2>4, LookupFinalMaps, LookupEndMaps, LookupMissMaps
    <2> QED
      BY <2>5, SameApi DEF Dict!PrefixHit, Dict!WholeHit, Dict!Miss, Dict!Return, Answer
  <1> QED
    BY <1>2, <1>3, <1>4 DEF PackedStep

\* Before the transducer is packed nothing is hyphenated.
LEMMA StillBuilding ==
    ASSUME OneAtATime, ReadDoc \/ CallAddString \/ AddString \/ EntryAdded
    PROVE  /\ phase = "build" /\ phase' = "build" /\ tpc # "done"
           /\ hpc = "idle" /\ UNCHANGED hyphenation
  <1>1. UNCHANGED <<phase, hyphenation>> /\ tpc # "done"
    <2>1. CASE ReadDoc
      BY <2>1 DEF ReadDoc, ParseDoc, Descend, ReadText, PassOver, RefuseRule, AddRule,
             Ascend, LeaveGroup, RefusePrefix, EndOfDocument, Walking, Leaving, pvars
    <2>2. CASE CallAddString
      BY <2>2 DEF CallAddString, BuildCall, packing
    <2>3. CASE AddString
      BY <2>3, WhileAdding DEF Adding
    <2>4. CASE EntryAdded
      BY <2>4 DEF EntryAdded, pvars
    <2> QED
      BY <2>1, <2>2, <2>3, <2>4
  <1> QED
    BY <1>1 DEF OneAtATime

\* hyphenate_isbn and the block take turns.
LEMMA OnTurnStep ==
    ASSUME PackIInv, PackHInv, OneAtATime, OnTurn, InfoNext
    PROVE  OnTurn'
  <1>1. CASE ReadDoc \/ CallAddString \/ AddString \/ EntryAdded
    BY <1>1, StillBuilding DEF OnTurn, hyphenation
  <1>2. CASE CopyAndPack
    BY <1>2, WhilePacking DEF OnTurn, hyphenation
  <1>3. CASE LookupPrefix
    <2>1. PackedStep /\ UNCHANGED <<tvars, hyphenation>>
      BY <1>3 DEF LookupPrefix
    <2>2. UNCHANGED phase /\ phase = "packed" /\ pc = "lookup"
      BY <2>1, WhileLooking
    <2>3. pc' = "idle" => ret'.err \in {"OK", "ENOENT"}
      BY <2>1, BlockErrors, PackParts
    <2> QED
      BY <2>1, <2>2, <2>3 DEF OnTurn, hyphenation
  <1>4. CASE Looked \/ Scan
    <2>1. pc = "idle"
      <3>1. CASE Looked
        BY <3>1 DEF Looked
      <3>2. CASE Scan
        <4>1. hpc = "scan" /\ phase = "packed"
          BY <3>2, WhileHyphenating DEF Scan, H!TryRange, H!NoRange
        <4> QED
          BY <4>1 DEF OnTurn
      <3> QED
        BY <1>4, <3>1, <3>2
    <2> QED
      BY <1>4, <2>1, WhileHyphenating DEF OnTurn, pvars
  <1>5. CASE \E s \in Isbns : Ask(s)
    <2>1. PICK s \in Isbns : Ask(s)
      BY <1>5
    <2>2. phase = "packed" /\ hpc = "idle" /\ i' = 0
      BY <2>1, Asked
    <2>3. pc = "idle"
      BY <2>2 DEF OnTurn
    <2>4. CASE hpc' = "lookup" /\ Query
      <3>1. pc' # "idle"
        BY <2>4 DEF Query, QueryCall, P!Invoke
      <3> QED
        BY <2>2, <2>4, <3>1 DEF OnTurn
    <2>5. CASE hpc' = "idle" /\ UNCHANGED pvars
      BY <2>3, <2>5 DEF OnTurn, pvars
    <2> QED
      BY <2>1, <2>4, <2>5, Asked
  <1> QED
    BY <1>1, <1>2, <1>3, <1>4, <1>5, InfoCases

\* A range is passed over because it does not have the registrant.
LEMMA ScannedStep ==
    ASSUME PackIInv, OneAtATime, NumbersRead, OnTurn, Scanned, InfoNext,
           NumbersRead', EntryOfPrefix'
    PROVE  Scanned'
  <1>1. CASE ReadDoc \/ CallAddString \/ AddString \/ EntryAdded
    BY <1>1, StillBuilding DEF Scanned, hyphenation
  <1>2. CASE CopyAndPack \/ LookupPrefix
    <2>1. UNCHANGED <<tvars, hyphenation>>
      BY <1>2 DEF CopyAndPack, LookupPrefix
    <2> QED
      BY <2>1 DEF Scanned, RangeHas, tvars, hyphenation
  <1>3. CASE Looked
    <2> SUFFICES ASSUME hpc' = "scan" PROVE Scanned'
      BY DEF Scanned
    <2>1. /\ UNCHANGED <<tvars, isbn, i>> /\ i = 0
          /\ Len(isbn) >= 10 => registrant' = H!Registrant(isbn)
      BY <1>3 DEF Looked, H!Looked, OnTurn
    <2>2. i' = 0 /\ pfx' \in 1..prefix_nr'
      BY <2>1 DEF EntryOfPrefix, prefix_nr
    <2>3. prefixes'[pfx'].nrules \in Nat
      BY <2>2 DEF NumbersRead
    <2>4. 0 <= prefixes'[pfx'].nrules
      BY <2>3
    <2>5. \A j \in 1..i' : FALSE
      BY <2>2
    <2> QED
      BY <2>1, <2>2, <2>4, <2>5 DEF Scanned
  <1>4. CASE Scan
    <2> SUFFICES ASSUME hpc' = "scan" PROVE Scanned'
      BY DEF Scanned
    <2>1. H!TryRange /\ ~H!InRange /\ hpc = "scan" /\ i' = i + 1 /\ i < prefixes[pfx].nrules
          /\ UNCHANGED <<tvars, isbn, pfx, registrant>>
      BY <1>4 DEF Scan, H!TryRange, H!NoRange
    <2>2. i \in Nat /\ pfx \in 1..prefix_nr
      <3>1. pfx' \in 1..Len(prefixes')
        BY DEF EntryOfPrefix
      <3> QED
        BY <2>1, <3>1 DEF NumbersRead, prefix_nr, tvars
    <2>3. prefixes[pfx].nrules \in Nat /\ prefixes[pfx].rule_idx \in Int
      BY <2>2 DEF NumbersRead
    <2>4. ~RangeHas(prefixes[pfx].rule_idx + i + 1)
      BY <2>1 DEF H!InRange, H!Rule, RangeHas
    <2>5. i + 1 <= prefixes[pfx].nrules
      BY <2>1, <2>2, <2>3
    <2>6. ASSUME NEW j \in 1..i + 1 PROVE ~RangeHas(prefixes[pfx].rule_idx + j)
      <3>1. j \in 1..i \/ j = i + 1
        BY <2>2
      <3>2. prefixes[pfx].rule_idx + (i + 1) = prefixes[pfx].rule_idx + i + 1
        BY <2>2, <2>3
      <3> QED
        BY <2>1, <2>4, <3>1, <3>2 DEF Scanned
    <2> QED
      BY <2>1, <2>5, <2>6 DEF Scanned, RangeHas, tvars
  <1>5. CASE \E s \in Isbns : Ask(s)
    BY <1>5, Asked DEF Scanned
  <1> QED
    BY <1>1, <1>2, <1>3, <1>4, <1>5, InfoCases

\* The document stays as it is, and what it says.
LEMMA ToldStep ==
    ASSUME Told, [InfoNext]_infovars
    PROVE  Told' /\ doc' = doc /\ (Published' <=> Published)
  <1>1. published' = published
    BY DEF InfoNext, Histories, infovars
  <1>2. TNext \/ UNCHANGED tvars
    <2>1. CASE UNCHANGED infovars
      BY <2>1 DEF infovars
    <2>2. CASE InfoStep
      BY <2>2 DEF InfoStep, ReadDoc, CallAddString, AddString, EntryAdded, CopyAndPack,
                  LookupPrefix, Looked, Scan, TNext
    <2>3. CASE \E s \in Isbns : Ask(s)
      BY <2>3 DEF Ask
    <2> QED
      BY <2>1, <2>2, <2>3 DEF InfoNext
  <1>3. doc' = doc
    BY <1>2, DocKept DEF tvars
  <1>4. DocGroups' = DocGroups
    BY <1>3 DEF DocGroups
  <1>5. Published' <=> Published
    BY <1>3, <1>4 DEF Published
  <1> QED
    BY <1>1, <1>3, <1>4, <1>5 DEF Told

\* In the beginning nothing is read, added or asked for.
LEMMA InitHyphenator == InfoInit => HyphenatorIInv
  <1> SUFFICES ASSUME InfoInit PROVE HyphenatorIInv
    OBVIOUS
  <1>1. TInit /\ PHInit /\ call = Lookup(<<>>) /\ H!Init
    BY DEF InfoInit
  <1>2. pc = "idle" /\ phase = "build" /\ hpc = "idle" /\ tpc = "doc"
    BY <1>1 DEF PHInit, PInit, Init, H!Init, TInit
  <1>3. prefix_nr = 0
    BY <1>1 DEF TInit, prefix_nr
  <1>4. Told
    BY DEF InfoInit, Told
  <1>5. OnTurn /\ Scanned /\ NewWord
    BY <1>2 DEF OnTurn, Scanned, NewWord
  <1>6. LastMade
    BY <1>2, <1>3 DEF LastMade, Adding
  <1> QED
    BY <1>4, <1>5, <1>6 DEF HyphenatorIInv

\* Every step keeps it.
LEMMA NextHyphenator ==
    PackIInv /\ TableIInv /\ WalkIInv /\ InfoIInv /\ InfoIInv'
        /\ (Published => EntriesFollow) /\ HyphenatorIInv /\ [InfoNext]_infovars
      => HyphenatorIInv'
  <1> SUFFICES ASSUME PackIInv, TableIInv, WalkIInv, InfoIInv, InfoIInv',
                      Published => EntriesFollow, HyphenatorIInv, [InfoNext]_infovars
               PROVE  HyphenatorIInv'
    OBVIOUS
  <1>1. Told' /\ (Published' <=> Published)
    BY ToldStep DEF HyphenatorIInv
  <1>2. CASE InfoNext
    <2>1. /\ PackHInv /\ Words /\ OneAtATime /\ BookIsDict /\ NumbersRead /\ NumbersRead'
          /\ EntryOfPrefix'
      BY DEF InfoIInv
    <2>2. OnTurn' /\ Scanned'
      BY <1>2, <2>1, OnTurnStep, ScannedStep DEF HyphenatorIInv
    <2>3. NewWord'
      BY <1>2, <2>1, NewWordStep DEF HyphenatorIInv
    <2>4. Published' => LastMade'
      BY <1>1, <1>2, <2>1, LastStep DEF HyphenatorIInv
    <2> QED
      BY <1>1, <2>2, <2>3, <2>4 DEF HyphenatorIInv
  <1>3. CASE UNCHANGED infovars
    <2>1. UNCHANGED <<pvars, word, tvars, hyphenation>>
      BY <1>3 DEF infovars, phvars
    <2>2. OnTurn' /\ Scanned'
      BY <2>1 DEF HyphenatorIInv, OnTurn, Scanned, RangeHas, pvars, tvars, hyphenation
    <2>3. NewWord'
      BY <2>1 DEF HyphenatorIInv, NewWord, Stored, Final, pvars
    <2>4. LastMade => LastMade'
      BY <2>1 DEF LastMade, Adding, Addition, prefix_nr, pvars, tvars
    <2> QED
      BY <1>1, <2>2, <2>3, <2>4 DEF HyphenatorIInv
  <1> QED
    BY <1>2, <1>3

\* All that is known of a state of the composition.
Known ==
    /\ PackIInv /\ TableIInv /\ WalkIInv /\ InfoIInv
    /\ RangeGroups /\ (Published => EntriesFollow)
    /\ HyphenatorIInv

\* All that is known holds throughout.
LEMMA KnownAlways == InfoSpec => []Known
  <1>1. (PackIInv /\ TableIInv /\ WalkIInv) /\ InfoIInv /\ InfoIInv'
            /\ (RangeGroups /\ (Published => EntriesFollow))
            /\ HyphenatorIInv /\ [InfoNext]_infovars
          => HyphenatorIInv'
    BY NextHyphenator
  <1>2. (PackIInv /\ TableIInv /\ WalkIInv) /\ InfoIInv
            /\ (RangeGroups /\ (Published => EntriesFollow)) /\ HyphenatorIInv
          => Known
    BY DEF Known
  <1> QED
    BY <1>1, <1>2, InitHyphenator, PartsHold, InfoInvariance, TableSteps, FollowInvariance, PTL
       DEF InfoSpec

-----------------------------------------------------------------------------
\* How the steps of the composition look from outside.

\* The stage that Promise is in.
Stage ==
    IF Dead THEN "dead" ELSE IF phase # "packed" THEN "reading"
    ELSE IF hpc = "idle" THEN "idle" ELSE "busy"

\* A process that died takes no step.
LEMMA NoneAfterDeath ==
    ASSUME Known, InfoNext
    PROVE  ~Dead
  <1>1. PackIInv /\ Phases /\ OneAtATime /\ OnTurn
    BY DEF Known, PackIInv, InfoIInv, HyphenatorIInv
  <1>2. tpc \notin {"exit", "fault"}
    <2> SUFFICES ASSUME tpc \in {"exit", "fault"} PROVE FALSE
      OBVIOUS
    <2>1. phase = "build" /\ hpc = "idle" /\ pc # "add"
      BY <1>1 DEF OneAtATime, Adding
    <2>2. CASE ReadDoc
      BY <2>2 DEF ReadDoc, ParseDoc, Descend, ReadText, PassOver, RefuseRule, AddRule,
             Ascend, LeaveGroup, RefusePrefix, EndOfDocument, Walking, Leaving
    <2>3. CASE CallAddString \/ EntryAdded \/ CopyAndPack
      BY <2>3 DEF CallAddString, EntryAdded, CopyAndPack
    <2>4. CASE AddString
      BY <1>1, <2>1, <2>4, WhileAdding
    <2>5. CASE LookupPrefix
      BY <2>1, <2>5 DEF LookupPrefix, PackedStep, PackedFault, PackedAstray, PackedLookup
    <2>6. CASE Looked \/ Scan
      BY <1>1, <2>1, <2>6, WhileHyphenating
    <2>7. CASE \E s \in Isbns : Ask(s)
      BY <2>1, <2>7, Asked
    <2> QED
      BY <2>2, <2>3, <2>4, <2>5, <2>6, <2>7, InfoCases
  <1>3. ASSUME ReadDoc \/ CallAddString \/ AddString \/ EntryAdded
        PROVE  pc # "fault" /\ hpc # "fault" /\ phase # "aborted"
    BY <1>1, <1>3, StillBuilding DEF Phases
  <1>4. ASSUME CopyAndPack
        PROVE  pc # "fault" /\ hpc # "fault" /\ phase # "aborted"
    <2>1. pc = "idle" /\ hpc = "idle"
      BY <1>1, <1>4, WhilePacking
    <2> QED
      BY <1>4, <2>1 DEF CopyAndPack, Pack, Allocate, PackHeader, PackStates, PackTrans, Packed
  <1>5. ASSUME LookupPrefix
        PROVE  pc # "fault" /\ hpc # "fault" /\ phase # "aborted"
    <2>1. PackedStep /\ UNCHANGED tvars
      BY <1>5 DEF LookupPrefix
    <2>2. pc = "lookup" /\ phase = "packed"
      BY <1>1, <2>1, WhileLooking
    <2> QED
      BY <1>1, <2>2 DEF OnTurn
  <1>6. ASSUME Looked \/ Scan
        PROVE  pc # "fault" /\ hpc # "fault" /\ phase # "aborted"
    <2>1. phase = "packed"
      BY <1>1, <1>6, WhileHyphenating
    <2>2. CASE Looked
      BY <2>1, <2>2 DEF Looked, H!Looked
    <2>3. CASE Scan
      <3>1. hpc = "scan"
        BY <2>3 DEF Scan, H!TryRange, H!NoRange
      <3> QED
        BY <1>1, <2>1, <3>1 DEF OnTurn
    <2> QED
      BY <1>6, <2>2, <2>3
  <1>7. ASSUME \E s \in Isbns : Ask(s)
        PROVE  pc # "fault" /\ hpc # "fault" /\ phase # "aborted"
    <2>1. phase = "packed" /\ hpc = "idle"
      BY <1>7, Asked
    <2> QED
      BY <1>1, <2>1 DEF OnTurn
  <1> QED
    BY <1>2, <1>3, <1>4, <1>5, <1>6, <1>7, InfoCases DEF Dead

\* What Promise sees of a step that leaves its call alone: nothing, the end of
\* reading or the end of the process.
LEMMA QuietMaps ==
    ASSUME UNCHANGED <<published, isbn, rc, hbuf>>,
           \/ Stage' = Stage
           \/ Stage = "reading" /\ Stage' \in {"idle", "dead"}
           \/ Stage = "busy" /\ Stage' = "dead" /\ ~Promise!Covered(isbn)
    PROVE  [Promise!Next]_Promise!vars
  <1>1. CASE Stage' = Stage
    BY <1>1 DEF Promise!vars, Stage
  <1>2. CASE Stage = "reading" /\ Stage' = "idle"
    BY <1>2 DEF Promise!Next, Promise!Read, Stage
  <1>3. CASE Stage = "reading" /\ Stage' = "dead"
    BY <1>3 DEF Promise!Next, Promise!Die, Stage
  <1>4. CASE Stage = "busy" /\ Stage' = "dead" /\ ~Promise!Covered(isbn)
    BY <1>4 DEF Promise!Next, Promise!Die, Stage
  <1> QED
    BY <1>1, <1>2, <1>3, <1>4

\* The answer of hyphenate_isbn.
LEMMA ReplyMaps ==
    ASSUME Stage = "busy", Stage' = "idle", UNCHANGED <<published, isbn>>,
           Promise!Covered(isbn) => [rc |-> rc', text |-> hbuf'] \in Promise!RightReplies(isbn)
    PROVE  [Promise!Next]_Promise!vars
  BY DEF Promise!Next, Promise!Reply, Stage

\* Reading and packing.
LEMMA ReadingMaps ==
    ASSUME Known, ~Dead, Histories,
           ReadDoc \/ CallAddString \/ AddString \/ EntryAdded \/ CopyAndPack
    PROVE  [Promise!Next]_Promise!vars
  <1>1. PackIInv /\ Phases /\ OneAtATime
    BY DEF Known, PackIInv, InfoIInv
  <1>2. UNCHANGED <<published, isbn, rc, hbuf>>
    BY DEF Histories, ReadDoc, CallAddString, AddString, EntryAdded, CopyAndPack, hyphenation
  <1>3. CASE ReadDoc \/ CallAddString \/ AddString \/ EntryAdded
    <2>1. phase = "build" /\ phase' = "build"
      BY <1>1, <1>3, StillBuilding
    <2>2. Stage = "reading" /\ Stage' \in {"reading", "dead"}
      BY <2>1 DEF Stage
    <2> QED
      BY <1>2, <2>2, QuietMaps
  <1>4. CASE CopyAndPack
    <2>1. phase # "packed" /\ hpc' = "idle"
      <3>1. Pack /\ hpc' = hpc
        BY <1>4 DEF CopyAndPack, hyphenation
      <3> QED
        BY <1>1, <1>4, <3>1, WhilePacking
           DEF Pack, Allocate, PackHeader, PackStates, PackTrans, Packed
    <2>2. Stage = "reading" /\ Stage' \in {"reading", "idle", "dead"}
      BY <2>1 DEF Stage
    <2> QED
      BY <1>2, <2>2, QuietMaps
  <1> QED
    BY <1>3, <1>4

\* The call of hyphenate_isbn, which has room for its answer.
LEMMA AskMaps ==
    ASSUME Known, ~Dead, Histories, BufSize \in Nat, BufSize >= 18, NEW s \in Isbns, Ask(s)
    PROVE  [Promise!Next]_Promise!vars
  <1>1. /\ UNCHANGED <<tvars, published>> /\ phase = "packed" /\ hpc = "idle"
        /\ isbn' = s /\ hbuf' = <<>>
    BY Asked DEF Histories
  <1>2. hpc' = "lookup" /\ rc' = "none" /\ QueryCall(Lookup(s))
    <2>1. ~(BufSize < 18)
      OBVIOUS
    <2> QED
      BY <2>1 DEF Ask, H!Ask
  <1>3. pc' # "fault" /\ phase' = phase
    BY <1>2 DEF QueryCall, P!Invoke, packing
  <1>4. ~Dead'
    BY <1>1, <1>2, <1>3 DEF Dead, tvars
  <1>5. Stage = "idle" /\ Stage' = "busy"
    BY <1>1, <1>2, <1>3, <1>4 DEF Stage
  <1> QED
    BY <1>1, <1>2, <1>5 DEF Promise!Next, Promise!Ask, Promise!NoReply, Stage

\* The table of a published document that has been read: entry k of the prefix
\* table is its group k, and the last state is the last group's.
LEMMA TableRead ==
    ASSUME Known, phase = "packed", published # NoTable
    PROVE  /\ Published /\ EntriesFollow /\ tpc = "done"
           /\ prefix_nr \in Nat /\ prefix_nr > 0 /\ prefix_nr = Len(DocGroups)
           /\ published = TableOf(DocGroups) /\ DOMAIN published = 1..prefix_nr
           /\ Len(published) = prefix_nr
           /\ \A k \in 1..prefix_nr :
                 /\ DocGroups[k] \in Elements /\ GoodGroup(DocGroups[k])
                 /\ published[k].prefix = PrefixOf(DocGroups[k])
                 /\ prefixes[k].prefix = PrefixOf(DocGroups[k])
           /\ last = Last(published).prefix
  <1>1. Published /\ published = TableOf(DocGroups) /\ EntriesFollow /\ LastMade
    BY DEF Known, HyphenatorIInv, Told
  <1>2. tpc = "done" /\ ~Adding
    BY DEF Known, InfoIInv, OneAtATime, Adding
  <1>3. DocGroups \in Seq(Elements)
    BY <1>1, GoodGroups, DocTypes DEF Known, WalkIInv
  <1>4. prefix_nr = Len(DocGroups) /\ prefix_nr \in Nat /\ prefix_nr > 0
    <2>1. Len(DocGroups) \in Nat /\ Len(DocGroups) > 0
      BY <1>1, <1>3 DEF Published
    <2> QED
      BY <1>1, <1>2, <2>1 DEF EntriesFollow
  <1>5. DOMAIN published = 1..prefix_nr /\ Len(published) = prefix_nr
    <2>1. DOMAIN DocGroups = 1..prefix_nr
      BY <1>3, <1>4
    <2>2. DOMAIN published = 1..prefix_nr
      BY <1>1, <2>1 DEF TableOf
    <2>3. published \in Seq({published[k] : k \in 1..prefix_nr})
      <3>1. published = [k \in 1..prefix_nr |-> published[k]]
        BY <1>1, <2>1 DEF TableOf
      <3> QED
        BY <1>4, <3>1
    <2> QED
      BY <1>4, <2>2, <2>3
  <1>6. ASSUME NEW k \in 1..prefix_nr
        PROVE  /\ DocGroups[k] \in Elements /\ GoodGroup(DocGroups[k])
               /\ published[k].prefix = PrefixOf(DocGroups[k])
               /\ prefixes[k].prefix = PrefixOf(DocGroups[k])
    <2>1. k \in 1..Len(DocGroups) /\ k \in DOMAIN DocGroups
      BY <1>3, <1>4
    <2>2. DocGroups[k] \in Elements /\ GoodGroup(DocGroups[k])
      BY <1>1, <2>1, GoodGroups DEF Known, WalkIInv
    <2>3. published[k].prefix = PrefixOf(DocGroups[k])
      BY <1>1, <2>1 DEF TableOf
    <2>4. prefixes[k].prefix = PrefixOf(DocGroups[k])
      BY <1>1 DEF EntriesFollow, EntryFollows
    <2> QED
      BY <2>2, <2>3, <2>4
  <1>7. last = Last(published).prefix
    <2>1. last = prefixes[prefix_nr].prefix
      BY <1>1, <1>2, <1>4 DEF LastMade
    <2>2. prefix_nr \in 1..prefix_nr
      BY <1>4
    <2> QED
      BY <1>5, <1>6, <2>1, <2>2 DEF Last
  <1> QED
    BY <1>1, <1>2, <1>4, <1>5, <1>6, <1>7

\* Both parts mean the same by it.
LEMMA SameBegins == \A p, s : Promise!Begins(p, s) <=> Begins(p, s)
  BY DEF Promise!Begins, Begins

\* Where the lookup in the block may go astray the promise does not extend.
LEMMA LookupMaps ==
    ASSUME Known, ~Dead, Histories, InfoIInv', LookupPrefix
    PROVE  [Promise!Next]_Promise!vars
  <1>1. PackIInv /\ OneAtATime /\ OnTurn /\ PackHInv'
    BY DEF Known, InfoIInv, HyphenatorIInv
  <1>2. PackedStep /\ UNCHANGED <<tvars, hyphenation, published>>
    BY DEF LookupPrefix, Histories
  <1>3. /\ phase = "packed" /\ pc = "lookup" /\ UNCHANGED <<call, last, phase>>
    BY <1>1, <1>2, WhileLooking
  <1>4. hpc = "lookup" /\ call = Lookup(isbn)
    BY <1>1, <1>3 DEF OnTurn, OneAtATime
  <1>5. UNCHANGED <<published, isbn, rc, hbuf, hpc, tpc>>
    BY <1>2 DEF hyphenation, tvars
  <1>6. Stage = "busy"
    BY <1>3, <1>4 DEF Stage
  <1>7. CASE pc' # "fault"
    <2>1. ~Dead'
      BY <1>3, <1>5, <1>7 DEF Dead
    <2>2. Stage' = "busy"
      BY <1>3, <1>4, <1>5, <2>1 DEF Stage
    <2> QED
      BY <1>5, <1>6, <2>2, QuietMaps
  <1>8. CASE pc' = "fault"
    <2>1. Stage' = "dead"
      BY <1>8 DEF Stage, Dead
    <2>2. Begins(last, isbn)
      BY <1>1, <1>3, <1>4, <1>8 DEF PackHInv, FaultAtLast, Lookup
    <2>3. ~Promise!Covered(isbn)
      <3> SUFFICES ASSUME Promise!Covered(isbn) PROVE FALSE
        OBVIOUS
      <3>1. published # NoTable /\ ~Promise!Begins(Promise!Last(published).prefix, isbn)
        BY DEF Promise!Covered
      <3>2. last = Last(published).prefix
        BY <1>3, <3>1, TableRead
      <3>3. Promise!Last(published) = Last(published)
        BY DEF Promise!Last, Last
      <3> QED
        BY <2>2, <3>1, <3>2, <3>3, SameBegins
    <2> QED
      BY <1>5, <1>6, <2>1, <2>3, QuietMaps
  <1> QED
    BY <1>7, <1>8

\* The groups of the table that begin a string are those of the entries that do.
LEMMA GroupsBegin ==
    ASSUME Known, phase = "packed", published # NoTable, NEW s
    PROVE  Promise!GroupsOf(s) = {published[k] : k \in {n \in 1..prefix_nr :
                                                    Begins(prefixes[n].prefix, s)}}
  <1>1. /\ DOMAIN published = 1..prefix_nr /\ Len(published) = prefix_nr
        /\ \A k \in 1..prefix_nr : prefixes[k].prefix = published[k].prefix
    BY TableRead
  <1>2. Promise!ToSet(published) = {published[k] : k \in 1..prefix_nr}
    BY <1>1 DEF Promise!ToSet
  <1>3. Promise!GroupsOf(s) = {g \in Promise!ToSet(published) : Begins(g.prefix, s)}
    BY SameBegins DEF Promise!GroupsOf
  <1> QED
    BY <1>1, <1>2, <1>3

\* A lookup that finds nothing means that no group begins the string.
LEMMA LookedMaps ==
    ASSUME Known, ~Dead, Histories, Looked
    PROVE  [Promise!Next]_Promise!vars
  <1>1. OneAtATime /\ OnTurn /\ PackHInv /\ BookIsDict /\ Placed /\ TableIInv
    BY DEF Known, InfoIInv, HyphenatorIInv
  <1>2. /\ UNCHANGED <<tvars, pvars, isbn, hbuf, published>> /\ hpc = "lookup" /\ pc = "idle"
        /\ \/ ret.err # "OK" /\ rc' = ret.err /\ hpc' = "idle"
           \/ rc' = rc /\ hpc' = "scan"
    BY DEF Looked, H!Looked, Histories
  <1>3. phase = "packed" /\ call = Lookup(isbn) /\ tpc = "done"
    BY <1>1, <1>2 DEF OneAtATime
  <1>4. ~Dead' /\ phase' = "packed"
    BY <1>2, <1>3 DEF Dead, tvars, pvars
  <1>5. Stage = "busy" /\ Stage' = IF hpc' = "idle" THEN "idle" ELSE "busy"
    BY <1>2, <1>3, <1>4 DEF Stage
  <1>6. CASE hpc' = "scan"
    BY <1>2, <1>5, <1>6, QuietMaps
  <1>7. CASE hpc' = "idle"
    <2>1. rc' = "ENOENT" /\ hbuf' = <<>> /\ ret.err = "ENOENT" /\ ret # Pending
      BY <1>1, <1>2, <1>7 DEF OnTurn, Placed, Pending, Answer
    <2>2. ASSUME Promise!Covered(isbn)
          PROVE  Promise!GroupsOf(isbn) = {}
      <3>1. published # NoTable /\ ~Promise!Begins(Promise!Last(published).prefix, isbn)
        BY <2>2 DEF Promise!Covered
      <3>2. /\ last = Last(published).prefix /\ Published /\ EntriesFollow
            /\ prefix_nr = Len(DocGroups)
            /\ \A k \in 1..prefix_nr : prefixes[k].prefix = PrefixOf(DocGroups[k])
        BY <1>3, <3>1, TableRead
      <3>3. ~Begins(last, isbn)
        BY <3>1, <3>2, SameBegins DEF Promise!Last, Last
      <3> DEFINE leaf(w) == \A u \in DOMAIN book : Begins(w, u) => u = w
                 hits == {w \in DOMAIN book : \/ w = isbn
                                              \/ Begins(w, isbn) /\ leaf(w)}
      <3>4. hits = {}
        <4>1. PackedAnswers /\ call.op = "prefix" /\ call.str = isbn
          BY <1>1, <1>3 DEF PackHInv, Lookup
        <4>2. hits # {} => ret.err = "OK"
          BY <1>2, <1>3, <2>1, <3>3, <4>1 DEF PackedAnswers
        <4> QED
          BY <2>1, <4>2
      <3>5. ASSUME NEW n \in 1..prefix_nr, Begins(prefixes[n].prefix, isbn)
            PROVE  FALSE
        <4> DEFINE w == prefixes[n].prefix
        <4>1. ~Adding /\ book = dict /\ book = Contents
          BY <1>1, <1>3 DEF BookIsDict, Adding, PackHInv
        <4>2. w \in DOMAIN book
          BY <1>1, <4>1 DEF TableIInv, Numbered
        <4>3. ASSUME NEW u \in DOMAIN book, Begins(w, u) PROVE u = w
          <5>1. u \in Stored
            BY <4>1 DEF Contents
          <5>2. PICK k \in 1..prefix_nr : k \in 1..Len(DocGroups) /\ u = PrefixOf(DocGroups[k])
            BY <1>1, <3>2, <4>1, <5>1, StoredPrefixes
          <5>3. Begins(PrefixOf(DocGroups[n]), PrefixOf(DocGroups[k]))
            BY <3>2, <4>3, <5>2
          <5>4. n \in DOMAIN DocGroups /\ k \in DOMAIN DocGroups
            BY <3>2, GoodGroups, DocTypes DEF Known, WalkIInv
          <5>5. n = k
            BY <3>2, <5>3, <5>4 DEF Published
          <5> QED
            BY <3>2, <5>2, <5>5
        <4>4. leaf(w)
          BY <4>3
        <4> HIDE DEF w, leaf
        <4>5. w \in hits
          BY <3>5, <4>2, <4>4 DEF w
        <4> QED
          BY <3>4, <4>5
      <3> QED
        BY <1>3, <3>1, <3>5, GroupsBegin
    <2>3. ASSUME Promise!Covered(isbn)
          PROVE  [rc |-> rc', text |-> hbuf'] \in Promise!RightReplies(isbn)
      <3>1. Promise!GroupsOf(isbn) = {}
        BY <2>2, <2>3
      <3>2. Promise!RightReplies(isbn) = {[rc |-> "ENOENT", text |-> <<>>]}
        BY <3>1 DEF Promise!RightReplies
      <3> QED
        BY <2>1, <3>2
    <2> QED
      BY <1>2, <1>5, <1>7, <2>3, ReplyMaps
  <1> QED
    BY <1>2, <1>6, <1>7

-----------------------------------------------------------------------------
\* The number that is compared with the ranges.

\* strtoul is the same on both sides.
LEMMA SameStrtoul == \A s : Promise!Strtoul(s) = Strtoul(s)
  BY DEF Promise!Strtoul, Strtoul, Promise!LeadingDigits, LeadingDigits, Promise!Digit, Digit,
         Promise!SelectInSeq, SelectInSeq, Promise!Min, Min

\* parse_number_slice over seven digits is what strtoul makes of them.
LEMMA RegistrantNumber ==
    ASSUME NEW s \in Seq(0..14), Len(s) >= 13, \A k \in 1..13 : s[k] \in Digit,
           NEW t \in Seq(Int), Len(t) = 7, \A k \in 1..7 : t[k] = s[4 + k]
    PROVE  H!Registrant(s) = Strtoul(t)
  <1> DEFINE Cut(f) == f = [n \in 0..Len(t) |->
                IF n = 0 THEN 0 ELSE Uint32(f[n - 1] * 10 + t[n])]
             Par(f) == f = [k \in 0..7 |->
                IF k = 0 THEN 0 ELSE Uint32(f[k - 1] * 10 + MinusZero(Byte(s, 4 + k - 1)))]
             g == CHOOSE f : Cut(f)
             h == CHOOSE f : Par(f)
  <1>1. \A k \in 1..7 : MinusZero(Byte(s, 4 + k - 1)) = t[k] /\ t[k] \in Digit
    <2> SUFFICES ASSUME NEW k \in 1..7
                 PROVE  MinusZero(Byte(s, 4 + k - 1)) = t[k] /\ t[k] \in Digit
      OBVIOUS
    <2>1. Len(s) \in Nat /\ 4 + k - 1 < Len(s) /\ 4 + k - 1 + 1 = 4 + k /\ 4 + k \in 1..13
      OBVIOUS
    <2>2. Byte(s, 4 + k - 1) = t[k] /\ t[k] \in Digit
      BY <2>1 DEF Byte
    <2> QED
      BY <2>2 DEF MinusZero, Digit, HYPHEN, EOS, SPACE
  <1>2. IsBound(t)
    BY <1>1 DEF IsBound
  <1>3. Strtoul(t) = DigitsCut(t) /\ LeadingDigits(t) = t
    BY <1>2, AllDigits, DigitsFit
  <1>4. DigitsCut(t) = g[Len(t)]
    BY <1>3 DEF DigitsCut
  <1>5. H!Registrant(s) = h[7]
    BY DEF H!Registrant, H!ParseNumberSlice, H!Uint32, Uint32, H!MinusZero, MinusZero,
           H!Byte, Byte, H!Digit, Digit, H!HYPHEN, HYPHEN, H!EOS, EOS, H!SPACE, SPACE,
           H!JUNK, JUNK
  <1>6. \A f : Cut(f) <=> Par(f)
    <2> SUFFICES ASSUME NEW f PROVE Cut(f) <=> Par(f)
      OBVIOUS
    <2>1. \A k \in 0..7 : k # 0 => k \in 1..7
      OBVIOUS
    <2>2. [n \in 0..Len(t) |-> IF n = 0 THEN 0 ELSE Uint32(f[n - 1] * 10 + t[n])]
             = [k \in 0..7 |->
                  IF k = 0 THEN 0 ELSE Uint32(f[k - 1] * 10 + MinusZero(Byte(s, 4 + k - 1)))]
      BY <1>1, <2>1
    <2> QED
      BY <2>2
  <1>7. g = h
    <2> HIDE DEF Cut, Par
    <2> QED
      BY <1>6, Zenon
  <1> HIDE DEF g, h
  <1> QED
    BY <1>3, <1>4, <1>5, <1>7

\* So it is the key by which the promise looks for a range.
LEMMA KeyIsRegistrant ==
    ASSUME NEW s \in Seq(0..14), Promise!IsIsbn(s), NEW g, Len(g.prefix) = 4
    PROVE  Promise!RangeKey(s, g) = H!Registrant(s)
  <1> DEFINE rest == SubSeq(s, 4 + 1, 12)
             t == [k \in 1..7 |-> IF k <= Len(rest) THEN rest[k] ELSE 0]
  <1>1. Len(s) \in Nat /\ Len(s) >= 13 /\ \A k \in 1..13 : s[k] \in Digit
    BY DEF Promise!IsIsbn, Promise!Digit, Digit
  <1>2. Len(rest) = 8 /\ \A k \in 1..8 : rest[k] = s[4 + k]
    <2>1. \A k \in 5..12 : s[k] \in 0..14
      <3>1. \A k \in 5..12 : k \in 1..Len(s)
        BY <1>1
      <3> QED
        BY <3>1
    <2>2. Len(rest) = 12 - 5 + 1 /\ \A k \in 1..(12 - 5 + 1) : rest[k] = s[5 + k - 1]
      BY <2>1, SubSeqProperties
    <2> HIDE DEF rest
    <2>3. 12 - 5 + 1 = 8 /\ \A k \in 1..8 : 5 + k - 1 = 4 + k
      OBVIOUS
    <2> QED
      BY <2>2, <2>3
  <1> HIDE DEF rest
  <1>3. t \in Seq(Int) /\ Len(t) = 7 /\ \A k \in 1..7 : t[k] = s[4 + k]
    <2>1. \A k \in 1..7 : k <= 8 /\ k \in 1..8 /\ 4 + k \in 1..13
      OBVIOUS
    <2>2. \A k \in 1..7 : t[k] = s[4 + k] /\ s[4 + k] \in Int
      BY <1>1, <1>2, <2>1 DEF Digit
    <2>3. t \in [1..7 -> Int]
      BY <2>2
    <2> QED
      BY <2>2, <2>3
  <1>4. Promise!RangeKey(s, g) = Promise!Strtoul(t)
    BY DEF Promise!RangeKey, rest
  <1> HIDE DEF t
  <1> QED
    BY <1>1, <1>3, <1>4, RegistrantNumber, SameStrtoul

-----------------------------------------------------------------------------
\* The ranges of an entry.

\* One digit makes itself.
LEMMA OneDigit ==
    ASSUME NEW d \in 0..7
    PROVE  Strtoul(<<d>>) = d
  <1> DEFINE s == <<d>>
             Add(f) == f = [n \in 0..Len(s) |-> IF n = 0 THEN 0 ELSE f[n - 1] * 10 + s[n]]
             h == CHOOSE f : Add(f)
             one == [n \in 0..1 |-> IF n = 0 THEN 0 ELSE d]
  <1>1. s \in Seq(Int) /\ Len(s) = 1 /\ s[1] = d
    OBVIOUS
  <1>2. IsBound(s)
    BY <1>1 DEF IsBound, Digit
  <1>3. Strtoul(s) = h[Len(s)]
    <2>1. LeadingDigits(s) = s
      BY <1>1, <1>2, AllDigits
    <2> QED
      BY <2>1 DEF Strtoul
  <1> HIDE DEF s
  <1>4. Add(one)
    <2>1. one[0] = 0 /\ one[1] = d
      OBVIOUS
    <2>2. \A n \in 0..1 : one[n] = IF n = 0 THEN 0 ELSE one[n - 1] * 10 + s[n]
      BY <1>1, <2>1
    <2> QED
      BY <1>1, <2>2
  <1>5. Add(h)
    <2> HIDE DEF Add
    <2> QED
      BY <1>4
  <1> HIDE DEF h
  <1>6. h[1] = d
    <2>1. h[0] = 0
      BY <1>1, <1>5
    <2>2. h[1] = h[0] * 10 + s[1]
      BY <1>1, <1>5
    <2> QED
      BY <1>1, <2>1, <2>2
  <1> QED
    BY <1>1, <1>3, <1>6 DEF s

\* Of a good rule add_rule_str makes what the table of the document says.
LEMMA GoodRange ==
    ASSUME NEW rule \in Elements, GoodRule(rule)
    PROVE  /\ RangeOf(rule).rng_len = Text1(rule, "Length")[1]
           /\ Text1(rule, "Length")[1] \in 0..7
           /\ RangeOf(rule).rng_lbound = Strtoul(SubSeq(Text1(rule, "Range"), 1, 7))
           /\ RangeOf(rule).rng_ubound = Strtoul(SubSeq(Text1(rule, "Range"), 9, 15))
  <1> DEFINE text == Text1(rule, "Range")
  <1>1. <<rule>> \in Seq(Elements)
    OBVIOUS
  <1>2. ASSUME NEW name, Only(rule, name)
        PROVE  TextOf(rule, name) = Text1(rule, name) /\ Named(<<rule>>, name)[1] \in Of(name)
    <2>1. Named(<<rule>>, name) \in Seq(Of(name)) /\ Len(Named(<<rule>>, name)) = 1
      BY <1>1, <1>2, NamedType DEF Only
    <2> QED
      BY <2>1 DEF TextOf, Text1, Last
  <1>3. /\ text # NoText /\ Len(text) = 15 /\ text[8] = HYPHEN
        /\ \A k \in 1..15 \ {8} : text[k] \in Digit
        /\ Text1(rule, "Length") \in {<<n>> : n \in 0..7}
        /\ Only(rule, "Range") /\ Only(rule, "Length")
    BY DEF GoodRule
  <1>4. text \in Seq(0..14)
    <2> PICK e : e = Named(<<rule>>, "Range")[1]
      OBVIOUS
    <2>1. e \in Elements /\ e.name = "Range" /\ text = e.text
      BY <1>2, <1>3 DEF Text1, Of
    <2>2. IsElement(e)
      BY <2>1, DocsAssumption
    <2> QED
      BY <1>3, <2>1, <2>2 DEF IsElement
  <1>5. TextOf(rule, "Range") = text /\ TextOf(rule, "Length") = Text1(rule, "Length")
    BY <1>2, <1>3
  <1>6. PICK n \in 0..7 : Text1(rule, "Length") = <<n>>
    BY <1>3
  <1> HIDE DEF text
  <1>7. /\ SubSeq(text, 1, 8 - 1) \in Seq(Int) /\ SubSeq(text, 8 + 1, Len(text)) \in Seq(Int)
        /\ 8 \in 1..Len(text)
    <2>1. 8 \in 1..Len(text)
      BY <1>3
    <2> QED
      BY <1>4, <2>1, PartOfText
  <1>8. IsBound(SubSeq(text, 1, 7)) /\ IsBound(SubSeq(text, 9, 15))
    <2>1. /\ \A k \in 1..7 : k \in 1..15 \ {8} /\ k \in 1..Len(text)
          /\ \A k \in 9..15 : k \in 1..15 \ {8} /\ k \in 1..Len(text)
      BY <1>3
    <2>2. /\ \A k \in 1..7 : text[k] \in 0..9
          /\ \A k \in 9..15 : text[k] \in 0..9
      BY <1>3, <2>1 DEF Digit
    <2>3. SubSeq(text, 1, 7) \in Seq(0..9) /\ Len(SubSeq(text, 1, 7)) = 7 - 1 + 1
      BY <2>2, SubSeqProperties
    <2>4. SubSeq(text, 9, 15) \in Seq(0..9) /\ Len(SubSeq(text, 9, 15)) = 15 - 9 + 1
      BY <2>2, SubSeqProperties
    <2> QED
      BY <2>3, <2>4 DEF IsBound, Digit
  <1>9. LoStr(text) = SubSeq(text, 1, 7) /\ HiStr(text) = SubSeq(text, 9, 15)
    <2>1. 8 - 1 = 7 /\ 8 + 1 = 9
      OBVIOUS
    <2> QED
      BY <1>3, <1>4, <1>7, <1>8, <2>1, Halves
  <1>10. /\ StrtoullCut(SubSeq(text, 1, 7)) = Strtoul(SubSeq(text, 1, 7))
         /\ StrtoullCut(SubSeq(text, 9, 15)) = Strtoul(SubSeq(text, 9, 15))
    <2>1. SubSeq(text, 1, 7) \in Seq(Int) /\ SubSeq(text, 9, 15) \in Seq(Int)
      BY <1>3, <1>7
    <2> QED
      BY <1>8, <2>1, DigitsFit
  <1>11. Strtoul(Text1(rule, "Length")) = n /\ Text1(rule, "Length")[1] = n
    BY <1>6, OneDigit
  <1> QED
    BY <1>5, <1>9, <1>10, <1>11 DEF RangeOf, text

\* Intervals that are the same.
LEMMA SameInterval ==
    ASSUME NEW a \in Int, NEW b \in Int, NEW m \in Nat, NEW n \in Nat,
           a + 1..a + m = b + 1..b + n
    PROVE  m = n /\ (n > 0 => a = b)
  <1>1. CASE m = 0
    <2>1. b + 1 \notin a + 1..a + m
      BY <1>1
    <2> QED
      BY <1>1, <2>1
  <1>2. CASE n = 0
    <2>1. a + 1 \notin b + 1..b + n
      BY <1>2
    <2> QED
      BY <1>2, <2>1
  <1>3. CASE m > 0 /\ n > 0
    <2>1. /\ a + 1 \in a + 1..a + m /\ a + m \in a + 1..a + m
          /\ b + 1 \in b + 1..b + n /\ b + n \in b + 1..b + n
      BY <1>3
    <2>2. a + 1 >= b + 1 /\ b + 1 >= a + 1 /\ a + m <= b + n /\ b + n <= a + m
      BY <2>1
    <2> QED
      BY <2>2
  <1> QED
    BY <1>1, <1>2, <1>3

\* The ranges that entry k points at are those of the rules of group k.
LEMMA EntryRules ==
    ASSUME Known, phase = "packed", published # NoTable, NEW k \in 1..prefix_nr
    PROVE  LET rs == RulesOf(DocGroups[k])
               e == prefixes[k]
           IN  /\ rs \in Seq(Elements) /\ e.nrules = Len(rs)
               /\ \A j \in 1..Len(rs) :
                     e.rule_idx + j \in 1..rule_nr /\ DocRules[e.rule_idx + j] = rs[j]
  <1> DEFINE rs == RulesOf(DocGroups[k])
             before == RulesUpTo(k - 1)
             later == Named(Named(Rest(DocGroups, k), "Rules"), "Rule")
             Count(g) == Len(RulesUpTo(g))
             all == Len(DocGroups)
  <1>1. /\ Published /\ EntriesFollow /\ tpc = "done" /\ prefix_nr = all
        /\ all \in Nat /\ TableIInv /\ WalkIInv /\ RangeGroups
    BY TableRead DEF Known
  <1>2. doc.root \in Elements /\ k \in 1..all
    BY <1>1, GoodGroups DEF WalkIInv
  <1>3. /\ before \in Seq(Elements) /\ rs \in Seq(Elements)
        /\ RulesUpTo(k) = before \o rs
    BY <1>2, RulesUpToNext
  <1>4. later \in Seq(Elements) /\ DocRules = (before \o rs) \o later
    <2>1. k \in 0..all
      BY <1>1, <1>2
    <2> QED
      BY <1>2, <1>3, <2>1, RulesSplit
  <1>5. /\ \A g \in 0..all : Count(g) \in Nat
        /\ \A g, h \in 0..all : g <= h => Count(g) <= Count(h)
    BY <1>2, RulesUpToGrows
  <1>6. Count(all) = rule_nr
    <2>1. SubSeq(DocGroups, 1, all) = DocGroups
      BY <1>2, DocTypes, SubSeqFull
    <2>2. RulesUpTo(all) = DocRules
      BY <2>1 DEF RulesUpTo, DocRules
    <2>3. rule_nr = Len(DocRules)
      BY <1>1 DEF WalkIInv, RangesRead, EntriesFollow
    <2> QED
      BY <2>2, <2>3
  <1>7. Owners(k) = k..k
    <2>1. k \in Int /\ source.prefixes[k] = k
      BY <1>1 DEF EntriesFollow, EntryFollows
    <2>2. CASE k = 1
      BY <2>1, <2>2 DEF Owners
    <2>3. CASE k # 1
      <3>1. k - 1 \in 1..prefix_nr
        BY <1>1, <1>2, <2>3
      <3>2. source.prefixes[k - 1] = k - 1
        BY <1>1, <3>1 DEF EntriesFollow, EntryFollows
      <3> QED
        BY <2>1, <2>3, <3>2 DEF Owners
    <2> QED
      BY <2>2, <2>3
  <1>8. /\ Count(k - 1) = Len(before) /\ Len(before) \in Nat /\ Len(rs) \in Nat
        /\ Count(k) = Len(before) + Len(rs)
    <2>1. Len(before) \in Nat /\ Len(rs) \in Nat
      BY <1>3, LenProperties
    <2>2. Len(before \o rs) = Len(before) + Len(rs)
      BY <1>3, ConcatProperties
    <2> QED
      BY <1>3, <2>1, <2>2
  <1>9. \A r \in 1..rule_nr : LET g == source.ranges[r]
                              IN  g \in 1..all /\ Count(g - 1) < r /\ r <= Count(g)
    BY <1>1 DEF RangeGroups
  <1> DEFINE from == Len(before)
             n == Len(rs)
             mine == {r \in 1..rule_nr : source.ranges[r] \in Owners(k)}
  <1> HIDE DEF rs, before, later, Count, all
  <1>10. mine = from + 1..from + n
    <2>0. rule_nr \in Nat /\ from \in Nat /\ n \in Nat /\ k \in Nat /\ k - 1 \in 0..all /\ k \in 0..all
          /\ all \in 0..all
      BY <1>1, <1>2, <1>8, CurNat
    <2>1. ASSUME NEW r \in mine PROVE r \in from + 1..from + n
      <3>1. r \in 1..rule_nr /\ source.ranges[r] = k
        BY <1>7, <2>0
      <3>2. Count(k - 1) < r /\ r <= Count(k)
        BY <1>9, <3>1
      <3> QED
        BY <1>8, <2>0, <3>1, <3>2
    <2>2. ASSUME NEW r \in from + 1..from + n PROVE r \in mine
      <3>1. Count(k) <= Count(all) /\ Count(k) \in Nat
        BY <1>2, <1>5, <2>0
      <3>2. r \in 1..rule_nr
        BY <1>6, <1>8, <2>0, <3>1
      <3> PICK g : g = source.ranges[r]
        OBVIOUS
      <3>3. g \in 1..all /\ Count(g - 1) < r /\ r <= Count(g)
        BY <1>9, <3>2
      <3>4. g \in 0..all /\ g - 1 \in 0..all
        BY <1>1, <3>3
      <3> PICK b, c : b = g - 1 /\ c = k - 1
        OBVIOUS
      <3>5. Count(b) \in Nat /\ Count(g) \in Nat /\ Count(c) = from /\ Count(k) = from + n
        BY <1>5, <1>8, <3>4
      <3>6. ~(g <= c)
        <4>1. g <= c => Count(g) <= Count(c)
          BY <1>5, <2>0, <3>4
        <4> QED
          BY <2>0, <3>3, <3>5, <4>1
      <3>7. ~(k <= b)
        <4>1. k <= b => Count(k) <= Count(b)
          BY <1>5, <2>0, <3>4
        <4> QED
          BY <2>0, <3>3, <3>5, <4>1
      <3>8. g = k
        BY <1>1, <2>0, <3>4, <3>6, <3>7
      <3>9. source.ranges[r] \in Owners(k)
        BY <1>7, <2>0, <3>8
      <3> QED
        BY <3>2, <3>9
    <2> QED
      BY <2>1, <2>2
  <1> PICK a, m : a = prefixes[k].rule_idx /\ m = prefixes[k].nrules
    OBVIOUS
  <1>11. a \in Int /\ m \in Nat
    BY DEF Known, InfoIInv, NumbersRead
  <1>12. mine = a + 1..a + m
    BY <1>1 DEF TableIInv, Counts, RulesHandedOn
  <1> HIDE DEF mine
  <1>13. m = n /\ (n > 0 => a = from)
    <2>1. a + 1..a + m = from + 1..from + n
      BY <1>10, <1>12
    <2>2. from \in Int /\ n \in Nat
      BY <1>8
    <2> HIDE DEF from, n
    <2> QED
      BY <1>11, <2>1, <2>2, SameInterval
  <1>14. ASSUME NEW j \in 1..n PROVE a + j \in 1..rule_nr /\ DocRules[a + j] = rs[j]
    <2>1. a = from /\ n \in Nat /\ from \in Nat
      BY <1>8, <1>13
    <2>2. a + j \in mine
      BY <1>12, <1>13, <2>1
    <2>3. a + j \in 1..rule_nr
      BY <2>2 DEF mine
    <2>4. (before \o rs)[from + j] = rs[j] /\ from + j \in 1..from + n
      BY <1>3, <2>1
    <2>5. DocRules[from + j] = (before \o rs)[from + j]
      <3>1. before \o rs \in Seq(Elements) /\ Len(before \o rs) = from + n
        BY <1>3
      <3> PICK s : s = before \o rs
        OBVIOUS
      <3> QED
        BY <1>4, <2>4, <3>1
    <2> QED
      BY <2>1, <2>3, <2>4, <2>5
  <1> QED
    BY <1>3, <1>13, <1>14 DEF rs

-----------------------------------------------------------------------------
\* The hyphens of an ISBN of a one-digit group.

\* Bytes of a string before its end are those of a subsequence.
LEMMA SliceInside ==
    ASSUME NEW s \in Seq(0..14), NEW o \in Nat, NEW n \in Nat, o + n <= Len(s)
    PROVE  Slice(s, o, n) = SubSeq(s, o + 1, o + n)
  <1> PICK from, to : from = o + 1 /\ to = o + n
    OBVIOUS
  <1> DEFINE a == Slice(s, o, n)
             b == SubSeq(s, from, to)
  <1>1. /\ a \in Seq(0..14) /\ Len(a) = n
        /\ \A k \in 1..n : a[k] = Byte(s, o + k - 1)
    BY SliceType
  <1>2. b \in Seq(0..14) /\ Len(b) = n /\ \A k \in 1..n : b[k] = s[o + k]
    <2>1. \A k \in from..to : k \in 1..Len(s)
      OBVIOUS
    <2>2. \A k \in from..to : s[k] \in 0..14
      BY <2>1
    <2>3. from \in Int /\ to \in Int
      OBVIOUS
    <2>4. /\ b \in Seq(0..14) /\ Len(b) = IF from <= to THEN to - from + 1 ELSE 0
          /\ \A k \in 1..to - from + 1 : b[k] = s[from + k - 1]
      BY <2>2, <2>3, SubSeqProperties
    <2> HIDE DEF b
    <2>5. to - from + 1 = n /\ (~(from <= to) => n = 0) /\ \A k \in 1..n : from + k - 1 = o + k
      OBVIOUS
    <2> QED
      BY <2>4, <2>5
  <1> HIDE DEF a, b
  <1>3. ASSUME NEW k \in 1..n PROVE a[k] = b[k]
    <2>1. o + k - 1 < Len(s) /\ o + k - 1 + 1 = o + k
      OBVIOUS
    <2>2. Byte(s, o + k - 1) = s[o + k]
      BY <2>1 DEF Byte
    <2> QED
      BY <1>1, <1>2, <2>2
  <1> QED
    BY <1>1, <1>2, <1>3, SeqEqual DEF a, b

\* Three bytes one by one.
LEMMA ThreeBytes ==
    \A t \in Seq(0..14) : \A a, b, c \in 0..14 :
        ((t \o <<a>>) \o <<b>>) \o <<c>> = t \o <<a, b, c>>
  <1> SUFFICES ASSUME NEW t \in Seq(0..14), NEW a \in 0..14, NEW b \in 0..14, NEW c \in 0..14
               PROVE  ((t \o <<a>>) \o <<b>>) \o <<c>> = t \o <<a, b, c>>
    OBVIOUS
  <1> DEFINE u == t \o <<a>>
             v == u \o <<b>>
             w == v \o <<c>>
             x == <<a, b, c>>
             y == t \o x
  <1> PICK n : n = Len(t)
    OBVIOUS
  <1>1. n \in Nat /\ x \in Seq(0..14) /\ Len(x) = 3 /\ x[1] = a /\ x[2] = b /\ x[3] = c
    OBVIOUS
  <1>2. \A e \in 0..14 : <<e>> \in Seq(0..14) /\ Len(<<e>>) = 1 /\ <<e>>[1] = e
    OBVIOUS
  <1>3. ASSUME NEW q \in Seq(0..14), NEW e \in 0..14
        PROVE  /\ q \o <<e>> \in Seq(0..14) /\ Len(q \o <<e>>) = Len(q) + 1
               /\ \A k \in 1..Len(q) : (q \o <<e>>)[k] = q[k]
               /\ (q \o <<e>>)[Len(q) + 1] = e
    BY <1>2, ConcatProperties
  <1>4. /\ u \in Seq(0..14) /\ Len(u) = n + 1 /\ u[n + 1] = a
        /\ \A k \in 1..n : u[k] = t[k]
    BY <1>3
  <1> HIDE DEF u
  <1>5. /\ v \in Seq(0..14) /\ Len(v) = n + 2 /\ v[n + 2] = b
        /\ \A k \in 1..n + 1 : v[k] = u[k]
    <2>1. n + 1 + 1 = n + 2
      BY <1>1
    <2> QED
      BY <1>3, <1>4, <2>1
  <1> HIDE DEF v
  <1>6. /\ w \in Seq(0..14) /\ Len(w) = n + 3 /\ w[n + 3] = c
        /\ \A k \in 1..n + 2 : w[k] = v[k]
    <2>1. n + 2 + 1 = n + 3
      BY <1>1
    <2> QED
      BY <1>3, <1>5, <2>1
  <1> HIDE DEF w, x
  <1>7. /\ y \in Seq(0..14) /\ Len(y) = n + 3
        /\ \A k \in 1..n + 3 : y[k] = IF k <= n THEN t[k] ELSE x[k - n]
    <2>1. /\ y \in Seq(0..14) /\ Len(y) = Len(t) + Len(x)
          /\ \A k \in 1..Len(t) + Len(x) : y[k] = IF k <= Len(t) THEN t[k] ELSE x[k - Len(t)]
      BY <1>1, ConcatProperties
    <2> HIDE DEF y
    <2>2. Len(t) + Len(x) = n + 3 /\ Len(t) = n
      BY <1>1
    <2> QED
      BY <2>1, <2>2
  <1> HIDE DEF y
  <1>8. ASSUME NEW k \in 1..n + 3 PROVE w[k] = y[k]
    <2>1. CASE k <= n
      <3>1. k \in 1..n /\ k \in 1..n + 1 /\ k \in 1..n + 2
        BY <1>1, <2>1
      <3> QED
        BY <1>4, <1>5, <1>6, <1>7, <2>1, <3>1
    <2>2. CASE k = n + 1
      <3>1. k \in 1..n + 1 /\ k \in 1..n + 2 /\ k - n = 1 /\ ~(k <= n)
        BY <1>1, <2>2
      <3> QED
        BY <1>1, <1>4, <1>5, <1>6, <1>7, <2>2, <3>1
    <2>3. CASE k = n + 2
      <3>1. k \in 1..n + 2 /\ k - n = 2 /\ ~(k <= n)
        BY <1>1, <2>3
      <3> QED
        BY <1>1, <1>5, <1>6, <1>7, <2>3, <3>1
    <2>4. CASE k = n + 3
      <3>1. k - n = 3 /\ ~(k <= n)
        BY <1>1, <2>4
      <3> QED
        BY <1>1, <1>6, <1>7, <2>4, <3>1
    <2> QED
      BY <1>1, <2>1, <2>2, <2>3, <2>4
  <1> QED
    BY <1>6, <1>7, <1>8, SeqEqual DEF u, v, w, x, y

\* place_hyphens does what the table prescribes.
LEMMA HyphensPlaced ==
    ASSUME NEW s \in Seq(0..14), Len(s) >= 13, NEW p \in Seq(0..14), Begins(p, s), Len(p) = 4,
           NEW len \in 0..8, NEW g, g.prefix = p
    PROVE  H!PlaceHyphens(s, len, p) = Promise!Hyphenated(s, g, len)
  <1> DEFINE a == SubSeq(s, 1, 3)
             b == SubSeq(s, 4, 4)
             c == SubSeq(s, 4 + 1, 4 + len)
             d == SubSeq(s, 4 + len + 1, 12)
             t == (((((a \o <<HYPHEN>>) \o b) \o <<HYPHEN>>) \o c) \o <<HYPHEN>>) \o d
  <1>1. /\ 0 \in Nat /\ 1 \in Nat /\ 3 \in Nat /\ 4 \in Nat /\ 12 \in Nat /\ 13 \in Nat
        /\ len \in Nat /\ 8 - len \in Nat /\ 4 + len \in Nat /\ 4 + 1 \in Nat
        /\ 4 + len + 1 \in Nat
    OBVIOUS
  <1>2. \A o, n : H!Slice(s, o, n) = Slice(s, o, n)
    BY DEF H!Slice, Slice, H!Byte, Byte, H!EOS, EOS, H!JUNK, JUNK
  <1>11. \A o, n \in Nat : o + n <= Len(s) => Slice(s, o, n) = SubSeq(s, o + 1, o + n)
    BY SliceInside
  <1>3. /\ Slice(s, 0, 3) = a /\ Slice(s, 3, 1) = b /\ Slice(s, 4, len) = c
        /\ Slice(s, 4 + len, 8 - len) = d /\ Slice(s, 12, 1) = SubSeq(s, 13, 13)
    <2>1. /\ 0 + 3 <= Len(s) /\ 3 + 1 <= Len(s) /\ 4 + len <= Len(s) /\ 12 + 1 <= Len(s)
          /\ 0 + 1 = 1 /\ 0 + 3 = 3 /\ 3 + 1 = 4 /\ 12 + 1 = 13
      OBVIOUS
    <2>2. Slice(s, 0, 3) = SubSeq(s, 0 + 1, 0 + 3)
      BY <1>1, <1>11, <2>1, Zenon
    <2>3. Slice(s, 3, 1) = SubSeq(s, 3 + 1, 3 + 1)
      BY <1>1, <1>11, <2>1, Zenon
    <2>4. Slice(s, 4, len) = c
      BY <1>1, <1>11, <2>1, Zenon
    <2>5. Slice(s, 12, 1) = SubSeq(s, 12 + 1, 12 + 1)
      BY <1>1, <1>11, <2>1, Zenon
    <2>6. Slice(s, 4 + len, 8 - len) = d
      <3> PICK o, n : o = 4 + len /\ n = 8 - len
        OBVIOUS
      <3>1. o \in Nat /\ n \in Nat /\ o + n <= Len(s) /\ o + n = 12
        BY <1>1
      <3>2. Slice(s, o, n) = SubSeq(s, o + 1, o + n)
        BY <1>11, <3>1, Zenon
      <3> QED
        BY <3>1, <3>2
    <2> HIDE DEF c, d
    <2> QED
      BY <2>1, <2>2, <2>3, <2>4, <2>5, <2>6
  <1>4. SubSeq(p, 4, 4) = b
    <2>0. Len(p) >= 3
      OBVIOUS
    <2>1. SubSeq(p, 4, Len(p)) = Slice(s, 3, Len(p) - 3)
      BY <2>0, PrefixSlice
    <2>2. Len(p) - 3 = 1
      OBVIOUS
    <2> QED
      BY <1>3, <2>1, <2>2
  <1>5. SubSeq(s, 13, 13) = <<s[13]>> /\ s[13] \in 0..14
    <2>1. 13 \in 1..Len(s)
      OBVIOUS
    <2>2. s[13] \in 0..14
      BY <2>1
    <2>3. \A k \in 13..13 : s[k] \in 0..14
      BY <2>2
    <2>4. /\ SubSeq(s, 13, 13) \in Seq(0..14) /\ Len(SubSeq(s, 13, 13)) = 13 - 13 + 1
          /\ \A k \in 1..(13 - 13 + 1) : SubSeq(s, 13, 13)[k] = s[13 + k - 1]
      BY <2>3, SubSeqProperties
    <2> PICK t1, e : t1 = SubSeq(s, 13, 13) /\ e = s[13]
      OBVIOUS
    <2>5. t1 \in Seq(0..14) /\ Len(t1) = 1 /\ t1[1] = e
      BY <2>4
    <2>6. t1 = <<e>>
      <3>1. /\ <<e>> \in Seq(0..14) /\ Len(<<e>>) = 1 /\ <<e>>[1] = e
            /\ \A k \in 1..1 : k = 1
        BY <2>2
      <3> QED
        BY <2>5, <3>1, SeqEqual
    <2> QED
      BY <2>2, <2>6
  <1>6. /\ a \in Seq(0..14) /\ b \in Seq(0..14) /\ c \in Seq(0..14) /\ d \in Seq(0..14)
    <2>1. \A o, n \in Nat : Slice(s, o, n) \in Seq(0..14)
      BY SliceType
    <2> HIDE DEF a, b, c, d
    <2> QED
      BY <1>1, <1>3, <2>1
  <1>7. H!PlaceHyphens(s, len, p) = ((t \o <<HYPHEN>>) \o <<s[13]>>) \o <<EOS>>
    <2>1. H!PlaceHyphens(s, len, p) =
            Slice(s, 0, 3) \o <<HYPHEN>> \o SubSeq(p, 4, Len(p))
                \o <<HYPHEN>> \o Slice(s, 3 + (Len(p) - 3), len)
                \o <<HYPHEN>> \o Slice(s, 3 + (Len(p) - 3) + len, 8 - len)
                \o <<HYPHEN>> \o Slice(s, 12, 1) \o <<EOS>>
      BY <1>2 DEF H!PlaceHyphens, H!Publication, H!HYPHEN, HYPHEN, H!EOS, EOS
    <2>2. Len(p) = 4 /\ 3 + (Len(p) - 3) = 4
      OBVIOUS
    <2> HIDE DEF a, b, c, d
    <2> QED
      BY <1>3, <1>4, <1>5, <2>1, <2>2
  <1>8. Promise!Hyphenated(s, g, len) = t \o <<HYPHEN, s[13], EOS>>
    BY DEF Promise!Hyphenated, Promise!HYPHEN, HYPHEN, Promise!EOS, EOS
  <1>9. t \in Seq(0..14)
    <2>1. \A u, v \in Seq(0..14) : u \o v \in Seq(0..14)
      BY ConcatProperties
    <2>2. <<HYPHEN>> \in Seq(0..14)
      BY DEF HYPHEN
    <2> HIDE DEF a, b, c, d
    <2> QED
      BY <1>6, <2>1, <2>2
  <1> HIDE DEF t
  <1>10. HYPHEN \in 0..14 /\ EOS \in 0..14
    BY DEF HYPHEN, EOS
  <1> QED
    BY <1>5, <1>7, <1>8, <1>9, <1>10, ThreeBytes, Zenon

-----------------------------------------------------------------------------
\* The search in the ranges.

\* The ranges of an entry are the rules of its group in the table.
LEMMA EntryRanges ==
    ASSUME Known, phase = "packed", published # NoTable, NEW k \in 1..prefix_nr
    PROVE  /\ prefixes[k].nrules \in Nat
           /\ DOMAIN published[k].rules = 1..prefixes[k].nrules
           /\ \A j \in 1..prefixes[k].nrules :
                 LET range == ranges[prefixes[k].rule_idx + j]
                     rule == published[k].rules[j]
                 IN  /\ rule.len = range.rng_len /\ range.rng_len \in 0..7
                     /\ rule.lo = range.rng_lbound /\ rule.hi = range.rng_ubound
  <1> DEFINE rs == RulesOf(DocGroups[k])
             n == Len(rs)
             a == prefixes[k].rule_idx
  <1>1. /\ rs \in Seq(Elements) /\ prefixes[k].nrules = n
        /\ \A j \in 1..n : a + j \in 1..rule_nr /\ DocRules[a + j] = rs[j]
    BY EntryRules
  <1>2. /\ GoodGroup(DocGroups[k]) /\ published = TableOf(DocGroups) /\ k \in DOMAIN DocGroups
    <2>1. /\ GoodGroup(DocGroups[k]) /\ published = TableOf(DocGroups) /\ Published
          /\ prefix_nr = Len(DocGroups)
      BY TableRead
    <2>2. DocGroups \in Seq(Elements)
      BY <2>1, GoodGroups, DocTypes DEF Known, WalkIInv
    <2> QED
      BY <2>1, <2>2
  <1>3. DOMAIN rs = 1..n /\ n \in Nat
    BY <1>1
  <1>4. published[k].rules =
            [m \in DOMAIN rs |->
                [len |-> Text1(rs[m], "Length")[1],
                 lo |-> Strtoul(SubSeq(Text1(rs[m], "Range"), 1, 7)),
                 hi |-> Strtoul(SubSeq(Text1(rs[m], "Range"), 9, 15))]]
    BY <1>2 DEF TableOf
  <1>5. \A j \in 1..n : rs[j] \in Elements /\ GoodRule(rs[j])
    <2> SUFFICES ASSUME NEW j \in 1..n PROVE rs[j] \in Elements /\ GoodRule(rs[j])
      OBVIOUS
    <2>1. rs[j] \in Elements
      BY <1>1
    <2>2. rs[j] \in ToSet(rs)
      BY <1>3 DEF ToSet
    <2> QED
      BY <1>2, <2>1, <2>2 DEF GoodGroup
  <1>6. WalkIInv
    BY DEF Known
  <1> HIDE DEF rs, n
  <1>7. ASSUME NEW j \in 1..n
        PROVE  LET range == ranges[a + j]
                   rule == published[k].rules[j]
               IN  /\ rule.len = range.rng_len /\ range.rng_len \in 0..7
                   /\ rule.lo = range.rng_lbound /\ rule.hi = range.rng_ubound
    <2> PICK r : r = rs[j]
      OBVIOUS
    <2>1. ranges[a + j] = RangeOf(r)
      BY <1>1, <1>6 DEF WalkIInv, RangesRead
    <2>2. /\ RangeOf(r).rng_len = Text1(r, "Length")[1]
          /\ Text1(r, "Length")[1] \in 0..7
          /\ RangeOf(r).rng_lbound = Strtoul(SubSeq(Text1(r, "Range"), 1, 7))
          /\ RangeOf(r).rng_ubound = Strtoul(SubSeq(Text1(r, "Range"), 9, 15))
      BY <1>5, GoodRange
    <2>3. published[k].rules[j] =
            [len |-> Text1(r, "Length")[1],
             lo |-> Strtoul(SubSeq(Text1(r, "Range"), 1, 7)),
             hi |-> Strtoul(SubSeq(Text1(r, "Range"), 9, 15))]
      BY <1>3, <1>4
    <2> QED
      BY <2>1, <2>2, <2>3
  <1> QED
    BY <1>1, <1>3, <1>4, <1>7

\* Where the promise extends, the entry found is the one group that begins the
\* string.
LEMMA OneGroup ==
    ASSUME Known, phase = "packed", Promise!Covered(isbn), NEW n \in 1..prefix_nr,
           Begins(prefixes[n].prefix, isbn)
    PROVE  /\ Promise!GroupsOf(isbn) = {published[n]}
           /\ published # NoTable /\ Promise!IsIsbn(isbn)
           /\ Len(prefixes[n].prefix) = 4 /\ published[n].prefix = prefixes[n].prefix
           /\ \A r \in Promise!RulesFor(isbn, published[n]) : r.len > 0
  <1>1. published # NoTable
    BY DEF Promise!Covered
  <1>2. /\ Published /\ prefix_nr = Len(DocGroups)
        /\ \A k \in 1..prefix_nr : /\ published[k].prefix = PrefixOf(DocGroups[k])
                                   /\ prefixes[k].prefix = PrefixOf(DocGroups[k])
    BY <1>1, TableRead
  <1>3. Promise!GroupsOf(isbn) = {published[k] : k \in {m \in 1..prefix_nr :
                                                    Begins(prefixes[m].prefix, isbn)}}
    BY <1>1, GroupsBegin
  <1>4. \A g \in Promise!GroupsOf(isbn) : /\ Promise!IsIsbn(isbn) /\ Len(g.prefix) = 4
                                          /\ \A r \in Promise!RulesFor(isbn, g) : r.len > 0
    BY DEF Promise!Covered
  <1>5. ASSUME NEW k \in 1..prefix_nr, Begins(prefixes[k].prefix, isbn)
        PROVE  /\ published[k] \in Promise!GroupsOf(isbn)
               /\ Len(prefixes[k].prefix) = 4 /\ prefixes[k].prefix = SubSeq(isbn, 1, 4)
    <2>1. published[k] \in Promise!GroupsOf(isbn)
      BY <1>3, <1>5
    <2>2. Len(prefixes[k].prefix) = 4
      BY <1>2, <1>4, <2>1
    <2> QED
      BY <1>5, <2>1, <2>2 DEF Begins
  <1>6. ASSUME NEW k \in 1..prefix_nr, Begins(prefixes[k].prefix, isbn)
        PROVE  k = n
    <2> PICK p : p = SubSeq(isbn, 1, 4)
      OBVIOUS
    <2>1. PrefixOf(DocGroups[k]) = p /\ PrefixOf(DocGroups[n]) = p
      BY <1>2, <1>5, <1>6
    <2>2. isbn \in Seq(Char) /\ 4 <= Len(isbn)
      BY <1>5 DEF Known, InfoIInv, Placed, Begins
    <2>3. p \in Seq(Char)
      <3>1. Len(isbn) \in Nat
        BY <2>2
      <3>2. 4 \in 0..Len(isbn)
        BY <2>2, <3>1
      <3> QED
        BY <2>2, <3>2, FirstOf
    <2>4. Begins(p, p)
      BY <2>3, BeginsSelf
    <2>5. k \in DOMAIN DocGroups /\ n \in DOMAIN DocGroups
      <3>1. DocGroups \in Seq(Elements)
        BY <1>2, GoodGroups, DocTypes DEF Known, WalkIInv
      <3> QED
        BY <1>2, <3>1
    <2> QED
      BY <1>2, <2>1, <2>4, <2>5 DEF Published
  <1>7. Promise!GroupsOf(isbn) = {published[n]}
    BY <1>3, <1>5, <1>6
  <1> QED
    BY <1>1, <1>2, <1>4, <1>5, <1>7

\* The state of the search, where the promise extends: the entry is the one
\* group of the string, and its ranges are the rules of the group.
LEMMA CoveredScan ==
    ASSUME Known, hpc = "scan", Promise!Covered(isbn)
    PROVE  /\ Promise!GroupsOf(isbn) = {published[pfx]}
           /\ Len(prefixes[pfx].prefix) = 4 /\ published[pfx].prefix = prefixes[pfx].prefix
           /\ Begins(prefixes[pfx].prefix, isbn) /\ Promise!IsIsbn(isbn)
           /\ registrant = Promise!RangeKey(isbn, published[pfx])
           /\ prefixes[pfx].nrules \in Nat
           /\ Promise!RulesFor(isbn, published[pfx]) =
                 {published[pfx].rules[j] : j \in {m \in 1..prefixes[pfx].nrules :
                                                RangeHas(prefixes[pfx].rule_idx + m)}}
           /\ \A j \in 1..prefixes[pfx].nrules :
                 LET range == ranges[prefixes[pfx].rule_idx + j]
                 IN  published[pfx].rules[j].len = range.rng_len /\ range.rng_len \in 0..7
  <1>1. phase = "packed"
    BY DEF Known, InfoIInv, OneAtATime
  <1>2. pfx \in 1..prefix_nr /\ Begins(prefixes[pfx].prefix, isbn)
    BY DEF Known, InfoIInv, EntryOfPrefix, prefix_nr
  <1>3. /\ Promise!GroupsOf(isbn) = {published[pfx]}
        /\ published # NoTable /\ Promise!IsIsbn(isbn)
        /\ Len(prefixes[pfx].prefix) = 4 /\ published[pfx].prefix = prefixes[pfx].prefix
    BY <1>1, <1>2, OneGroup
  <1> DEFINE rs == published[pfx].rules
             n == prefixes[pfx].nrules
             a == prefixes[pfx].rule_idx
  <1>4. /\ n \in Nat /\ DOMAIN rs = 1..n
        /\ \A j \in 1..n :
              /\ rs[j].len = ranges[a + j].rng_len /\ ranges[a + j].rng_len \in 0..7
              /\ rs[j].lo = ranges[a + j].rng_lbound /\ rs[j].hi = ranges[a + j].rng_ubound
    BY <1>1, <1>2, <1>3, EntryRanges
  <1>5. isbn \in Seq(0..14)
    BY BytesAssumption, SeqMonotonic DEF Known, InfoIInv, Placed
  <1>6. registrant = Promise!RangeKey(isbn, published[pfx])
    <2>1. Len(isbn) >= 13
      BY <1>3 DEF Promise!IsIsbn
    <2>2. Len(isbn) \in Nat
      BY <1>5
    <2>3. Len(isbn) >= 10
      BY <2>1, <2>2
    <2>4. registrant = H!Registrant(isbn)
      BY <2>3 DEF Known, HyphenatorIInv, Scanned
    <2> QED
      BY <1>3, <1>5, <2>4, KeyIsRegistrant
  <1>7. Promise!RulesFor(isbn, published[pfx]) = {rs[j] : j \in {m \in 1..n : RangeHas(a + m)}}
    <2>1. Promise!ToSet(rs) = {rs[j] : j \in 1..n}
      BY <1>4 DEF Promise!ToSet
    <2>2. Promise!RulesFor(isbn, published[pfx]) =
            {r \in Promise!ToSet(rs) : r.lo <= registrant /\ registrant <= r.hi}
      BY <1>6 DEF Promise!RulesFor
    <2>3. \A j \in 1..n : RangeHas(a + j) <=> rs[j].lo <= registrant /\ registrant <= rs[j].hi
      BY <1>4 DEF RangeHas
    <2> HIDE DEF rs, n, a
    <2> QED
      BY <2>1, <2>2, <2>3
  <1> QED
    BY <1>2, <1>3, <1>4, <1>6, <1>7

\* A range that has the registrant is that of a rule, and the hyphens go where
\* it wants them; where none has it the table has no rule either.
LEMMA ScanMaps ==
    ASSUME Known, ~Dead, Histories, Scan
    PROVE  [Promise!Next]_Promise!vars
  <1>1. OneAtATime /\ OnTurn /\ Placed /\ Scanned /\ NumbersRead
    BY DEF Known, InfoIInv, HyphenatorIInv
  <1>2. /\ UNCHANGED <<tvars, pvars, isbn, published>> /\ hpc = "scan" /\ phase = "packed"
    BY <1>1, WhileHyphenating DEF Scan, H!TryRange, H!NoRange, Histories
  <1>3. Stage = "busy"
    BY <1>2 DEF Stage
  <1>4. hbuf = <<>> /\ isbn \in Seq(Char)
    BY <1>1, <1>2 DEF Placed
  <1>5. hpc' # "fault" => ~Dead'
    BY <1>2 DEF Dead, tvars, pvars
  <1>6. phase' = "packed"
    BY <1>2 DEF pvars
  <1> DEFINE prefix == prefixes[pfx].prefix
             range == ranges[prefixes[pfx].rule_idx + i + 1]
  <1>7. CASE H!TryRange /\ ~H!InRange
    <2>1. hpc' = "scan" /\ UNCHANGED <<rc, hbuf>>
      BY <1>2, <1>7 DEF H!TryRange
    <2>2. Stage' = "busy"
      BY <1>5, <1>6, <2>1 DEF Stage
    <2> QED
      BY <1>2, <1>3, <2>1, <2>2, QuietMaps
  <1>8. ASSUME H!TryRange, H!InRange, Promise!Covered(isbn)
        PROVE  /\ ~(range.rng_len > 8 \/ Len(prefix) < 3)
               /\ [rc |-> "OK", text |-> H!PlaceHyphens(isbn, range.rng_len, prefix)]
                      \in Promise!RightReplies(isbn)
    <2> DEFINE g == published[pfx]
               n == prefixes[pfx].nrules
               a == prefixes[pfx].rule_idx
    <2>1. /\ Promise!GroupsOf(isbn) = {g} /\ n \in Nat
          /\ Len(prefix) = 4 /\ g.prefix = prefix /\ Begins(prefix, isbn)
          /\ Promise!IsIsbn(isbn)
          /\ Promise!RulesFor(isbn, g) = {g.rules[j] : j \in {m \in 1..n : RangeHas(a + m)}}
          /\ \A j \in 1..n : g.rules[j].len = ranges[a + j].rng_len
                             /\ ranges[a + j].rng_len \in 0..7
      BY <1>2, <1>8, CoveredScan
    <2>2. i \in Nat /\ i < n /\ a \in Int
      <3>1. pfx \in 1..prefix_nr
        BY <1>2 DEF Known, InfoIInv, EntryOfPrefix, prefix_nr
      <3> QED
        BY <1>1, <1>2, <1>8, <3>1 DEF NumbersRead, H!TryRange
    <2> PICK k : k = i + 1
      OBVIOUS
    <2>3. k \in 1..n /\ a + k = a + i + 1
      BY <2>1, <2>2
    <2>4. range = ranges[a + k]
      BY <2>3
    <2>5. RangeHas(a + k)
      BY <1>8, <2>4 DEF RangeHas, H!InRange, H!Rule
    <2> HIDE DEF range, a, n, g, prefix
    <2>6. g.rules[k] \in Promise!RulesFor(isbn, g) /\ g.rules[k].len = range.rng_len
          /\ range.rng_len \in 0..7
      BY <2>1, <2>3, <2>4, <2>5
    <2>7. H!PlaceHyphens(isbn, range.rng_len, prefix) = Promise!Hyphenated(isbn, g, range.rng_len)
      <3>1. isbn \in Seq(0..14)
        BY <1>4, BytesAssumption, SeqMonotonic
      <3>2. Len(isbn) >= 13 /\ Len(isbn) \in Nat
        BY <2>1, <3>1 DEF Promise!IsIsbn
      <3>3. prefix \in Seq(0..14)
        <4>1. prefix = SubSeq(isbn, 1, 4)
          BY <2>1 DEF Begins
        <4>2. 4 \in 0..Len(isbn)
          BY <3>2
        <4> QED
          BY <3>1, <4>1, <4>2, FirstOf
      <3>4. range.rng_len \in 0..8
        BY <2>6
      <3> QED
        BY <2>1, <3>1, <3>2, <3>3, <3>4, HyphensPlaced
    <2>8. Promise!Hyphenated(isbn, g, range.rng_len) \in
            UNION {{Promise!Hyphenated(isbn, h, r.len) : r \in Promise!RulesFor(isbn, h)} :
                        h \in Promise!GroupsOf(isbn)}
      BY <2>1, <2>6
    <2>9. [rc |-> "OK", text |-> Promise!Hyphenated(isbn, g, range.rng_len)]
                \in Promise!RightReplies(isbn)
      BY <2>8 DEF Promise!RightReplies
    <2>10. ~(range.rng_len > 8 \/ Len(prefix) < 3)
      BY <2>1, <2>6
    <2> QED
      BY <2>7, <2>9, <2>10
  <1>9. CASE H!TryRange /\ H!InRange
    <2>1. \/ /\ range.rng_len > 8 \/ Len(prefix) < 3
             /\ hpc' = "fault" /\ UNCHANGED <<rc, hbuf>>
          \/ /\ hbuf' = H!PlaceHyphens(isbn, range.rng_len, prefix)
             /\ rc' = "OK" /\ hpc' = "idle"
      BY <1>9 DEF H!TryRange, H!Rule
    <2> HIDE DEF range, prefix
    <2>2. CASE hpc' = "fault"
      <3>1. Stage' = "dead"
        BY <2>2 DEF Stage, Dead
      <3>2. ~Promise!Covered(isbn) /\ UNCHANGED <<rc, hbuf>>
        BY <1>8, <1>9, <2>1, <2>2
      <3> QED
        BY <1>2, <1>3, <3>1, <3>2, QuietMaps
    <2>3. CASE hpc' = "idle"
      <3>1. Stage' = "idle"
        BY <1>5, <1>6, <2>3 DEF Stage
      <3>2. Promise!Covered(isbn) => [rc |-> rc', text |-> hbuf'] \in Promise!RightReplies(isbn)
        BY <1>8, <1>9, <2>1, <2>3
      <3> QED
        BY <1>2, <1>3, <3>1, <3>2, ReplyMaps
    <2> QED
      BY <2>1, <2>2, <2>3
  <1>10. CASE H!NoRange
    <2>1. i = prefixes[pfx].nrules /\ rc' = "ENOENT" /\ hpc' = "idle" /\ hbuf' = <<>>
      BY <1>4, <1>10 DEF H!NoRange
    <2>2. Stage' = "idle"
      BY <1>5, <1>6, <2>1 DEF Stage
    <2>3. ASSUME Promise!Covered(isbn)
          PROVE  [rc |-> rc', text |-> hbuf'] \in Promise!RightReplies(isbn)
      <3> DEFINE g == published[pfx]
      <3>1. /\ Promise!GroupsOf(isbn) = {g}
            /\ Promise!RulesFor(isbn, g) =
                 {g.rules[j] : j \in {m \in 1..prefixes[pfx].nrules :
                                            RangeHas(prefixes[pfx].rule_idx + m)}}
        BY <1>2, <2>3, CoveredScan
      <3>2. \A m \in 1..prefixes[pfx].nrules : ~RangeHas(prefixes[pfx].rule_idx + m)
        BY <1>1, <1>2, <2>1 DEF Scanned
      <3> HIDE DEF g
      <3>3. Promise!RulesFor(isbn, g) = {}
        BY <3>1, <3>2
      <3>4. UNION {{Promise!Hyphenated(isbn, h, r.len) : r \in Promise!RulesFor(isbn, h)} :
                        h \in Promise!GroupsOf(isbn)} = {}
        BY <3>1, <3>3
      <3>5. Promise!RightReplies(isbn) = {[rc |-> "ENOENT", text |-> <<>>]}
        BY <3>4 DEF Promise!RightReplies
      <3> QED
        BY <2>1, <3>5
    <2> QED
      BY <1>2, <1>3, <2>2, <2>3, ReplyMaps
  <1> QED
    BY <1>7, <1>9, <1>10 DEF Scan

-----------------------------------------------------------------------------
\* Every step of the composition is one of Promise, or nothing to it.
LEMMA PromiseSteps ==
    ASSUME BufSize \in Nat, BufSize >= 18, Known, InfoIInv', [InfoNext]_infovars
    PROVE  [Promise!Next]_Promise!vars
  <1>1. CASE InfoNext
    <2>1. ~Dead /\ Histories
      BY <1>1, NoneAfterDeath DEF InfoNext
    <2> QED
      BY <1>1, <2>1, InfoCases, ReadingMaps, AskMaps, LookupMaps, LookedMaps, ScanMaps
  <1>2. CASE UNCHANGED infovars
    <2>1. UNCHANGED <<pc, phase, tpc, hpc, isbn, rc, hbuf, published>>
      BY <1>2 DEF infovars, phvars, pvars, tvars, hyphenation
    <2>2. Stage' = Stage
      BY <2>1 DEF Stage, Dead
    <2> QED
      BY <2>1, <2>2, QuietMaps
  <1> QED
    BY <1>1, <1>2

\* The composition keeps the promise of Hyphenator, whatever the document, the
\* strings and the alphabet, for buffers of the 18 bytes that place_hyphens asks
\* for: with a document as the agency publishes it, what hyphenate_isbn answers
\* is what its table prescribes (IsHyphenator).
THEOREM Hyphenates ==
    ASSUME BufSize \in Nat, BufSize >= 18
    PROVE  InfoSpec => IsHyphenator
  <1>1. InfoInit => Promise!Init
    <2> SUFFICES ASSUME InfoInit PROVE Promise!Init
      OBVIOUS
    <2>1. TInit /\ PHInit /\ H!Init
      BY DEF InfoInit
    <2>2. /\ tpc = "doc" /\ pc = "idle" /\ phase = "build" /\ hpc = "idle"
          /\ isbn = <<>> /\ rc = "none" /\ hbuf = <<>>
      BY <2>1 DEF TInit, PHInit, PInit, Init, H!Init
    <2>3. Stage = "reading"
      BY <2>2 DEF Stage, Dead
    <2> QED
      BY <2>2, <2>3 DEF Promise!Init, Promise!NoReply, Stage
  <1>2. Known /\ InfoIInv' /\ [InfoNext]_infovars => [Promise!Next]_Promise!vars
    BY PromiseSteps
  <1> QED
    BY <1>1, <1>2, KnownAlways, InfoInvariance, PTL DEF InfoSpec, IsHyphenator, Promise!Spec
==============================================================================
