------------------------------- MODULE IsbnInfo -------------------------------
(****************************************************************************)
(* The life of an isbn_info: parse_isbn_range_table fills the tables and    *)
(* the transducer from the document (IsbnTable, FstPack) and packs the      *)
(* latter; hyphenate_isbn then searches both (Hyphenate).                   *)
(****************************************************************************)
EXTENDS FstPackHist, IsbnTable

CONSTANTS
    Isbns, BufSize,     \* see Hyphenate
    NoTable             \* see Hyphenator

\* What libfst is given here: bytes, digits for strings, ISBNs for keys.
ASSUME BytesAssumption ==
    /\ NUL = EOS /\ Char \subseteq 0..14
    /\ Isbns \cup {<<>>} \subseteq Keys

VARIABLES
    hpc, isbn, pfx, registrant, i, rc, hbuf,    \* Hyphenate; its pc is hpc
    published       \* history: what the document says, see Hyphenator

H == INSTANCE Hyphenate WITH pc <- hpc

hyphenation == <<hpc, isbn, pfx, registrant, i, rc, hbuf>>

infovars == <<tvars, phvars, hyphenation, published>>

-----------------------------------------------------------------------------
\* The document as the agency publishes it: each group has a prefix of digits
\* and an agency, no prefix begins another, and each rule has a range of twice
\* seven digits and a length of one, at most seven.
Only(e, name) == Len(Named(<<e>>, name)) = 1

Text1(e, name) == Named(<<e>>, name)[1].text

RulesOf(g) == Named(Named(<<g>>, "Rules"), "Rule")

GoodRule(r) ==
    /\ Only(r, "Range") /\ Only(r, "Length")
    /\ Text1(r, "Length") \in {<<n>> : n \in 0..7}
    /\ LET text == Text1(r, "Range")
       IN  text # NoText /\ Len(text) = 15 /\ text[8] = HYPHEN
           /\ \A k \in 1..15 \ {8} : text[k] \in Digit

PrefixOf(g) == Numeric(Text1(g, "Prefix"))

GoodGroup(g) ==
    /\ Only(g, "Prefix") /\ Only(g, "Agency")
    /\ Text1(g, "Prefix") # NoText /\ Text1(g, "Agency") # NoText
    /\ IsNumeric(Text1(g, "Prefix")) /\ Len(PrefixOf(g)) >= 4
    /\ \A r \in ToSet(RulesOf(g)) : GoodRule(r)

Published ==
    /\ doc.parsed /\ doc.root # NoRoot /\ doc.root.name = ROOT
    /\ DocGroups # <<>>
    /\ \A g \in ToSet(DocGroups) : GoodGroup(g)
    /\ \A m, n \in DOMAIN DocGroups :
          Begins(PrefixOf(DocGroups[m]), PrefixOf(DocGroups[n])) => m = n

\* Its groups, read off the document with no regard to how the program does it.
TableOf(groups) ==
    [n \in DOMAIN groups |->
        [prefix |-> PrefixOf(groups[n]),
         rules |-> [m \in DOMAIN RulesOf(groups[n]) |->
            LET r == RulesOf(groups[n])[m]
            IN  [len |-> Text1(r, "Length")[1],
                 lo |-> Strtoul(SubSeq(Text1(r, "Range"), 1, 7)),
                 hi |-> Strtoul(SubSeq(Text1(r, "Range"), 9, 15))]]]]

-----------------------------------------------------------------------------
Lookup(s) == [op |-> "prefix", str |-> s, val |-> UNDEF]

InfoInit ==
    /\ TInit
    /\ call = Lookup(<<>>) /\ PHInit
    /\ H!Init
    /\ published = IF Published THEN TableOf(DocGroups) ELSE NoTable

-----------------------------------------------------------------------------
\* parseDoc, but for its calls of fst_add_string, ...
ReadDoc ==
    /\ \/ ParseDoc \/ Descend \/ ReadText \/ PassOver
       \/ RefuseRule \/ AddRule \/ Ascend
       \/ LeaveGroup \/ RefusePrefix \/ EndOfDocument
    /\ UNCHANGED <<pvars, hyphenation>>

\* ... which add_prefix makes for a numeric prefix (Strings and Vals bound the
\* documents of an instance, not the code), ...
Addition == [op |-> "add", str |-> Numeric(cur_prefix), val |-> cur_value]

CallAddString ==
    /\ tpc = "prefix" /\ IsNumeric(cur_prefix) /\ call # Addition
    /\ Addition \in Calls
    /\ BuildCall(Addition)
    /\ UNCHANGED <<tvars, hyphenation>>

AddString == BuildStep /\ UNCHANGED <<tvars, hyphenation>>

EntryAdded ==
    /\ tpc = "prefix" /\ pc = "idle" /\ call = Addition
    /\ AddPrefix
    /\ UNCHANGED <<pvars, hyphenation>>

\* ... and fst_copy_and_pack, which follows whatever parseDoc returns.
CopyAndPack ==
    /\ tpc = "done"
    /\ Pack
    /\ UNCHANGED <<tvars, hyphenation>>

\* hyphenate_isbn, and its call of fst_lookup_prefix.
Ask(s) ==
    /\ phase = "packed"
    /\ UNCHANGED tvars
    /\ H!Ask(s)
    /\ IF hpc' = "lookup" THEN QueryCall(Lookup(s)) ELSE UNCHANGED pvars

LookupPrefix == PackedStep /\ UNCHANGED <<tvars, hyphenation>>

Looked ==
    /\ pc = "idle"
    /\ UNCHANGED <<tvars, pvars>>
    /\ H!Looked(ret.err, ret.val)

Scan ==
    /\ UNCHANGED <<tvars, pvars>>
    /\ H!TryRange \/ H!NoRange

InfoStep ==
    \/ ReadDoc \/ CallAddString \/ AddString \/ EntryAdded \/ CopyAndPack
    \/ LookupPrefix \/ Looked \/ Scan

Histories == Recorded /\ UNCHANGED published

InfoNext == (InfoStep \/ \E s \in Isbns : Ask(s)) /\ Histories

InfoSpec == InfoInit /\ [][InfoNext]_infovars

\* One thread: what is begun is carried on.
InfoFairSpec == InfoSpec /\ WF_infovars(InfoStep /\ Histories)

-----------------------------------------------------------------------------
Dead == tpc \in {"exit", "fault"} \/ pc = "fault" \/ hpc = "fault" \/ phase = "aborted"

Promise ==
    INSTANCE Hyphenator WITH
        table <- published,
        pc <- IF Dead THEN "dead" ELSE IF phase # "packed" THEN "reading"
              ELSE IF hpc = "idle" THEN "idle" ELSE "busy",
        reply <- [rc |-> rc, text |-> hbuf]

\* From XML to hyphens: what hyphenate_isbn answers over the tables and the
\* packed transducer that parse_isbn_range_table has built is what the table of
\* the document prescribes, as far as Hyphenator promises it: for the ISBNs of
\* one-digit groups (978-0 to 978-5, 978-7), whatever may follow their 13
\* digits, and for all strings that no group begins, hyphenated ISBNs among
\* them.
IsHyphenator == Promise!Spec

\* parse_isbn_range_table comes to its end, and so does every hyphenate_isbn: the
\* walk over the document, the turns of the transducer and the search in the
\* ranges.
AlwaysResponds == Promise!Responds

\* The value that fst_lookup_prefix has found indexes the prefix table
\* (prefix_tbl + val), and the entry there begins the string: builder,
\* transducer and packing agree, with duplicate, refused and nested prefixes.
EntryOfPrefix ==
    hpc = "scan" => pfx \in 1..Len(prefixes) /\ Begins(prefixes[pfx].prefix, isbn)

\* See Hyphenate.
ConsecutiveFields == H!ConsecutiveFields

BufferHolds == H!BufferHolds

\* test-cases.bash expects 978-81-322-2079-4 of 9788132220794: groups of more
\* than one digit are hyphenated by the table as well.
AllGroups ==
    phase = "packed" /\ hpc = "idle" /\ rc # "none" =>
        [rc |-> rc, text |-> hbuf] \in Promise!RightReplies(isbn)
==============================================================================
