------------------------------ MODULE IsbnTable ------------------------------
(****************************************************************************)
(* The range table builder of isbn-xml-to-fst.c: parseDoc and the functions *)
(* it descends into walk the elements of the XML document and fill the      *)
(* table of ranges, the table of prefixes and the transducer, here the      *)
(* dictionary that it implements (FstDict).                                 *)
(****************************************************************************)
EXTENDS Vec, Text, FiniteSets

CONSTANTS
    Docs,           \* documents: [parsed, root]; the root may be NoRoot
    Elements,       \* what the documents are made of
    XML_MAX_DEPTH,  \* the names that path holds
    NoRoot,         \* a document without elements
    NoText          \* NULL: no prefix, agency, range or length; an empty element

\* 1024 in the code; five is what the elements of the format nest.
ASSUME DepthAssumption == XML_MAX_DEPTH \in Nat /\ XML_MAX_DEPTH >= 5

\* An element is [name, children, text]; its text is a sequence of bytes, or a
\* name for an agency.  The elements below one are a list, of elements.
IsElement(e) ==
    /\ e.children \in Seq(ToSet(e.children))
    /\ e.name \in {"Prefix", "Range", "Length"} /\ e.text # NoText =>
          e.text \in Seq(0..14)

ASSUME DocsAssumption ==
    /\ \A e \in Elements : IsElement(e)
    /\ UNION {ToSet(e.children) : e \in Elements} \subseteq Elements
    /\ {d.root : d \in Docs} \subseteq Elements \cup {NoRoot}

ROOT == "ISBNRangeMessage"

\* The bytes that add_prefix and add_rule_str have on the stack.
ARRAY_SIZE == 16

\* The texts that stand in for missing elements.
PREFIX_ERROR == <<LETTER>>
AGENCY_ERROR == "AGENCY_ERROR"

UNDEF_INDEX == -1

VARIABLES
    doc,            \* the document
    frames,         \* the functions under way: element name, children to come
    tpc,            \* "doc", "walk", "prefix", "done", "exit", "fault"
    path,           \* path[0..depth - 1], kept for messages
    key,            \* locals of parseRule: range_key, length_key
    cur_prefix, cur_agency, cur_value,
    new_prefix,     \* rule_idx and nrules of the entry in the making
    prefix_vec, prefixes,   \* header and entries of the prefix table
    ranges_vec, ranges,     \* header and entries of the range table
    dict,           \* prefix strings and their values
    doc_err,        \* what parseDoc returns
    status,         \* exit status, or -1
    written,        \* history: bytes of lo_str, hi_str, numeric_prefix in use
    source          \* history: groups so far; for ranges and prefixes, theirs

tvars == <<doc, frames, tpc, path, key, cur_prefix, cur_agency, cur_value,
          new_prefix, prefix_vec, prefixes, ranges_vec, ranges, dict, doc_err,
          status, written, source>>

rules == <<new_prefix, ranges_vec, ranges>>
entries == <<prefix_vec, prefixes, dict, cur_value>>

rule_nr == Len(ranges)
prefix_nr == Len(prefixes)

\* new_isbn_info clears the structure: new_prefix.rule_idx starts as 0, which
\* is not UNDEF_INDEX and is the first rule all the same.
TInit ==
    /\ doc \in Docs
    /\ frames = <<>> /\ path = <<>>
    /\ tpc = "doc"
    /\ key = [range |-> NoText, length |-> NoText]
    /\ cur_prefix = NoText /\ cur_agency = NoText /\ cur_value = 0
    /\ new_prefix = [rule_idx |-> 0, nrules |-> 0]
    /\ prefix_vec = VecEmpty /\ prefixes = <<>>
    /\ ranges_vec = VecEmpty /\ ranges = <<>>
    /\ dict = <<>>
    /\ doc_err = 0 /\ status = -1
    /\ written = [lo |-> 0, hi |-> 0, numeric |-> 0]
    /\ source = [group |-> 0, ranges |-> <<>>, prefixes |-> <<>>]

-----------------------------------------------------------------------------
\* The walk.
Frame == Last(frames)

Cur == Head(Frame.todo)

Here == <<Frame.name, Cur.name>>

\* cur = cur->next in the innermost loop.
NextSibling == [frames EXCEPT ![Len(frames)].todo = Tail(@)]

\* Which function descends into which elements, and which texts are read.
Descends ==
    {<<ROOT, "RegistrationGroups">>, <<"RegistrationGroups", "Group">>,
     <<"Group", "Rules">>, <<"Rules", "Rule">>}

Reads ==
    {<<"Group", "Prefix">>, <<"Group", "Agency">>, <<"Rule", "Range">>,
     <<"Rule", "Length">>}

Walking == tpc = "walk" /\ Frame.todo # <<>>

Leaving(names) == tpc = "walk" /\ Frame.todo = <<>> /\ Frame.name \in names

\* parseDoc, up to its loop.
ParseDoc ==
    /\ tpc = "doc"
    /\ IF doc.parsed /\ doc.root # NoRoot /\ doc.root.name = ROOT
       THEN /\ tpc' = "walk"
            /\ frames' = <<[name |-> ROOT, todo |-> doc.root.children]>>
            /\ path' = <<ROOT>>
            /\ UNCHANGED doc_err
       ELSE tpc' = "done" /\ doc_err' = 2 /\ UNCHANGED <<frames, path>>
    /\ UNCHANGED <<doc, key, cur_prefix, cur_agency, rules, entries, status,
                   written, source>>

\* parseGroup forgets the prefix; cur_agency stays.
Forget ==
    /\ cur_prefix' = IF Cur.name = "Group" THEN NoText ELSE cur_prefix
    /\ UNCHANGED cur_agency

\* The heads of parseRegistrationGroups, parseGroup, parseRules and parseRule:
\* push_path and the locals.
Descend ==
    /\ Walking /\ Here \in Descends
    /\ IF Len(path) >= XML_MAX_DEPTH
       THEN tpc' = "exit" /\ status' = 64 /\ UNCHANGED <<frames, path>>
       ELSE /\ frames' = Append(NextSibling, [name |-> Cur.name, todo |-> Cur.children])
            /\ path' = Append(path, Cur.name)
            /\ UNCHANGED <<tpc, status>>
    /\ Forget
    /\ key' = [range |-> NoText, length |-> NoText]
    /\ source' = [source EXCEPT !.group = @ + IF Cur.name = "Group" THEN 1 ELSE 0]
    /\ UNCHANGED <<doc, rules, entries, doc_err, written>>

\* Mutant: an agency is only read when there is none yet.
ReadTextOnce ==
    /\ Walking /\ Here \in Reads
    /\ frames' = NextSibling
    /\ tpc' = IF Frame.name = "Group" /\ Cur.text = NoText THEN "fault" ELSE tpc
    /\ cur_prefix' = IF Cur.name = "Prefix" THEN Cur.text ELSE cur_prefix
    /\ cur_agency' = IF Cur.name = "Agency" /\ cur_agency = NoText THEN Cur.text ELSE cur_agency
    /\ key' = CASE Cur.name = "Range" -> [key EXCEPT !.range = Cur.text]
                [] Cur.name = "Length" -> [key EXCEPT !.length = Cur.text]
                [] OTHER -> key
    /\ UNCHANGED <<doc, path, rules, entries, doc_err, status, written, source>>

\* xmlNodeListGetString.  It yields NULL for an element without text, which
\* strdup and strcmp do not bear; a rule may live with it for now.
ReadText ==
    /\ Walking /\ Here \in Reads
    /\ frames' = NextSibling
    /\ tpc' = IF Frame.name = "Group" /\ Cur.text = NoText THEN "fault" ELSE tpc
    /\ cur_prefix' = IF Cur.name = "Prefix" THEN Cur.text ELSE cur_prefix
    /\ cur_agency' = IF Cur.name = "Agency" THEN Cur.text ELSE cur_agency
    /\ key' = CASE Cur.name = "Range" -> [key EXCEPT !.range = Cur.text]
                [] Cur.name = "Length" -> [key EXCEPT !.length = Cur.text]
                [] OTHER -> key
    /\ UNCHANGED <<doc, path, rules, entries, doc_err, status, written, source>>

\* Elements, and the text between them, that no function looks at.
PassOver ==
    /\ Walking /\ Here \notin Descends \cup Reads
    /\ frames' = NextSibling
    /\ UNCHANGED <<doc, tpc, path, key, cur_prefix, cur_agency, rules, entries,
                   doc_err, status, written, source>>

-----------------------------------------------------------------------------
\* add_rule_str.  The bytes up to the first hyphen, those behind it; each array
\* takes 14 bytes and a NUL.
HyphenAt(text) ==
    LET IsHyphen(c) == c = HYPHEN
        at == SelectInSeq(text, IsHyphen)
    IN  IF at = 0 THEN Len(text) + 1 ELSE at

LoStr(text) == SubSeq(text, 1, HyphenAt(text) - 1)

\* Mutant: the hyphen is left to the upper bound.
HiStrSigned(text) == SubSeq(text, HyphenAt(text), Len(text))

HiStr(text) == SubSeq(text, HyphenAt(text) + 1, Len(text))

\* Mutant: the limit is the size of the array.
FitsArray(str) == Len(str) <= ARRAY_SIZE

Fits(str) == Len(str) <= 14

\* Bytes written when str is copied, the NUL only if all of it fits.
Copied(str) ==
    Cardinality({n \in 1..Len(str) : Fits(SubSeq(str, 1, n))})
    + IF Fits(str) THEN 1 ELSE 0

AtLeast(n, m) == IF n >= m THEN n ELSE m

Accepted ==
    /\ key.range # NoText /\ key.length # NoText
    /\ Fits(LoStr(key.range)) /\ Fits(HiStr(key.range))

WrittenBounds ==
    IF key.range = NoText \/ key.length = NoText THEN written
    ELSE [written EXCEPT
            !.lo = AtLeast(@, Copied(LoStr(key.range))),
            !.hi = IF Fits(LoStr(key.range))
                   THEN AtLeast(@, Copied(HiStr(key.range))) ELSE @]

Pop(p) == SubSeq(p, 1, Len(p) - 1)

\* Mutant: parseRule is left without pop_path.
LeaveRuleDeeper == frames' = Pop(frames) /\ UNCHANGED path

LeaveRule == frames' = Pop(frames) /\ path' = Pop(path)

\* parseRule ends the process when add_rule_str refuses the rule.
RefuseRule ==
    /\ Leaving({"Rule"}) /\ ~Accepted
    /\ LeaveRule
    /\ written' = WrittenBounds
    /\ tpc' = "exit" /\ status' = 2
    /\ UNCHANGED <<doc, key, cur_prefix, cur_agency, rules, entries, doc_err, source>>

\* Mutant: every rule starts the count afresh.
CountedRestart(p, r) == [rule_idx |-> r, nrules |-> 1]

\* The accounting of add_rule.
Counted(p, r) ==
    IF p.rule_idx = UNDEF_INDEX THEN [rule_idx |-> r, nrules |-> 1]
    ELSE [p EXCEPT !.nrules = @ + 1]

\* add_rule.
StoreRule(len, lo, hi) ==
    /\ ranges_vec' = [VecMakeRoom(ranges_vec, rule_nr) EXCEPT !.len = @ + 1]
    /\ ranges' = Append(ranges, [rng_len |-> len, rng_lbound |-> lo, rng_ubound |-> hi])
    /\ new_prefix' = Counted(new_prefix, rule_nr)
    /\ source' = [source EXCEPT !.ranges = Append(@, source.group)]

\* The end of parseRule: add_rule_str, add_rule, pop_path.
AddRule ==
    /\ Leaving({"Rule"}) /\ Accepted
    /\ StoreRule(Strtoul(key.length), StrtoullCut(LoStr(key.range)),
                 StrtoullCut(HiStr(key.range)))
    /\ written' = WrittenBounds
    /\ LeaveRule
    /\ UNCHANGED <<doc, tpc, key, cur_prefix, cur_agency, entries, doc_err, status>>

\* The ends of parseRules and parseRegistrationGroups.
Ascend ==
    /\ Leaving({"Rules", "RegistrationGroups"})
    /\ frames' = Pop(frames) /\ path' = Pop(path)
    /\ UNCHANGED <<doc, tpc, key, cur_prefix, cur_agency, rules, entries, doc_err,
                   status, written, source>>

\* The end of parseGroup, up to its call of add_prefix.
LeaveGroup ==
    /\ Leaving({"Group"})
    /\ cur_prefix' = IF cur_prefix = NoText THEN PREFIX_ERROR ELSE cur_prefix
    /\ cur_agency' = IF cur_agency = NoText THEN AGENCY_ERROR ELSE cur_agency
    /\ doc_err' = IF cur_prefix = NoText \/ cur_agency = NoText THEN 1 ELSE doc_err
    /\ tpc' = "prefix"
    /\ UNCHANGED <<doc, frames, path, key, rules, entries, status, written, source>>

IsNumeric(text) == \A i \in 1..Len(text) : text[i] \in Digit \cup {HYPHEN}

\* numeric_prefix: the digits, without the hyphens.
Numeric(text) ==
    LET digits[n \in 0..Len(text)] ==
            IF n = 0 THEN <<>>
            ELSE digits[n - 1] \o IF text[n] \in Digit THEN <<text[n]>> ELSE <<>>
    IN  digits[Len(text)]

NewEntry ==
    [prefix |-> Numeric(cur_prefix), agency |-> cur_agency,
     rule_idx |-> new_prefix.rule_idx, nrules |-> new_prefix.nrules]

DictWith(w) ==
    [v \in DOMAIN dict \cup {w} |-> IF v \in DOMAIN dict THEN dict[v] ELSE cur_value]

\* Mutant: a prefix that is there already does not advance cur_value.
StorePrefixSlack(w) ==
    /\ dict' = DictWith(w)
    /\ cur_value' = IF w \in DOMAIN dict THEN cur_value ELSE cur_value + 1

\* fst_add_string refuses a prefix that is there already (EEXIST), which stops
\* nothing.
StorePrefix(w) == dict' = DictWith(w) /\ cur_value' = cur_value + 1

\* add_prefix, and the end of parseGroup, which drops its result.
AddPrefix ==
    /\ tpc = "prefix" /\ IsNumeric(cur_prefix)
    /\ prefix_vec' = [VecMakeRoom(prefix_vec, prefix_nr) EXCEPT !.len = @ + 1]
    /\ prefixes' = Append(prefixes, NewEntry)
    /\ new_prefix' = [rule_idx |-> UNDEF_INDEX, nrules |-> 0]
    /\ StorePrefix(NewEntry.prefix)
    /\ source' = [source EXCEPT !.prefixes = Append(@, source.group)]
    /\ written' = [written EXCEPT !.numeric = AtLeast(@, Len(NewEntry.prefix) + 1)]
    /\ frames' = Pop(frames) /\ path' = Pop(path)
    /\ tpc' = "walk"
    /\ UNCHANGED <<doc, key, cur_prefix, cur_agency, ranges_vec, ranges, doc_err, status>>

\* It gives up on a prefix that is not numeric, after it made room; new_prefix
\* stays as it is.
RefusePrefix ==
    /\ tpc = "prefix" /\ ~IsNumeric(cur_prefix)
    /\ prefix_vec' = VecMakeRoom(prefix_vec, prefix_nr)
    /\ frames' = Pop(frames) /\ path' = Pop(path)
    /\ tpc' = "walk"
    /\ UNCHANGED <<doc, key, cur_prefix, cur_agency, cur_value, rules, prefixes,
                   dict, doc_err, status, written, source>>

\* The end of parseDoc; parse_isbn_range_table goes on to pack the transducer
\* whatever it returns.
EndOfDocument ==
    /\ Leaving({ROOT})
    /\ frames' = Pop(frames) /\ path' = Pop(path)
    /\ tpc' = "done"
    /\ UNCHANGED <<doc, key, cur_prefix, cur_agency, rules, entries, doc_err,
                   status, written, source>>

TNext ==
    \/ ParseDoc \/ Descend \/ ReadText \/ PassOver
    \/ RefuseRule \/ AddRule \/ Ascend
    \/ LeaveGroup \/ AddPrefix \/ RefusePrefix \/ EndOfDocument

TSpec == TInit /\ [][TNext]_tvars

-----------------------------------------------------------------------------
\* Entries are stored in room that the vectors have: the prefix and the range
\* table never run past their allocation as they grow.
RoomForTables ==
    /\ prefix_nr > 0 => VecInRoom(prefix_vec, prefix_nr - 1)
    /\ rule_nr > 0 => VecInRoom(ranges_vec, rule_nr - 1)

\* The ranges that an entry of the prefix table points at are those of its own
\* group, all of them and no others.
OwnRules(k) ==
    {r \in 1..rule_nr : source.ranges[r] = source.prefixes[k]}
        = prefixes[k].rule_idx + 1..prefixes[k].rule_idx + prefixes[k].nrules

\* "How many rules apply to this prefix" (isbn-info.h), said of every entry, also
\* where add_prefix has refused the prefix of the group before.
RulesOfPrefix == \A k \in 1..prefix_nr : OwnRules(k)

\* The ranges of groups that lie between an entry's group and that of the entry
\* before: groups that add_prefix refused.
LeftOver(k) ==
    LET before == IF k = 1 THEN 0 ELSE source.prefixes[k - 1]
    IN  {r \in 1..rule_nr : source.ranges[r] \in before + 1..source.prefixes[k] - 1}

\* Where no refused group has left rules behind, an entry has the rules of its
\* group, wherever these stand in the group, in however many Rules elements,
\* and whatever other entries have the same prefix.
RulesOfGroup == \A k \in 1..prefix_nr : LeftOver(k) = {} => OwnRules(k)

\* The value that the transducer returns for a prefix is the index of the
\* first entry of the prefix table with that prefix.
ValuesAreIndexes ==
    \A w \in DOMAIN dict :
        /\ dict[w] + 1 \in 1..prefix_nr
        /\ prefixes[dict[w] + 1].prefix = w
        /\ \A j \in 1..dict[w] : prefixes[j].prefix # w

\* The elements of the document that the walk is meant to find, in order: those
\* with the name among a list of elements, and among the children of a list.
Matching(list, name) ==
    LET found[n \in 0..Len(list)] ==
            IF n = 0 THEN <<>>
            ELSE found[n - 1] \o IF list[n].name = name THEN <<list[n]>> ELSE <<>>
    IN  found[Len(list)]

Named(elements, name) ==
    LET found[n \in 0..Len(elements)] ==
            IF n = 0 THEN <<>>
            ELSE found[n - 1] \o Matching(elements[n].children, name)
    IN  found[Len(elements)]

DocGroups == Named(Named(<<doc.root>>, "RegistrationGroups"), "Group")

DocRules == Named(Named(DocGroups, "Rules"), "Rule")

\* "The agency that applies to all elements below" (isbn-info.h): an entry
\* names the last agency in the document up to the end of its group, so that a
\* group without one has that of an earlier group; AGENCY_ERROR stands for none
\* so far, and from then on for any group until one has an agency.
AgencyOfGroup ==
    \A k \in 1..prefix_nr :
        LET named == Named(SubSeq(DocGroups, 1, source.prefixes[k]), "Agency")
        IN  prefixes[k].agency =
                IF named = <<>> THEN AGENCY_ERROR ELSE Last(named).text

\* The range table is the document's: the rules in their order, none left out,
\* and where a rule's bounds are plain numbers of at most seven digits they
\* come out of their 32 bits as they were written.
IsBound(digits) ==
    Len(digits) \in 1..7 /\ \A i \in 1..Len(digits) : digits[i] \in Digit

TextOf(rule, name) == Last(Named(<<rule>>, name)).text

RangesOfDocument ==
    /\ tpc = "done" /\ doc_err # 2 => rule_nr = Len(DocRules)
    /\ \A k \in 1..rule_nr :
        \A m \in 1..Len(TextOf(DocRules[k], "Range")) :
            LET text == TextOf(DocRules[k], "Range")
                lo == SubSeq(text, 1, m - 1)
                hi == SubSeq(text, m + 1, Len(text))
            IN  text[m] = HYPHEN /\ IsBound(lo) /\ IsBound(hi) =>
                    /\ ranges[k].rng_lbound = Strtoul(lo)
                    /\ ranges[k].rng_ubound = Strtoul(hi)
                    /\ ranges[k].rng_len = Strtoul(TextOf(DocRules[k], "Length"))

\* The path printed in messages ("No range for ...") leads to the element at
\* hand, and the depth does not creep up with the number of groups and rules:
\* push_path never ends the process.
PathOfElement ==
    /\ tpc \in {"walk", "prefix"} => path = [k \in 1..Len(frames) |-> frames[k].name]
    /\ tpc = "done" => path = <<>>
    /\ status # 64

\* lo_str and hi_str hold what add_rule_str copies into them, of bounds of any
\* length.  (numeric_prefix is not guarded; no prefix of the format has more
\* than eight digits.)
ArraysHold ==
    written.lo <= ARRAY_SIZE /\ written.hi <= ARRAY_SIZE /\ written.numeric <= ARRAY_SIZE
==============================================================================
