------------------------------ MODULE MCIsbnInfo ------------------------------
(****************************************************************************)
(* IsbnInfo over an excerpt of the distributed isbn-range.xml, with groups  *)
(* of one, two, three and five digits, and over documents that go wrong.    *)
(****************************************************************************)
EXTENDS IsbnInfo

CONSTANT agency

El(name, children) == [name |-> name, children |-> children, text |-> NoText]
Leaf(name, text) == [name |-> name, children |-> <<>>, text |-> text]

DigitsOf(n) ==
    LET power[k \in 0..6] == IF k = 0 THEN 1 ELSE 10 * power[k - 1]
    IN  [k \in 1..7 |-> (n \div power[7 - k]) % 10]

\* A rule: bounds and length.
R(lo, hi, len) ==
    El("Rule", <<Leaf("Range", DigitsOf(lo) \o <<HYPHEN>> \o DigitsOf(hi)),
                 Leaf("Length", <<len>>)>>)

Group(prefix, list) ==
    El("Group", <<Leaf("Prefix", prefix), Leaf("Agency", agency), El("Rules", list)>>)

Document(groups) ==
    [parsed |-> TRUE,
     root |-> El("ISBNRangeMessage", <<El("EAN.UCCPrefixes", <<>>), El("RegistrationGroups", groups)>>)]

\* 978-0 (without its narrow middle ranges), 978-81, 978-600, 978-99921; 979-12
\* is the last group of the table.
English ==
    Group(<<9, 7, 8, HYPHEN, 0>>,
          <<R(0, 1999999, 2), R(2000000, 2279999, 3), R(2280000, 2289999, 4),
            R(2290000, 6397999, 3), R(6398000, 6399999, 7),
            R(7000000, 8499999, 4), R(8500000, 8999999, 5), R(9000000, 9499999, 6)>>)
India ==
    Group(<<9, 7, 8, HYPHEN, 8, 1>>,
          <<R(0, 1999999, 2), R(2000000, 6999999, 3), R(7000000, 8499999, 4),
            R(8500000, 8999999, 5), R(9000000, 9999999, 6)>>)
Iran ==
    Group(<<9, 7, 8, HYPHEN, 6, 0, 0>>,
          <<R(0, 999999, 2), R(1000000, 4999999, 3), R(5000000, 8999999, 4)>>)
Qatar ==
    Group(<<9, 7, 8, HYPHEN, 9, 9, 9, 2, 1>>,
          <<R(0, 1999999, 1), R(2000000, 6999999, 2), R(7000000, 7999999, 3),
            R(8000000, 8999999, 1), R(9000000, 9999999, 2)>>)
Italy == Group(<<9, 7, 9, HYPHEN, 1, 2>>, <<R(0, 1999999, 0), R(2000000, 2009999, 3)>>)

Excerpt == <<English, India, Iran, Qatar, Italy>>

\* A prefix twice, one that begins another, one that is refused, no rules, the
\* longest prefix that add_prefix can hold, a rule that is too long.
Japan == Group(<<9, 7, 8, HYPHEN, 4>>, <<>>)
English2 == Group(<<9, 7, 8, 0>>, <<R(0, 9999999, 1)>>)
Eight == Group(<<9, 7, 8, 8>>, <<R(0, 4999999, 0), R(5000000, 9999999, 9)>>)
Letters == Group(<<9, LETTER>>, <<R(0, 9999999, 2)>>)
Longest ==
    Group(<<9, 7, 8, 5, 5, 5, 5, 5, 5, 5, 5, 5, 5, 5, 5>>, <<R(0, 9999999, 7)>>)
Unlimited == Group(<<9, 7, 8, 7>>, <<El("Rule", <<Leaf("Length", <<2>>)>>)>>)

DistributedDoc == {Document(Excerpt)}

SomeDocs ==
    DistributedDoc \cup
    {[parsed |-> FALSE, root |-> NoRoot],
     Document(<<Japan, English, English2, Letters, Eight, India, Longest, Italy>>),
     Document(<<India, Unlimited>>),
     Document(<<>>)}

\* Registrants on both sides of the bounds, then digits that all differ from
\* their neighbours, so that a wrong offset shows.
Heads ==
    {<<0, 0, 0>>, <<1, 9, 9>>, <<2, 0, 0>>, <<2, 2, 7>>, <<2, 2, 8>>, <<2, 2, 9>>,
     <<3, 2, 2>>, <<6, 3, 9>>, <<6, 4, 0>>, <<6, 9, 9>>, <<7, 0, 0>>, <<8, 4, 9>>,
     <<8, 5, 0>>, <<9, 0, 0>>, <<9, 4, 9>>, <<9, 5, 0>>}

Tail13(s) == SubSeq(s \o <<8, 1, 5, 7, 3, 6, 2, 4, 9>>, 1, 13)

Prefixes13 == {PrefixOf(Excerpt[n]) : n \in 1..5}

\* Of test-cases.bash, those whose group is in Excerpt.
TestIsbns ==
    {<<9, 7, 8, 0, 3, 1, 2, 1, 2, 8, 4, 7, 0>>,
     <<9, 7, 8, 8, 1, 3, 2, 2, 2, 0, 7, 9, 4>>,
     <<9, 7, 8, 0, 1, 3, 1, 1, 0, 3, 6, 2, 7>>}

\* Strings that are not ISBNs, a hyphenated one, and ISBNs with more behind.
OddStrings ==
    {<<>>, <<9, 7, 8>>, <<9, 7, 8, 0>>, <<9, 7, 8, 0, 3, 1, 2, 1, 2>>,
     <<9, 7, 8, 0, 3, 1, 2, 1, 2, 8>>,
     <<9, 7, 8, HYPHEN, 0, HYPHEN, 3, 1, 2, HYPHEN, 1, 2, 8, 4, 7, HYPHEN, 0>>,
     <<9, 7, 8, 0, HYPHEN, 3, 1, 2, 1, 2, 8, 4, 7, HYPHEN, 0>>,
     <<9, 7, 8, 0, 3, 1, 2, 1, 2, 8, 4, 7, 0, 5, 5>>,
     <<9, 7, 8, 0, 3, 1, 2, 1, 2, 8, 4, 7, LETTER>>,
     <<9, 7, 8, 5, 5, 5, 5, 5, 5, 5, 5, 5, 5, 5, 5>>,
     <<9, 7, 8, 4, 1, 2, 3, 4, 5, 6, 7, 8, 9>>,
     <<9, 7, 8, 9, 6, 8, 1, 2, 3, 4, 5, 6, 7>>,
     <<LETTER, 9, 7, 8>>}

IsbnsTried == {Tail13(p \o h) : p \in Prefixes13, h \in Heads} \cup TestIsbns \cup OddStrings
\* What there is to add, to look up and to store; the elements of the documents.
Bytes == 0..14 \ {EOS}

ElementsAt[depth \in 0..5] ==
    IF depth = 0 THEN {d.root : d \in SomeDocs} \ {NoRoot}
    ELSE UNION {ToSet(e.children) : e \in ElementsAt[depth - 1]}

SomeElements == UNION {ElementsAt[depth] : depth \in 0..5}

PrefixTexts ==
    {e.text : e \in {x \in SomeElements : x.name = "Prefix"}} \ {NoText}

SomeStrings == {Numeric(text) : text \in {x \in PrefixTexts : IsNumeric(x)}}

SomeValues == 0..15
==============================================================================
