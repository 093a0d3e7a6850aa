----------------------------- MODULE MCIsbnTable -----------------------------
(****************************************************************************)
(* Documents for IsbnTable.                                                 *)
(****************************************************************************)
EXTENDS IsbnTable

CONSTANTS english, french

El(name, children) == [name |-> name, children |-> children, text |-> NoText]
Leaf(name, text) == [name |-> name, children |-> <<>>, text |-> text]

Prefix(text) == Leaf("Prefix", text)
Agency(name) == Leaf("Agency", name)
Other == Leaf("text", <<SPACE>>)
Rules(list) == El("Rules", list)
Group(children) == El("Group", children)

Rule(range, length) == El("Rule", <<Leaf("Range", range), Leaf("Length", length)>>)

Groups(groups) == El("RegistrationGroups", groups)
Document(children) == [parsed |-> TRUE, root |-> El(ROOT, children)]

\* n as seven digits, and the range from n millions on.
Sevens(n) == <<n, 9, 9, 9, 9, 9, 9>>
Span(n) == <<n, 0, 0, 0, 0, 0, 0, HYPHEN>> \o Sevens(n)
R(n) == Rule(Span(n), <<n>>)
NoRange == El("Rule", <<Leaf("Length", <<1>>)>>)

\* Groups with a prefix and an agency: as in isbn-range.xml; rules first and an
\* element the program does not know; a prefix written in another way; no
\* rules; two Rules elements; a rule without a range; no prefix; no agency; a
\* prefix with a letter.
Plain == <<Prefix(<<9, HYPHEN, 0>>), Agency(english), Rules(<<R(1), R(2)>>)>>
RulesFirst == <<Rules(<<R(3)>>), Other, Agency(french), Prefix(<<9, HYPHEN, 2>>)>>
Again == <<Prefix(<<9, 0>>), Agency(french), Rules(<<R(4)>>)>>
NoRules == <<Prefix(<<8, HYPHEN, 1>>), Agency(english)>>
TwoRules ==
    <<Prefix(<<8, 2>>), Rules(<<R(5), R(6)>>), Agency(french), Rules(<<R(7)>>)>>
Broken == <<Prefix(<<8, 3>>), Agency(english), Rules(<<R(8), NoRange>>)>>
NoPrefix == <<Agency(french), Rules(<<R(9)>>)>>
NoAgency == <<Prefix(<<8, 4>>), Rules(<<R(9)>>)>>

Kinds == {Plain, RulesFirst, Again, NoRules, TwoRules, Broken, NoPrefix, NoAgency}

Triples ==
    {Document(<<Groups([n \in 1..3 |-> Group(t[n])])>>) : t \in [1..3 -> Kinds]}

\* Enough groups and rules to outgrow the first two allocations.
Many ==
    Document(<<Groups(
        [g \in 1..18 |->
            Group(<<Prefix(<<9, g \div 10, g % 10>>), Agency(english), Rules(<<R(g % 10)>>)>>)]
        \o <<Group(<<Prefix(<<7>>), Agency(french),
                     Rules([n \in 1..18 |-> R(n % 10)])>>)>>)>>)

\* Spans as they are written, and as they should not be.
Nines(n) == [k \in 1..n |-> 9]

Spans ==
    {Span(3),
     Nines(8) \o <<HYPHEN>> \o Nines(10),
     <<1, 2, 3>>,
     <<>>,
     <<HYPHEN>>,
     <<1, HYPHEN, HYPHEN, 2>>,
     <<SPACE, 1, HYPHEN, SPACE, HYPHEN, 2>>,
     <<LETTER, 1, HYPHEN, 2, LETTER, 3>>,
     NoText}
    \cup {Nines(n) \o <<HYPHEN>> \o Nines(m) : n \in {7, 13, 14, 15, 16, 17}, m \in {7, 14, 15, 16, 17}}

OneRule(rule) ==
    Document(<<Groups(<<Group(<<Prefix(<<9, 7, 8>>), Agency(english),
                                Rules(<<R(1), rule, R(2)>>)>>)>>)>>)

OddRules ==
    {OneRule(Rule(r, <<2>>)) : r \in Spans}
    \cup {OneRule(Rule(Span(4), <<>>)), OneRule(Rule(Span(4), NoText)),
          OneRule(El("Rule", <<Leaf("Range", Span(4))>>)),
          OneRule(El("Rule", <<Leaf("Range", Span(4)), Leaf("Length", <<0>>),
                               Leaf("Range", Span(5))>>)),
          OneRule(Other)}

\* The element that lies before the groups in isbn-range.xml.
UCCPrefixes ==
    El("EAN.UCCPrefixes",
       <<El("EAN.UCC", <<Prefix(<<9, 7, 8>>), Agency(english), Rules(<<R(1)>>)>>)>>)

OddDocs ==
    {[parsed |-> FALSE, root |-> NoRoot],
     [parsed |-> TRUE, root |-> NoRoot],
     [parsed |-> TRUE, root |-> El("RegistrationGroups", <<Group(Plain)>>)],
     Document(<<>>),
     Document(<<Other, UCCPrefixes, Groups(<<Other, Group(Plain), Other, Group(NoAgency)>>)>>),
     Document(<<Groups(<<Group(Plain)>>), Groups(<<Group(Again), Group(TwoRules)>>)>>),
     Document(<<Groups(<<Group(Plain), Group(<<Prefix(NoText), Agency(french)>>)>>)>>),
     Document(<<Groups(<<Group(Plain), Group(<<Prefix(<<8>>), Agency(NoText)>>)>>)>>),
     Document(<<Groups(<<Group(<<Prefix(<<8>>), Prefix(<<9, LETTER>>), Agency(french),
                                Rules(<<R(3)>>)>>), Group(Plain)>>)>>)}

SomeDocs == Triples \cup {Many} \cup OddRules \cup OddDocs

\* The elements of these documents, level by level.
ElementsAt[depth \in 0..5] ==
    IF depth = 0 THEN {d.root : d \in SomeDocs} \ {NoRoot}
    ELSE UNION {ToSet(e.children) : e \in ElementsAt[depth - 1]}

SomeElements == UNION {ElementsAt[depth] : depth \in 0..5}
==============================================================================
