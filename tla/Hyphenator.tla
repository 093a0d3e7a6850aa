------------------------------ MODULE Hyphenator ------------------------------
(****************************************************************************)
(* What the program promises to do with the table of the International ISBN *)
(* Agency: it reads the table once, and from then on every string it is     *)
(* given gets one reply, which is the hyphenation that the table prescribes *)
(* for it, or ENOENT.  Some strings are beyond the promise.                 *)
(****************************************************************************)
EXTENDS Text

CONSTANTS
    Isbns,      \* the strings to hyphenate
    NoTable     \* of a document that is not as the agency publishes it

VARIABLES
    table,      \* groups of the document, [prefix, rules]; a rule is [len, lo, hi]
    pc,         \* "reading", "idle", "busy", "dead"
    isbn,       \* the string at hand
    reply       \* [rc, text]

vars == <<table, pc, isbn, reply>>

NoReply == [rc |-> "none", text |-> <<>>]

Begins(p, s) == Len(p) <= Len(s) /\ SubSeq(s, 1, Len(p)) = p

GroupsOf(s) == {g \in ToSet(table) : Begins(g.prefix, s)}

\* The seven digits behind the group, without the check digit.
RangeKey(s, g) ==
    LET rest == SubSeq(s, Len(g.prefix) + 1, 12)
    IN  Strtoul([k \in 1..7 |-> IF k <= Len(rest) THEN rest[k] ELSE 0])

RulesFor(s, g) ==
    {r \in ToSet(g.rules) : r.lo <= RangeKey(s, g) /\ RangeKey(s, g) <= r.hi}

Hyphenated(s, g, len) ==
    LET n == Len(g.prefix)
    IN  SubSeq(s, 1, 3) \o <<HYPHEN>> \o SubSeq(s, 4, n)
        \o <<HYPHEN>> \o SubSeq(s, n + 1, n + len)
        \o <<HYPHEN>> \o SubSeq(s, n + len + 1, 12)
        \o <<HYPHEN, s[13], EOS>>

\* A string is answered by its first 13 bytes.
RightReplies(s) ==
    LET texts == UNION {{Hyphenated(s, g, r.len) : r \in RulesFor(s, g)} : g \in GroupsOf(s)}
    IN  IF texts = {} THEN {[rc |-> "ENOENT", text |-> <<>>]}
        ELSE [rc : {"OK"}, text : texts]

IsIsbn(s) == Len(s) >= 13 /\ \A k \in 1..13 : s[k] \in Digit

\* The promise covers the ISBNs of one-digit groups, and any string that no
\* group of the table begins.  It does not cover the last group of the table,
\* whose state is lost in packing, nor ranges of length 0, which the agency has
\* not put in use.
Covered(s) ==
    /\ table # NoTable
    /\ ~Begins(Last(table).prefix, s)
    /\ \A g \in GroupsOf(s) :
          /\ IsIsbn(s) /\ Len(g.prefix) = 4
          /\ \A r \in RulesFor(s, g) : r.len > 0

Init ==
    /\ pc = "reading"
    /\ isbn = <<>>
    /\ reply = NoReply

Read ==
    /\ pc = "reading"
    /\ pc' = "idle"
    /\ UNCHANGED <<table, isbn, reply>>

Ask ==
    /\ pc = "idle"
    /\ pc' = "busy"
    /\ isbn' \in Isbns
    /\ reply' = NoReply
    /\ UNCHANGED table

Reply ==
    /\ pc = "busy"
    /\ pc' = "idle"
    /\ Covered(isbn) => reply' \in RightReplies(isbn)
    /\ UNCHANGED <<table, isbn>>

\* The process may end while it reads the table, and over a string that is
\* beyond the promise.
Die ==
    /\ pc = "reading" \/ (pc = "busy" /\ ~Covered(isbn))
    /\ pc' = "dead"
    /\ UNCHANGED <<table, isbn, reply>>

Next == Read \/ Ask \/ Reply \/ Die

Spec == Init /\ [][Next]_vars

\* The table is read, and every string gets its reply.
Responds ==
    /\ pc = "reading" ~> pc # "reading"
    /\ pc = "busy" ~> pc # "busy"
==============================================================================
