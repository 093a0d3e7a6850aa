------------------------------ MODULE Hyphenate ------------------------------
(****************************************************************************)
(* hyphenate_isbn and place_hyphens (isbn-xml-to-fst.c) over the tables of  *)
(* prefixes and ranges.  Offsets are the C offsets; the string and the      *)
(* buffer are read and written byte by byte, past their end included.  The  *)
(* lookup of the prefix is the caller's to supply (IsbnInfo).               *)
(****************************************************************************)
EXTENDS Text

CONSTANTS
    Isbns,          \* the strings to hyphenate
    BufSize         \* bsz, the callers' buffer

VARIABLES
    prefixes,       \* the tables, which are only read:
    ranges,         \*   see IsbnTable
    pc,             \* "idle", "lookup", "scan"; "fault" once the process died
    isbn,           \* the string of the call under way, or of the last one
    pfx,            \* entry of the prefix table
    registrant,     \* the number that is compared with the ranges
    i,              \* ranges tried so far
    rc,             \* the answer
    hbuf            \* the bytes written to the caller's buffer

tables == <<prefixes, ranges>>
locals == <<pc, isbn, pfx, registrant, i, rc, hbuf>>
vars == <<tables, locals>>

\* Mutant: the slice starts at the group.
RegistrantFromGroup(s) == ParseNumberSlice(s, 3, 7)

Registrant(s) == ParseNumberSlice(s, 4, 7)

\* What the bytes behind a string's NUL may come to: a number in each of the
\* intervals that the bounds of the ranges make.
AnyNumber ==
    {0} \cup {ranges[r].rng_lbound : r \in DOMAIN ranges}
        \cup {Uint32(ranges[r].rng_ubound + 1) : r \in DOMAIN ranges}

\* Mutant: the publication is not shortened by the registrant.
PublicationWhole(len) == 8

Publication(len) == 8 - len

\* Mutant: the registrant is taken to follow a one-digit group.
PlaceHyphensAtFour(s, len, prefix) ==
    Slice(s, 0, 3) \o <<HYPHEN>> \o SubSeq(prefix, 4, Len(prefix))
        \o <<HYPHEN>> \o Slice(s, 4, len)
        \o <<HYPHEN>> \o Slice(s, 4 + len, Publication(len))
        \o <<HYPHEN>> \o Slice(s, 12, 1) \o <<EOS>>

PlaceHyphens(s, len, prefix) ==
    LET l1 == Len(prefix) - 3
    IN  Slice(s, 0, 3) \o <<HYPHEN>> \o SubSeq(prefix, 4, Len(prefix))
        \o <<HYPHEN>> \o Slice(s, 3 + l1, len)
        \o <<HYPHEN>> \o Slice(s, 3 + l1 + len, Publication(len))
        \o <<HYPHEN>> \o Slice(s, 12, 1) \o <<EOS>>

-----------------------------------------------------------------------------
Init ==
    /\ pc = "idle"
    /\ isbn = <<>>
    /\ pfx = 0 /\ registrant = 0 /\ i = 0
    /\ rc = "none"
    /\ hbuf = <<>>

\* Up to the call of fst_lookup_prefix.
Ask(s) ==
    /\ pc = "idle"
    /\ isbn' = s /\ hbuf' = <<>>
    /\ pfx' = 0 /\ registrant' = 0 /\ i' = 0
    /\ IF BufSize < 18 THEN rc' = "ENOSPC" /\ UNCHANGED pc
       ELSE rc' = "none" /\ pc' = "lookup"
    /\ UNCHANGED tables

\* From its answer to the search in the range table.
Looked(err, val) ==
    /\ pc = "lookup"
    /\ IF err # "OK"
       THEN rc' = err /\ pc' = "idle" /\ UNCHANGED <<pfx, registrant>>
       ELSE /\ pfx' = val + 1
            /\ registrant' \in IF Len(isbn) >= 10 THEN {Registrant(isbn)} ELSE AnyNumber
            /\ pc' = "scan"
            /\ UNCHANGED rc
    /\ UNCHANGED <<tables, isbn, i, hbuf>>

Rule == ranges[prefixes[pfx].rule_idx + i + 1]

InRange == Rule.rng_lbound <= registrant /\ registrant <= Rule.rng_ubound

\* Mutant: a range that does not have the registrant is tried again.
TryRangeAgain ==
    /\ pc = "scan" /\ i < prefixes[pfx].nrules /\ InRange
    /\ hbuf' = PlaceHyphens(isbn, Rule.rng_len, prefixes[pfx].prefix)
    /\ rc' = "OK" /\ pc' = "idle"
    /\ UNCHANGED <<tables, isbn, pfx, registrant, i>>

\* One range: it has the registrant, and the hyphens go in; or the next one.
\* For a length of more than eight digits, and a prefix of less than three,
\* memcpy is asked for almost all of the memory there can be.
TryRange ==
    /\ pc = "scan" /\ i < prefixes[pfx].nrules
    /\ IF ~InRange
       THEN i' = i + 1 /\ UNCHANGED <<pc, rc, hbuf>>
       ELSE /\ UNCHANGED i
            /\ IF Rule.rng_len > 8 \/ Len(prefixes[pfx].prefix) < 3
               THEN pc' = "fault" /\ UNCHANGED <<rc, hbuf>>
               ELSE /\ hbuf' = PlaceHyphens(isbn, Rule.rng_len, prefixes[pfx].prefix)
                    /\ rc' = "OK" /\ pc' = "idle"
    /\ UNCHANGED <<tables, isbn, pfx, registrant>>

NoRange ==
    /\ pc = "scan" /\ i = prefixes[pfx].nrules
    /\ rc' = "ENOENT" /\ pc' = "idle"
    /\ UNCHANGED <<tables, isbn, pfx, registrant, i, hbuf>>

-----------------------------------------------------------------------------
Answered == pc = "idle" /\ rc = "OK"

\* The bytes of a string without its hyphens.
Unhyphenated(s) ==
    LET bytes[n \in 0..Len(s)] ==
            IF n = 0 THEN <<>>
            ELSE bytes[n - 1] \o IF s[n] # HYPHEN THEN <<s[n]>> ELSE <<>>
    IN  bytes[Len(s)]

\* Whatever the length of the group and of the string, the fields up to the
\* last hyphen are consecutive bytes of the string: place_hyphens neither
\* skips a digit nor repeats one before it comes to the check digit.
ConsecutiveFields ==
    Answered =>
        LET n == Len(hbuf) - 3
        IN  Unhyphenated(SubSeq(hbuf, 1, n)) = Unhyphenated(Slice(isbn, 0, n - 3))

\* place_hyphens asks its caller for 18 bytes and writes as many as the prefix
\* wants: the callers' 32 suffice for any prefix that add_prefix can hold.
BufferHolds == Len(hbuf) <= BufSize
==============================================================================
