------------------------------ MODULE MCLineBuf ------------------------------
(****************************************************************************)
(* LineBuf with segments of two pages of four bytes (three characters).     *)
(****************************************************************************)
EXTENDS LineBuf

\* A file of three lines, by their lengths; the last may lack its newline.
Chars(n) == [i \in 1..n |-> "char"]

Text(x, y, z, ended) ==
    Chars(x) \o <<"newline">> \o Chars(y) \o <<"newline">> \o Chars(z)
    \o IF ended THEN <<"newline">> ELSE <<>>

\* One segment holds lines of up to five characters.
SmallFiles ==
    {Text(x, y, z, ended) :
        x \in 0..8, y \in 0..8, z \in {0, 2, 3, 5, 6, 9}, ended \in BOOLEAN}
==============================================================================
