-------------------------------- MODULE MCFst --------------------------------
(****************************************************************************)
(* Instances of FstHist.  Characters are model values.                      *)
(****************************************************************************)
EXTENDS FstHist

CONSTANTS a, b, c

\* Strings that overlap in every way: the empty string, one that begins
\* another, one that leaves another after a common beginning.  With the long
\* one there are eleven states, more than the ten that fst_init allocates.
OverlapStrings == {<<>>, <<a>>, <<a, b>>, <<b, a, a, a, a, a, a, a>>}
OverlapKeys == OverlapStrings \cup {<<b>>, <<a, c>>, <<a, b, c>>, <<b, a, c>>}
==============================================================================
