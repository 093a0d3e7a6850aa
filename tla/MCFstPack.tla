------------------------------ MODULE MCFstPack ------------------------------
(****************************************************************************)
(* Instances of FstPackHist: the kind of strings of the test program of     *)
(* libfst, with a common beginning and one that extends another.            *)
(****************************************************************************)
EXTENDS FstPackHist

CONSTANTS a, b, c

PackStrings == {<<>>, <<a, b>>, <<a, c>>, <<b, a, c>>}
PackKeys == PackStrings \cup {<<a>>, <<b>>, <<c>>, <<a, b, c>>, <<b, b>>}
==============================================================================
