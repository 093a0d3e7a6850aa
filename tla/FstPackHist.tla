----------------------------- MODULE FstPackHist -----------------------------
(****************************************************************************)
(* Packing, with the strings that lead to the states of FstHist as history:  *)
(* they tell which state is lost.                                           *)
(****************************************************************************)
EXTENDS FstPack, FstHist

phvars == <<pvars, word>>

PHInit == PInit /\ word = [s \in {0} |-> <<>>]

PHNext == PNext /\ Recorded

PHSpec == PHInit /\ [][PHNext]_phvars
==============================================================================
