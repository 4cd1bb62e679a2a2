---------------------------- MODULE MCXdfRandom ----------------------------
(***************************************************************************)
(* XdfRandom for TLC: the data and the keys of records are model values    *)
(* that no definition tells apart.                                         *)
(***************************************************************************)
EXTENDS XdfRandom, TLC

Symmetry == Permutations(Keys) \cup Permutations(Values)
=============================================================================
