------------------------------ MODULE MCXdfSeq ------------------------------
(***************************************************************************)
(* XdfSeq for TLC: clusters grow from one unit to two at address 8, so     *)
(* that a tape of a few records crosses the limit.                         *)
(***************************************************************************)
EXTENDS XdfSeq

Symmetry == Permutations(Keys)
=============================================================================
