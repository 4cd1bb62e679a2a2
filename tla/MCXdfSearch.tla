---------------------------- MODULE MCXdfSearch ----------------------------
(***************************************************************************)
(* XdfSearch for TLC.  The keys are not symmetric here: ScanEnds is a      *)
(* liveness property.                                                      *)
(***************************************************************************)
EXTENDS XdfSearch, TLC
=============================================================================
