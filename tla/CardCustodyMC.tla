--------------------------- MODULE CardCustodyMC ---------------------------
(***************************************************************************)
(* An instance of CardCustody: two transfers, two rotations at a time.      *)
(***************************************************************************)
EXTENDS CardCustody, TLC

CONSTANTS key1, key2, tab1, tab2

Symmetry == Permutations({key1, key2}) \cup Permutations({tab1, tab2})
=============================================================================
