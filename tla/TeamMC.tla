------------------------------- MODULE TeamMC -------------------------------
(***************************************************************************)
(* The instance of Team for TLC.                                           *)
(***************************************************************************)
EXTENDS Team, TLC

CONSTANTS olga, ann, bob

Alike == Permutations(People \ {Owner})

=============================================================================
