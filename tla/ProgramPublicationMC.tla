------------------------- MODULE ProgramPublicationMC -------------------------
(***************************************************************************)
(* The instance of ProgramPublication for TLC.                             *)
(***************************************************************************)
EXTENDS ProgramPublication, TLC

Alike == Permutations(Keys)

=============================================================================
