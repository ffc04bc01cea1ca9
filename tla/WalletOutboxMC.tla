--------------------------- MODULE WalletOutboxMC ---------------------------
(***************************************************************************)
(* An instance of WalletOutbox: two slots, either provider, one change and  *)
(* the two patches that belong to no change, one fault.                     *)
(***************************************************************************)
EXTENDS WalletOutbox, TLC

CONSTANTS slot1, slot2
=============================================================================
