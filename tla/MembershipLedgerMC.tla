-------------------------- MODULE MembershipLedgerMC --------------------------
(***************************************************************************)
(* Small instances of MembershipLedger for TLC.                            *)
(***************************************************************************)
EXTENDS MembershipLedgerInvariant

\* A card of three stamps with a milestone at two, which may be redeemed twice
\* and lapses one tick after it was earned.
MCRewards == <<2, 3>>
MCMaximumRedemptions == (2 :> 2) @@ (3 :> 1)
MCValidity == (2 :> 1) @@ (3 :> 0)
MCCorrections == {-1, 1}
=============================================================================
