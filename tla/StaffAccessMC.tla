---------------------------- MODULE StaffAccessMC ----------------------------
(***************************************************************************)
(* The instance of StaffAccess for TLC.                                    *)
(***************************************************************************)
EXTENDS StaffAccess, TLC

CONSTANTS ann, bob, phone, tablet, shop, depot, earn, redeem

\* Both work at the shop; the depot is there for the shop to be archived.
AtTheShop == [p \in People |-> {shop}]

\* Everybody works everywhere.
Anywhere == [p \in People |-> Locations]
AllSets == SUBSET Capabilities

Alike == Permutations(People) \cup Permutations(Devices)
AlikeAll == Alike \cup Permutations(Capabilities)
AlikeSites == Permutations(Locations) \cup Permutations(Capabilities)

=============================================================================
