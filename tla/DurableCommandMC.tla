--------------------------- MODULE DurableCommandMC ---------------------------
(* Requests under one key: three equal ones and one for something else.    *)
EXTENDS DurableCommand, TLC

CONSTANTS a1, a2, a3, a4

MCFingerprint == (a1 :> "redeem") @@ (a2 :> "redeem") @@ (a3 :> "redeem") @@ (a4 :> "other")
MCSameFingerprint == (a1 :> "redeem") @@ (a2 :> "redeem") @@ (a3 :> "redeem")
=============================================================================
