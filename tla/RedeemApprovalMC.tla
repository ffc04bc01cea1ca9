--------------------------- MODULE RedeemApprovalMC ---------------------------
(* A first request, retries that carry the challenge, one request that     *)
(* reuses the key for something else, and two managers.                    *)
EXTENDS RedeemApproval, TLC

CONSTANTS a1, a2, a3, a4, m1, m2

MCFingerprint == [a \in Attempts |-> IF a = a4 THEN "other" ELSE "redeem"]
=============================================================================
