CONSTANTS
  a1 = a1
  a2 = a2
  a3 = a3
  a4 = a4
  m1 = m1
  m2 = m2
  Attempts = {a1, a2, a3, a4}
  Carrying = {a2, a3}
  Managers = {m1}
  Fingerprint <- MCFingerprint
  None = None
  MaxPolls = 1
SPECIFICATION RedeemFairSpec
CHECK_DEADLOCK FALSE
PROPERTY EveryRedeemAnswered
