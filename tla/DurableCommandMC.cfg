CONSTANTS
  a1 = a1
  a2 = a2
  a3 = a3
  a4 = a4
  Attempts = {a1, a2, a3, a4}
  Fingerprint <- MCFingerprint
  None = None
  MaxPolls = 1
SPECIFICATION FairSpec
CHECK_DEADLOCK FALSE
INVARIANTS TypeOK AtMostOneEffect SoleFailureChangedNothing EffectIsRecorded
PROPERTIES EveryRequestAnswered KeepsPromise
