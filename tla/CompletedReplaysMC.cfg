CONSTANTS
  a1 = a1
  a2 = a2
  a3 = a3
  a4 = a4
  Attempts = {a1, a2, a3}
  Fingerprint <- MCSameFingerprint
  None = None
  MaxPolls = 2
SPECIFICATION Spec
CHECK_DEADLOCK FALSE
PROPERTIES CompletedReplays
