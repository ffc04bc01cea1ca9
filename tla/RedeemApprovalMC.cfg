CONSTANTS
  a1 = a1
  a2 = a2
  a3 = a3
  a4 = a4
  m1 = m1
  m2 = m2
  Attempts = {a1, a2, a3, a4}
  Carrying = {a2, a3}
  Managers = {m1, m2}
  Fingerprint <- MCFingerprint
  None = None
  MaxPolls = 1
SPECIFICATION RedeemSpec
CHECK_DEADLOCK FALSE
INVARIANTS EffectConsumesApproval OneDecision RejectionIsFinal
PROPERTIES ClosedStaysClosed KeepsPromise
