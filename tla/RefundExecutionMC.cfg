SPECIFICATION RefundSpec
CONSTANTS
  Requests = {r1, r2}
  Calls = {c1, c2}
  Handlers = {h1, h2}
  Paid = 2
  MaxEvents = 3
  MaxSeconds = 2
  MaxFaults = 2
  None = None
  r1 = r1
  r2 = r2
  c1 = c1
  c2 = c2
  h1 = h1
  h2 = h2
SYMMETRY Alike
INVARIANTS RefundsWithinPaid RejectedIsNotRefunded SettledAgrees ProcessingCanGoOn
CHECK_DEADLOCK FALSE
