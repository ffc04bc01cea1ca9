SPECIFICATION Spec
CONSTANTS
  google = google
  apple = apple
  second = second
  operation = operation
  enrollment = enrollment
  sync = sync
  again = again
  stamp = stamp
  joined = joined
  job = job
  phone = phone
  None = None
  Passes = {google, apple, second}
  ApplePasses = {apple, second}
  Transactions = {operation, sync}
  Plan <- TwoApplePlan
  Event <- MCEvent
  Inserts <- MCInserts
  PreLocking = {sync}
  Serializable = {operation}
  Devices = {phone}
  Installs <- EveryPass
  SplitListing = TRUE
  MaxSequence = 5
INVARIANT NoUpdateMissed
