SPECIFICATION FairSpec
CONSTANTS
  google = google
  apple = apple
  second = second
  operation = operation
  enrollment = enrollment
  sync = sync
  again = again
  stamp = stamp
  joined = joined
  job = job
  phone = phone
  None = None
  Passes = {google, apple}
  ApplePasses = {apple}
  Transactions = {operation, sync}
  Plan <- SinglePlan
  Event <- MCEvent
  Inserts <- MCInserts
  PreLocking = {sync}
  Serializable = {operation}
  Devices = {phone}
  Installs <- OnePass
  SplitListing = TRUE
  MaxSequence = 5
INVARIANT NoUpdateMissed
PROPERTY UpdatesReachDevice
