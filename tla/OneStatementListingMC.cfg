SPECIFICATION Spec
CONSTANTS
  google = google
  apple = apple
  second = second
  operation = operation
  enrollment = enrollment
  sync = sync
  again = again
  stamp = stamp
  joined = joined
  job = job
  phone = phone
  None = None
  Passes = {google, apple, second}
  ApplePasses = {apple, second}
  Transactions = {operation, enrollment, sync, again}
  Plan <- MCPlan
  Event <- MCEvent
  Inserts <- MCInserts
  PreLocking = {sync, again}
  Serializable = {operation, enrollment}
  Devices = {phone}
  Installs <- EveryPass
  SplitListing = FALSE
  MaxSequence = 5
INVARIANTS TagCountsCommands NoUpdateMissed
PROPERTIES CommitOrder
SYMMETRY Workers
