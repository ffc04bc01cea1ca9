CONSTANTS
  slot1 = slot1
  slot2 = slot2
  Providers = {"APPLE", "GOOGLE"}
  Slots = {slot1, slot2}
  MaxAttempts = 2
  MaxChanges = 1
  MaxFaults = 1
SPECIFICATION Spec
CHECK_DEADLOCK FALSE
INVARIANTS
  OneExecution
  NeverReactivated
  ChangesPublished
PROPERTY EveryCommandEnds
