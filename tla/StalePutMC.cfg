CONSTANTS
  slot1 = slot1
  slot2 = slot2
  Providers = {"GOOGLE"}
  Slots = {slot1, slot2}
  MaxAttempts = 2
  MaxChanges = 2
  MaxFaults = 0
SPECIFICATION Spec
CHECK_DEADLOCK FALSE
INVARIANT TransferredObjectInactive
