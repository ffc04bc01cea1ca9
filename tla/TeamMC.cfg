SPECIFICATION TeamSpec
CONSTANTS
  People = {olga, ann, bob}
  Owner = olga
  SeatLimit = 2
  MaxInvitations = 3
  olga = olga
  ann = ann
  bob = bob
SYMMETRY Alike
INVARIANTS SeatsWithinPlan AnOwnerRemains
CHECK_DEADLOCK FALSE
