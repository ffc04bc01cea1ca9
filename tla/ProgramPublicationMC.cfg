SPECIFICATION Spec
CONSTANTS
  Keys = {k1, k2}
  Goal = 1
  MaxVersions = 3
  MaxEdits = 2
  MaxRevision = 6
  MaxSessions = 1
  k1 = k1
  k2 = k2
SYMMETRY Alike
INVARIANTS PublishedWasValidated PublishedPointer PublishedByOneCommand
PROPERTY TransitionsAreSynced
CHECK_DEADLOCK FALSE
