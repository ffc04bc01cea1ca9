CONSTANTS
  key1 = key1
  key2 = key2
  tab1 = tab1
  tab2 = tab2
  Keys = {key1, key2}
  Clients = {tab1, tab2}
  ByEmail = TRUE
  MaxCredentials = 3
  MaxSessions = 4
SPECIFICATION Spec
CHECK_DEADLOCK FALSE
INVARIANT ErasedStaysOut
