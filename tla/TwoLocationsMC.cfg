SPECIFICATION Spec
CONSTANTS
  People = {ann}
  Devices = {phone}
  Locations = {shop, depot}
  LocationLimit = 2
  Posts <- Anywhere
  Allowances <- AllSets
  Capabilities = {earn, redeem}
  MaxPairings = 1
  MaxSessions = 2
  ann = ann
  bob = bob
  phone = phone
  tablet = tablet
  shop = shop
  depot = depot
  earn = earn
  redeem = redeem
SYMMETRY AlikeSites
INVARIANTS AccessIsSingle LiveSessionIsBacked DeviceWithinAssignment
PROPERTIES RevokedDevicesStayOut
CHECK_DEADLOCK FALSE
