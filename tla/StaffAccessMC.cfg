SPECIFICATION Spec
CONSTANTS
  People = {ann, bob}
  Devices = {phone, tablet}
  Locations = {shop, depot}
  LocationLimit = 2
  Posts <- AtTheShop
  Allowances = {{earn}, {redeem}}
  Capabilities = {earn, redeem}
  MaxPairings = 2
  MaxSessions = 2
  ann = ann
  bob = bob
  phone = phone
  tablet = tablet
  shop = shop
  depot = depot
  earn = earn
  redeem = redeem
SYMMETRY AlikeAll
INVARIANTS AccessIsSingle LiveSessionIsBacked DeviceWithinAssignment
PROPERTIES RevokedDevicesStayOut
CHECK_DEADLOCK FALSE
