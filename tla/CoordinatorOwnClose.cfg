SPECIFICATION FairSpec
CONSTANTS
  Zones = {z1, z2}
  NoZone = NoZone
  QueueCap = 3
  RequestTypes = {"Start", "Apply", "RefreshBattery"}
  IgnoredWrites = {"arm", "stop"}
PROPERTY
  OwnCloseKeepsConfirmed
