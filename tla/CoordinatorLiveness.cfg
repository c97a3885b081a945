SPECIFICATION FairSpec
CONSTANTS
  Zones = {z1}
  NoZone = NoZone
  QueueCap = 3
  RequestTypes = {"Start"}
  IgnoredWrites = {}
PROPERTIES
  StopIsTakenUp
  CommandsEnd
