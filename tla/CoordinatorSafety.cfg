SPECIFICATION Spec
CONSTANTS
  Zones = {z1, z2}
  NoZone = NoZone
  QueueCap = 3
  RequestTypes = {"Start", "Apply", "RefreshBattery"}
  IgnoredWrites = {"arm", "stop"}
SYMMETRY ZoneSymmetry
INVARIANTS
  TypeOK
  UrgentMeansStopPending
  QueueServes
  NoUnattendedArm
  RestingIdleIsClosed
  RestingRunningIsTimed
  FailureClaimsNothing
PROPERTIES
  StopConfirmedMeansClosed
  ClaimsFollow
