SPECIFICATION LinkSpec
CONSTANTS
  Jobs = {"start", "abort", "retract", "stop", "apply", "refresh"}
  hunter = hunter
  twin = twin
  named = named
  served = served
  stranger = stranger
  Hunter = hunter
  None = none
  Devices <- MCDevices
  Scores <- MCScores
INVARIANTS AloneMeansOwn ReadsAreOwn ArmAfterPrepare PeerIsBest
PROPERTIES HandlesAreFresh LeftoverLinkIsReleased SessionsEnd NoCandidateMissed
