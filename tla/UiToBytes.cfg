SPECIFICATION AllSpec
CONSTANTS
  TimeTexts <- MCTimeTexts
  DaysTexts <- MCDaysTexts
  Seconds <- MCSeconds
  UiTimes <- MCUiTimes
  UiDays <- MCUiDays
  UiSeconds <- MCUiSeconds
  Times <- MCTimes
  Durations <- MCDurations
  Bytes <- MCBytes
INVARIANTS
  Bounded BlockDecodes OnlySoakIsUnbuildable WindowsStayOff
  UiIsServed EnteredBuilds
  RoundTrips NotificationsDecode MatchesCaptures
