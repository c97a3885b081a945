SPECIFICATION InsistingSpec
CONSTANTS
  TimeTexts <- MCTimeTexts
  DaysTexts <- MCDaysTexts
  Seconds <- MCSeconds
PROPERTY WindowCanBeEntered
