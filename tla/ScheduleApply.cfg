SPECIFICATION Spec
CONSTANTS
  Days = {none, all}
  NoDays = none
  AllDays = all
  Blocks = {empty, b1}
  EmptyBlock = empty
  NoBlock = noBlock
  NoConfig = noConfig
  Torn = torn
  MaxEdits = 2
  MaxJobs = 2
 
PROPERTIES RecordIsConfirmed KeepsTheRest
