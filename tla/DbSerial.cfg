SPECIFICATION FairSpec
CONSTANTS
  Process <- Two
  Thread = {"t", "u"}
  Home <- OneEach
  Master <- One
  Calls <- MixedUse
  Value = {0, 1}
  Default = 0
  Sync = TRUE
  Tables = {"filled"}
  MaxOpens = 1
  MaxCount = 3
  Fault = {"sql"}
CHECK_DEADLOCK FALSE
INVARIANTS TypeOK Exclusive
PROPERTY CallsReturn
