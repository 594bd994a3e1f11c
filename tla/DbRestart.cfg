SPECIFICATION Spec
CONSTANTS
  Process <- One
  Thread = {"t", "u"}
  Home <- AllInOne
  Master <- One
  Calls <- OneSets
  Value = {0, 1}
  Default = 0
  Sync = TRUE
  Tables = {"filled"}
  MaxOpens = 2
  MaxCount = 3
  Fault = {}
CHECK_DEADLOCK FALSE
INVARIANT Exclusive
