SPECIFICATION Spec
CONSTANTS
  Discrete = {"status"}
  Threshold = {"rpm"}
  Info = "Entity_info.10.1"
  Devices <- MCDevices
  DataId <- MCDataId
  StatusId <- MCStatusId
  PollerOf <- MCPollerOf
  Bits = {"fault", "slow"}
  PollBit = "fault"
  StatusBit = "fault"
  Values = {1}
  Scenes <- MCScenes
INVARIANTS RecordsWhole PresenceKept
PROPERTY StatesFollow
CHECK_DEADLOCK FALSE
