SPECIFICATION Spec
CONSTANTS
  Accesses = 16
  Fails = {0, 1, 2, 5, 16}
  Fan = {0, 1}
  Speed = {0, 4000}
  FanConf <- MCFanConf
  Sensor = {1, 2}
  Limit = {75, 256}
  SensorConf <- MCSensorConf
  Thread = {t1, t2}
  SfConf <- MCSfConf
  CommConf <- MCCommConf
  LedConf <- MCLedConf
  EepromConf <- MCEepromConf
CHECK_DEADLOCK FALSE
INVARIANTS FansHonest SensorsAgree SfWhole MailboxWhole HostTold DisplayShows InfoHonest
PROPERTY FaultTold
