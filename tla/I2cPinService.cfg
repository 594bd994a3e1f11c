SPECIFICATION FairCalls
CONSTANTS
  t1 = t1
  t2 = t2
  root = root
  c1 = c1
  c2 = c2
  c3 = c3
  a = a
  b = b
  d = d
  cp = cp
  NoThread = NoThread
  NoAddr = NoAddr
  NoChan = NoChan
  Root = root
  Thread <- Threads2
  PinChan <- PinChans
  PcaChan <- NoBus
  MuxOf <- PinMux
  SelOf <- PinSel
  SelAddr <- PinReg
  Addr <- Addrs
  Device <- PinDevices
  Request <- ChanRequests
  MaxRetry = 2
  Fault = {"lock", "level", "slave", "pec", "xfer"}
  MaxCalls = 3
CHECK_DEADLOCK FALSE
PROPERTIES CallsReturn ImplementsService
