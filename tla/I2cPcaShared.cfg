SPECIFICATION Spec
CONSTANTS
  t1 = t1
  t2 = t2
  root = root
  c1 = c1
  c2 = c2
  c3 = c3
  a = a
  b = b
  d = d
  cp = cp
  NoThread = NoThread
  NoAddr = NoAddr
  NoChan = NoChan
  Root = root
  Thread <- Threads2
  PinChan <- NoBus
  PcaChan <- Chans
  MuxOf <- PcaMux
  SelOf <- PcaSel
  SelAddr <- PcaReg
  Addr <- Addrs
  Device <- PcaDevices
  Request <- RootRequests
  MaxRetry = 2
  Fault = {}
INVARIANT SlaveIsMine
