SPECIFICATION Spec
CONSTANTS
  t1 = t1
  t2 = t2
  NoThread = NoThread
  NoLevel = NoLevel
  Thread <- TwoThreads
  Line = {"word", "pair", "pin", "sense", "bus"}
  Uses <- Apart
  StartAddr <- PlanStart
  EndAddr <- PlanEnd
  StartOffset <- PlanFrom
  EndOffset <- PlanTo
  Inverted <- PlanInv
  InputPin <- Inputs
  Width = 6
  Address <- Regs
  PowerOn <- Mixed
  Level <- Fits
  Fault = {"lock", "bus"}
INVARIANTS TypeOK LastWriteStands ReadsWhatIs
PROPERTY OwnBitsOnly
