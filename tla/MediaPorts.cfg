SPECIFICATION Spec
CONSTANTS
  Threads = {t1, t2}
  Ports = {"dd0", "dd1", "sfp"}
  Cages = {"A", "B"}
  Modules = {"plain", "hungry", "slim", "flat", "double", "adapted", "copper", "tuned"}
  NoModule = NoModule
  Idle = Idle
  NoGroup = NoGroup
  Free = Free
  Port <- MCPort
  Scenes <- MCScenes
  FactsOf <- MCFacts
  PowerOf <- MCPower
  GenericPages <- MCGenericPages
  LeakyReads = FALSE
  Channels = {0}
INVARIANTS SlotOwned PagesRight HonestResult TxAsDone PowerWithinBudget
SYMMETRY MCSymmetry
