SPECIFICATION FairSpec
CONSTANTS
  NoSlvPorts = 2
  Versions = 2
  MaxWTrans = 2
  Bypass = {}
  AwPrompt = FALSE
  Atomics = {"AMO", "LR", "SC"}
  None = None
INVARIANT ScAtomic
PROPERTY Served
