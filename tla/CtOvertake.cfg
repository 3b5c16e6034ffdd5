SPECIFICATION Spec
CONSTANTS
  NoSlvPorts = 2
  Versions = 2
  MaxWTrans = 2
  Bypass = {}
  AwPrompt = FALSE
  Atomics = {}
  None = None
INVARIANT CleanMatchesMemory
