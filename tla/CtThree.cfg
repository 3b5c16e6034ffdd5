SPECIFICATION Spec
CONSTANTS
  NoSlvPorts = 3
  Versions = 2
  MaxWTrans = 2
  Bypass = {0}
  AwPrompt = TRUE
  Atomics = {"AMO"}
  None = None
INVARIANTS TypeOK OneOwner CleanMatchesMemory
PROPERTY SingleCopySpec
