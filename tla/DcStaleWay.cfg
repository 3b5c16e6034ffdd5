SPECIFICATION Spec
CONSTANTS
  NumAddr = 3
  NumSets = 1
  NumWays = 2
  Versions = 2
  None = None
  PtwLines = {}
  LoadLines = {0, 1, 2}
  StoreLines = {0}
  Flushes = FALSE
  Amos = FALSE
  Kills = FALSE
  Contended = {0}
  Snoops = {"READ_SHARED"}
  RDelay = 0
VIEW View
INVARIANT StoreSafe
