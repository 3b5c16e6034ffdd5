SPECIFICATION Spec
CONSTANTS
  NumAddr = 2
  NumSets = 1
  NumWays = 1
  Versions = 2
  None = None
  PtwLines = {}
  LoadLines = {0, 1}
  StoreLines = {0, 1}
  Flushes = FALSE
  Amos = FALSE
  Kills = FALSE
  Contended = {0}
  Snoops = {"READ_ONCE", "READ_SHARED", "READ_UNIQUE", "CLEAN_INVALID"}
  RDelay = 2
VIEW View
INVARIANT Coherent
