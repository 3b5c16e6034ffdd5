SPECIFICATION Spec
CONSTANTS
  NumAddr = 3
  NumSets = 1
  NumWays = 2
  Versions = 2
  None = None
  PtwLines = {0}
  LoadLines = {}
  StoreLines = {0, 1, 2}
  Flushes = FALSE
  Amos = FALSE
  Kills = FALSE
  Contended = {0}
  Snoops = {"READ_ONCE", "READ_SHARED", "READ_UNIQUE", "CLEAN_INVALID"}
  RDelay = 1
VIEW View
INVARIANTS OneHot Fresh
