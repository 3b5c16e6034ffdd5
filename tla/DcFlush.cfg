SPECIFICATION Spec
CONSTANTS
  NumAddr = 3
  NumSets = 2
  NumWays = 2
  Versions = 2
  None = None
  PtwLines = {}
  LoadLines = {}
  StoreLines = {0, 1, 2}
  Flushes = TRUE
  Amos = FALSE
  Kills = FALSE
  Contended = {0}
  Snoops = {"READ_ONCE", "READ_SHARED", "READ_UNIQUE", "CLEAN_INVALID"}
  RDelay = 0
VIEW View
INVARIANT NoLostWrite
PROPERTY FlushEmpties
