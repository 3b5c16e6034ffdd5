SPECIFICATION FairSpec
CONSTANTS
  N = 3
  Tries = 3
  EntriesLba = 3
  Wrap = 8
  Partitions <- Disks
  Prompt = TRUE
  Garbage = Garbage
INVARIANTS TypeOK NobodyEarly SuccessMeansLoaded
PROPERTY AllStart
CHECK_DEADLOCK FALSE
