SPECIFICATION FairSpec
CONSTANTS
  data = data
  bypass = bypass
  Masters = {data, bypass}
  Beats <- MCBeats
  Kinds <- MCKinds
  DEPTH = 4
  None = None
INVARIANTS TypeOK WForOldest FifoHasRoom NothingOwed
PROPERTY Answered
