CONSTANTS
  NoMstPorts = 3
  ReadKinds = {"ReadOnceLo", "ReadOnceHi", "ReadShared", "ReadUnique", "CleanUnique", "LoadReserved"}
  WriteKinds = {"WriteUnique", "AtomicLoad"}
  MasterStalls = {"ReadOnceHi", "ReadShared", "ReadUnique", "CleanUnique", "LoadReserved", "AtomicLoad"}
  None = None
  Mem = Mem
SPECIFICATION Spec
INVARIANT TypeOK
INVARIANT QuiescentAtIdle
INVARIANT SnoopedBeforeResponse
INVARIANT BufferAccounting
INVARIANT DirtyBeforeMemory
PROPERTY CompleteAnswer
PROPERTY DirtyNotLost
PROPERTY RBeatHeld
