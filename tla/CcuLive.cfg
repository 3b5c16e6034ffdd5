CONSTANTS
  NoMstPorts = 2
  ReadKinds = {"ReadOnceLo", "ReadOnceHi", "ReadShared", "ReadUnique", "CleanUnique", "LoadReserved"}
  WriteKinds = {"WriteUnique", "AtomicLoad"}
  MasterStalls = {}
  None = None
  Mem = Mem
SPECIFICATION FairSpec
PROPERTY TransactionEnds
PROPERTY ReadServed
PROPERTY WriteServed
