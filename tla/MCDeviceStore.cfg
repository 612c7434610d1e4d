\* Six packets in any order and repeatedly, two HDF5 errors, restarts.
CONSTANTS
  None = None
  Packets <- SixPackets
  Tolerance = 1
  SeqModulus = 4
  MaxZeros = 4
  MaxCalls = 4
  MaxFaults = 2
SPECIFICATION Spec
INVARIANTS
  TypeOK
  RowsReadOwnData
  AnsweredIsStored
  StoredAndFlaggedOnce
  NoHole
  LastIsOneStored
