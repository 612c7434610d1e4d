\* One HDF5 error: the retry stores the packet a second time.
CONSTANTS
  None = None
  Packets <- SixPackets
  Tolerance = 1
  SeqModulus = 4
  MaxZeros = 4
  MaxCalls = 3
  MaxFaults = 1
SPECIFICATION Spec
INVARIANT
  StoredAtMostOnce
