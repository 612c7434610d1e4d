\* No HDF5 error, but a jump of the instrument's clock.
CONSTANTS
  None = None
  Packets <- JumpingPackets
  Tolerance = 1
  SeqModulus = 4
  MaxZeros = 4
  MaxCalls = 3
  MaxFaults = 0
SPECIFICATION Spec
INVARIANT
  NotStalled
