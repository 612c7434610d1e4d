\* One error while a file is created, and the instrument's later packets are lost.
CONSTANTS
  h1 = h1
  h2 = h2
  i1 = i1
  None = None
  Blank = Blank
  Old = Old
  Handlers = {h1, h2}
  Instruments = {i1}
  InstrumentOf <- OldAndNew
  Crc32 <- OneCrc32
  WriterThreads = 2
  QueueMaxPackets = 2
  MaxPackets <- ThreePackets
  OldFiles <- OldWithoutRaw
SPECIFICATION Spec
INVARIANT
  SubsequentPacketsFlow
CHECK_DEADLOCK FALSE
