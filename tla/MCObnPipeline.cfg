\* An old and a new connection of an instrument, two workers, queues of one.
CONSTANTS
  h1 = h1
  h2 = h2
  i1 = i1
  None = None
  Blank = Blank
  Old = Old
  Handlers = {h1, h2}
  Instruments = {i1}
  InstrumentOf <- OldAndNew
  Crc32 <- OneCrc32
  WriterThreads = 2
  QueueMaxPackets = 2
  MaxPackets <- ThreePackets
  OldFiles <- OldWithoutRaw
SPECIFICATION Spec
INVARIANTS
  TypeOK
  RowsAligned
  WrittenInArrivalOrder
  ProcessedIsStored
PROPERTY
  ImplementsPacketLog
CHECK_DEADLOCK FALSE
