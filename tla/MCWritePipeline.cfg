\* Safety of the pipeline and its packet log: two connections, two shards,
\* queues of one.
CONSTANTS
  h1 = h1
  h2 = h2
  h3 = h3
  d1 = d1
  d2 = d2
  d3 = d3
  None = None
  Handlers = {h1, h2}
  Devices = {d1, d2, d3}
  Crc32 <- Crc32Of
  WriterThreads = 2
  WriteQueueMaxPackets = 2
  MaxPackets = 2
  Healthy = {}
SPECIFICATION Spec
SYMMETRY Symmetry
INVARIANTS
  TypeOK
  DeviceOrder
  AcceptedIsHeld
  UnfinishedCounts
  GracefulDrain
  ExitedWorkerLeavesLate
  ConnectionOrder
  StopTakesTheTail
PROPERTY
  ImplementsPacketLog
CHECK_DEADLOCK FALSE
