\* A write fails and the quarantine directory cannot be made: the shard stops.
CONSTANTS
  h1 = h1
  h2 = h2
  h3 = h3
  d1 = d1
  d2 = d2
  d3 = d3
  None = None
  Handlers = {h1, h2}
  Devices = {d1, d3}
  Crc32 <- TwoDevicesCrc32
  WriterThreads = 2
  WriteQueueMaxPackets = 1
  MaxPackets = 2
  Healthy = {0}
SPECIFICATION FairSpec
PROPERTIES
  WriteFailuresSurvived
CHECK_DEADLOCK FALSE
