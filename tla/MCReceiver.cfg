\* Streams of six bytes in any chunks, a second client, one slot.
CONSTANTS
  c1 = c1
  c2 = c2
  None = None
  Clients = {c1, c2}
  Streams <- OneTalks
  Starts <- StartKinds
  RecordLength <- Lengths
  Needed <- BytesNeeded
  Parses <- Decoded
  HeaderSize = 2
  RecvSize = 3
  MaxClients = 1
  IdleTimeouts = 2
  Limits <- Settings
SPECIFICATION FairSpec
INVARIANTS
  TypeOK
  SlotsAccounted
  BytesAccounted
  ChunksDoNotMatter
  BufferBounded
PROPERTY
  HalfOpenReaped
CHECK_DEADLOCK FALSE
