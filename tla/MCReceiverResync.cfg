\* A record behind the header of one that cannot be decoded.
CONSTANTS
  c1 = c1
  c2 = c2
  None = None
  Clients = {c1, c2}
  Streams <- OneTalks
  Starts <- StartKinds
  RecordLength <- Lengths
  Needed <- BytesNeeded
  Parses <- Decoded
  HeaderSize = 2
  RecvSize = 3
  MaxClients = 1
  IdleTimeouts = 2
  Limits <- Settings
SPECIFICATION Spec
INVARIANT
  UndecodableResyncs
CHECK_DEADLOCK FALSE
