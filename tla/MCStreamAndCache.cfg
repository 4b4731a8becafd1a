CONSTANTS
  HeaderSize = 2
  TagSize = 1
  MaxBody = 2
  LimitBefore = 1
  LimitAfter = 2
  Zlib = FALSE
  MaxPackets = 3
  MaxStreams = 2
  n1 = n1  n2 = n2  n3 = n3
  Name = {n1, n2, n3}
  TooLong = {n3}
  MaxEntries = 1
  MaxNames = 1
  MaxAge = 0
  MaxCalls = 2
  MaxClock = 1
  Failing = TRUE
CHECK_DEADLOCK FALSE
SPECIFICATION Spec
INVARIANTS TypeOK NonceUnique CountersAgree 
PROPERTIES KeepsOrder EveryPacketDispatched FileStaysReadable WriteMissesNothing EveryCallSettles
