CONSTANTS
  Users = {1, 2}
  Streams = {1, 2}
  Notifications = {1}
  Requests = {r1}
  MaxConns = 1
  ChanBuf = 1
  MaxSends = 3
  None = None
SPECIFICATION FairLifeSpec
INVARIANTS
  SlotsAreLiveStreams
  ClosedAfterDrain
PROPERTIES
  ImplementsFeed
  ShutdownEnds
  StreamsEnd
CHECK_DEADLOCK FALSE
