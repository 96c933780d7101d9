CONSTANTS
  Packet = {p1, p2, p3}
  Source = {s1}
  Sink = {k1}
  QueueSize <- MCQueueSize
  Reorders = FALSE
  NoPacket = NoPacket
  NoThread = NoThread
SPECIFICATION LiveSpec
INVARIANTS
  NoMissedSignal
PROPERTIES
  ImplementsFlow
  QueriesStable
  PacketsReturn
CHECK_DEADLOCK FALSE
