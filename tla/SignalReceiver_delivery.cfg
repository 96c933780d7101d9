SPECIFICATION LiveSpec
CONSTANTS
  t1 = t1
  t2 = t2
  x1 = x1
  x2 = x2
  r1 = r1
  None = None
  Thread = {t1, t2}
  Context = {x1, x2}
  Receiver = {r1}
  receiver <- OneReceiver
  MaxSubmits = 3
  Num = {1, 2}
  CancelsKillers = FALSE
  DestructsKilled = FALSE
INVARIANTS
  NoPanic
  DeliverableQueued
  HandlersQueued
  EveryOccurrenceProvided
  KillWaitsForAck
PROPERTIES
  NoDeliveryBeforeAck
  SignalsDelivered
  KillsEnd
