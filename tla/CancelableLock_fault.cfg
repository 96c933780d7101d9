CONSTANTS
  Thread = {t1, t2, t3}
  Signaller = {t3}
  Lock = {l1, l2}
  Invalid = Invalid
  Null = Null
  MaxCancels = 0
  MaxFaults = 1
SPECIFICATION Spec
INVARIANT
  RaceHandled
CHECK_DEADLOCK FALSE
