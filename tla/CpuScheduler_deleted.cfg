SPECIFICATION Spec
CONSTANTS
  s1 = s1
  s2 = s2
  s3 = s3
  Idle = Idle
  None = None
  Share <- MCShare
  prio <- MCPrio
  MaxPrio = 1
  SuperPeriod = 3
  FillSlice = 1
  Quota = {0, 2}
  Donation = {1}
  DeleteRunning = TRUE
INVARIANT
  HeadPresent
