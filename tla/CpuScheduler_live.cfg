SPECIFICATION LiveSpec
CONSTANTS
  s1 = s1
  s2 = s2
  s3 = s3
  Idle = Idle
  None = None
  Share <- TwoShares
  prio <- TwoPrio
  MaxPrio = 1
  SuperPeriod = 3
  FillSlice = 1
  Quota = {0, 1}
  Donation = {}
  DeleteRunning = FALSE
PROPERTY
  FillProgress
