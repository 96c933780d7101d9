CONSTANTS
  Thread = {t1, t2, t3, t4}
  Signaller = {t4}
  Lock = {l1}
  Invalid = Invalid
  Null = Null
  MaxCancels = 1
  MaxFaults = 1
SPECIFICATION LiveSpec
INVARIANTS
  MutualExclusion
  ApplicantsListed
  NoLostWakeUp
  WokenAsOwner
PROPERTY
  EveryoneServed
CHECK_DEADLOCK FALSE
