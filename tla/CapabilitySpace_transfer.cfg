CONSTANTS
  CorePd = CorePd
  AppPd = AppPd
  CoreThread = CoreThread
  App1 = App1
  App2 = App2
  Pd = {CorePd, AppPd}
  Core = CorePd
  Thread = {CoreThread, App1, App2}
  PdOf <- MCPdOf
  Object = {o1, o2}
  Identity = {i1, i2}
  Capid = {c1, c2}
  NoCap = NoCap
  Null = Null
  MaxCopies = 2
  RefMod = 5
  UtcbMod = 4
  RcvCaps = 2
  MaxFaults = 1
SYMMETRY Symmetry
SPECIFICATION Spec
INVARIANTS
  UtcbsCounted
  NothingLeaks
  OneNamePerIdentity
PROPERTY
  HeldNotDeleted
CHECK_DEADLOCK FALSE
