SPECIFICATION Spec
CONSTANTS
  t1 = t1
  t2 = t2
  cpu0 = cpu0
  Timeout = {t1, t2, cpu0}
  CpuTimeout = cpu0
  Never = Never
  Wrap = 5
  Duration = {0, 1, 3, 4}
  Slice = {1, 3}
  MaxEpoch = 3
INVARIANTS
  ListsSorted
  AgeIsRight
PROPERTY
  ImplementsAbstractTimer
CHECK_DEADLOCK FALSE
