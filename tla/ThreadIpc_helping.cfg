SPECIFICATION Spec
CONSTANTS
  c1 = c1
  c2 = c2
  srv = srv
  m = m
  None = None
  Thread <- MCThread
  Calls <- MCCalls
  Cpu = {1, 2}
  affinity <- ClientAnywhere
  Pausers <- PausesBoth
INVARIANTS
  NoPanic
  IpcStateMatches
  SharesFollowSink
CONSTRAINT NotMisused
CHECK_DEADLOCK FALSE
