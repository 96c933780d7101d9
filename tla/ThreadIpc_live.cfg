SPECIFICATION LiveSpec
CONSTANTS
  c1 = c1
  c2 = c2
  srv = srv
  m = m
  None = None
  Thread <- FlatThread
  Calls <- FlatCalls
  Cpu = {1, 2}
  affinity <- OneHelps
  Pausers <- PausesClient
INVARIANT
  RequestsAnnounced
PROPERTIES
  ReplyAnswersRequest
  RequestAnswered
CHECK_DEADLOCK FALSE
