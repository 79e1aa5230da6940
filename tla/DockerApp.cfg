SPECIFICATION Spec
CONSTANTS
  Images = {v1, v2}
  Envs = {e1, e2}
  None = None
  HostPort = 8080
  TempPorts <- MCTempPorts
  Handlers = {h1}
  MaxRequests = 4
  Ids <- MCIds
INVARIANT TypeOK
PROPERTIES UpdateAnswersTruly IdleIsSlept
CHECK_DEADLOCK FALSE
