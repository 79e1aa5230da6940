SPECIFICATION SpecRestarts
CONSTANTS
  Images = {v1, v2}
  NoImage = NoImage
  HostPort = 7000
  TempPorts <- MCTempPorts
  Handlers = {h1}
  Ids <- MCIds
INVARIANT TypeOK
PROPERTIES ZeroDowntime FailedUpdateRestores DoneAsAsked
