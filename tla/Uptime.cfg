SPECIFICATION FairSpec
CONSTANTS
  site = site
  job = job
  n1 = n1
  n2 = n2
  None = None
  Name <- ANameEach
  Monitors = {site, job}
  Heartbeats = {job}
  Names = {n1, n2}
  MaxEvents = 1
INVARIANT TypeOK IncidentsFollow StatusPageFollows
PROPERTY DownIsTold
