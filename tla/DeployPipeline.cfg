SPECIFICATION Spec
CONSTANTS
  c1 = c1
  c2 = c2
  t1 = t1
  t2 = t2
  Commits <- MCCommits
  ComposeCommits <- NoCompose
  None = None
  ComposeTag = ComposeTag
  Tasks <- MCTasks
  Scheduler = Scheduler
  Incidents = {FALSE}
  MaxStarts = 2
  MaxSchedules = 0
  MaxRestarts = 1
INVARIANTS TypeOK HistoryTrue
PROPERTIES DeployedIsReported
SYMMETRY Symmetry
CHECK_DEADLOCK FALSE
