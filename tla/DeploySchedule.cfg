SPECIFICATION FairSpec
CONSTANTS
  c1 = c1
  c2 = c2
  t1 = t1
  t2 = t2
  Commits <- OneCommit
  ComposeCommits <- OneCommit
  None = None
  ComposeTag = ComposeTag
  Tasks <- OneTask
  Scheduler = Scheduler
  Incidents = {TRUE, FALSE}
  MaxStarts = 1
  MaxSchedules = 1
  MaxRestarts = 1
INVARIANTS FiresOnce
PROPERTY ScheduleServed
