SPECIFICATION FairSpec
CONSTANTS
  s1 = s1
  s2 = s2
  runs = runs
  refused = refused
  Servers <- MCServers
  Actions <- MCActions
  Dispatchable <- MCActions
  Permitted <- MCPermitted
  Routed <- MCRouted
  MaxCmds = 3
  BatchLimit = 2
INVARIANTS TypeOK AtMostOnce CompletedWasPerformed ClaimedInOrder
PROPERTIES EveryCommandClaimed KeepsPromise
CHECK_DEADLOCK FALSE
