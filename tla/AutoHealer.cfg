SPECIFICATION FairSpec
CONSTANTS
  gpu = gpu
  nginx = nginx
  Meters = {gpu}
  Services = {nginx}
  Prone <- AGpuOrAService
  Duration = 2
  Cooldown = 2
  None = None
  MaxOpen = 2
  MaxFailures = 3
  MaxCrashes = 2
INVARIANTS TypeOK
PROPERTIES AlertsAreApart SustainedOnly TroubleIsTold 
