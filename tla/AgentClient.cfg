SPECIFICATION ClientFairSpec
CONSTANTS
  quick = quick
  build = build
  rotation = rotation
  Requests = {quick, build, rotation}
  Long = {build}
  Rotations = {rotation}
  Permits = 1
  LongPermits = 1
  Threshold = 2
  Reset = 2
  MaxTokens = 2
  MaxRestarts = 1
INVARIANTS ClientTypeOK NeverRejected InStep
PROPERTY Retries
