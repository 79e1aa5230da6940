SPECIFICATION ClientSpec
CONSTANTS
  quick = quick
  build = build
  rotation = rotation
  Requests = {quick, build, rotation}
  Long = {build}
  Rotations = {rotation}
  Permits = 1
  LongPermits = 1
  Threshold = 2
  Reset = 1
  MaxTokens = 1
  MaxRestarts = 0
INVARIANTS LongDoNotStarve
