\* The back-off on: does a camera that heals get out of it?
SPECIFICATION Spec
CONSTANTS
  Lifetime = 12
  RenewEvery = 9
  RetryTime = 1
  Window = 6
  MaxFailures = 3
  BackoffFloor = 1
  BackoffCap = 16
  CallTakes = {0, 1, 2}
  LongPoll = 1
PROPERTIES BackoffEnds
CHECK_DEADLOCK FALSE
