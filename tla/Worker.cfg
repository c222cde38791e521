\* A worker against any camera, with the back-off or without. The thread ends after stop().
SPECIFICATION Spec
CONSTANTS
  Lifetime = 12
  RenewEvery = 9
  RetryTime = 1
  Window = 6
  MaxFailures = 3
  BackoffFloor = 1
  BackoffCap = 16
  CallTakes = {0, 1}
  LongPoll = 1
INVARIANTS NoStaleBadge 
PROPERTIES KeepsTrying Stops 
CHECK_DEADLOCK FALSE
