\* Three instants, so up to three motions, one row per query; two starts.
SPECIFICATION Spec
CONSTANTS
  MaxTime = 3
  Near = 0
  Limit = 1
  DefaultAge = 1
  LiveAge = 2
  Lookbacks = {2}
  SampleCap = 1
  Always = FALSE
  Rich = FALSE
  MaxStarts = 2
  MaxNative = 1
INVARIANTS  PassedAreHandled
PROPERTY DueIsHandled
CHECK_DEADLOCK FALSE
