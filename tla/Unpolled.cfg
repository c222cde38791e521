\* One named camera, one that the recorder finds by itself; one restart.
SPECIFICATION Spec
CONSTANTS
  Third = {}
  Explicit = {1}
  Others = {2}
  MaxRelease = 1
  MaxTrouble = 2
INVARIANT FlaggedArePolled
CHECK_DEADLOCK FALSE
