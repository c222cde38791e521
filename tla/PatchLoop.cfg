\* The watcher's own passes and what follows from them.
SPECIFICATION Spec
CONSTANTS
  MaxRelease = 1
  MaxKnown = 1
  MaxRegen = 0
  MaxStarts = 1
PROPERTY Settles
CHECK_DEADLOCK FALSE
