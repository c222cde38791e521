\* The listener's supervisor and the side services, each on its own.  All of
\* them may stop: the program ends, the bounds of the others are used up.
SPECIFICATION ServicesSpec
CONSTANTS
  c1 = c1
  c2 = c2
  Cameras <- TwoCameras
  Excluded <- OneExcluded
  Settle = 3
  SyncAfter = 2
  MaxPid = 3
  MaxRelease = 2
  MaxKnown = 2
  MaxRegen = 1
  MaxStarts = 2
  Old = {1, 2}
  Apply = TRUE
  MaxFailed = 3
  MaxRuns = 2
  Third = {3}
  Explicit = {}
  Others = {2}
  MaxTrouble = 2
INVARIANTS OneWorkerPerCamera  Resolves
PROPERTIES AdoptedIsWatched ShutdownEnds RotationIsFollowed FlipSticks OnlyOnceSettled
PROPERTIES Healed OthersEnriched  Reflipped
CHECK_DEADLOCK FALSE
