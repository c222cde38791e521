\* Any history, with statements that fail or not, startup interrupted up to twice.
SPECIFICATION Spec
CONSTANTS
  Ids = {1, 2, 3}
  Groups = {1, 2}
  Times = {1, 2, 3}
  Window = 1
  StaleBefore = 2
  RawGrace = 0
  MaxCrashes = 2
CHECK_DEADLOCK FALSE
INVARIANTS CoverageKept NothingLeftToMerge WholeOrGone
PROPERTY StartupEnds
