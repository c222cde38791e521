\* A camera adopted while the program runs.
SPECIFICATION Spec
CONSTANTS
  c1 = c1
  c2 = c2
  c3 = c3
  Cameras <- ThreeCameras
  Excluded <- OneExcluded
INVARIANT ConfigKept
CHECK_DEADLOCK FALSE
