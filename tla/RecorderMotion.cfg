\* A basic-motion camera with the detector and MSR on, bursts cached, statements that fail.
SPECIFICATION Spec
CONSTANTS
  cam = cam
  w1 = w1
  Workers = {w1}
  Cameras <- OneCamera
  CameraOf <- Listening
  Emitted <- MotionCamera
  Ops = {"Changed"}
  Incomplete = {}
  DefaultType = "person"
  NoType = "notype"
  Override <- NoOverride
  Inferred = {"vehicle"}
  Window <- WindowOne
  MaxPerHour = 0
  Hour = 3
  Pre = 1
  Post = 1
  HasMsr = TRUE
  DropOnFailure = TRUE
  BurstWindow = 1
  DbFaults = TRUE
  MaxTime = 5
  MaxRows = 2
INVARIANTS  MemoryNewest
PROPERTIES OneStorePerBurst NewEventAlarms
