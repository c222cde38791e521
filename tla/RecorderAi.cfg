\* A camera with AI events on two topics, an hour of two instants.
SPECIFICATION Spec
CONSTANTS
  cam = cam
  w1 = w1
  Workers = {w1}
  Cameras <- OneCamera
  CameraOf <- Listening
  Emitted <- AiCamera
  Ops = {"Initialized", "Changed"}
  Incomplete = {"human", "vehicle"}
  DefaultType = "person"
  NoType = "notype"
  Override <- NoOverride
  Inferred = {}
  Window <- WindowOne
  MaxPerHour = 2
  Hour = 2
  Pre = 1
  Post = 1
  HasMsr = FALSE
  DropOnFailure = FALSE
  BurstWindow = 0
  DbFaults = FALSE
  MaxTime = 5
  MaxRows = 3
INVARIANTS OpenRowsTracked BurstsApart HourlyLimit NullWhileActive
PROPERTY EventLogSpec
