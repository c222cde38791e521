\* --msr_serialize on, cool-down on: the defaults of main.cpp.
SPECIFICATION Spec
CONSTANTS
  Callers = {c1, c2, c3}
  NoCaller = NoCaller
  Serialize = TRUE
  Cooldown = 1
  Threshold = 2
  MaxTime = 3
  MaxFailures = 4
INVARIANTS SingleFlight SuspensionConsistent SerialInv
PROPERTIES BreakerSpec LockHandedBack
