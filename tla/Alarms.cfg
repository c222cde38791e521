\* One thread; the list is due after one instant, a cooldown is two. After the last event nothing is left to do.
SPECIFICATION Spec
CONSTANTS
  w1 = w1
  a1 = a1
  a2 = a2
  None = None
  Callers = {w1}
  Automations <- TwoAutomations
  Cooldown <- OneCoolsDown
  RefreshEvery = 1
  Width = 1000
  MaxTime = 3
  MaxEvents = 3
  MaxRestarts = 1
 
PROPERTY CoolsDownForAReason
CHECK_DEADLOCK FALSE
