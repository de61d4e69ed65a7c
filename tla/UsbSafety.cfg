CONSTANTS
  Kinds <- SafetyRequests
  CanReset = TRUE
  CanSuspend = TRUE
  CanUnplug = TRUE
  CanAbandon = TRUE
SPECIFICATION Spec
INVARIANTS TypeOK WakeArmed ClockRuns EndpointSelected
CHECK_DEADLOCK FALSE
