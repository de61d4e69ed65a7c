CONSTANTS
  Kinds = {}
  CanReset = FALSE
  CanSuspend = FALSE
  CanUnplug = TRUE
  CanAbandon = FALSE
SPECIFICATION Spec
INVARIANT UnpluggedIsUnattached
