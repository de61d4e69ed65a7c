CONSTANTS
  Kinds = {"GetStatus"}
  CanReset = TRUE
  CanSuspend = FALSE
  CanUnplug = FALSE
  CanAbandon = FALSE
SPECIFICATION FairSpec
PROPERTY MainLoopReturns
