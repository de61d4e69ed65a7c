CONSTANTS
  Kinds = {"GetDescriptor"}
  CanReset = TRUE
  CanSuspend = TRUE
  CanUnplug = TRUE
  CanAbandon = FALSE
SPECIFICATION FairSpec
 
PROPERTIES Enumerates MainLoopReturns
