CONSTANTS
  Kinds = {}
  CanReset = TRUE
  CanSuspend = FALSE
  CanUnplug = FALSE
  CanAbandon = FALSE
SPECIFICATION FairSpec
PROPERTY SetAddressHandled
