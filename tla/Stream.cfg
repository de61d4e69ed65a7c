CONSTANTS
  EPSize = 2
  Sizes = {0, 3, 4}
  Asked = {1, 4, 5}
  CanAbort = TRUE
  CanReset = TRUE
  CanLeave = TRUE
SPECIFICATION FairSpec
INVARIANTS TypeOK NoStalePacket AcknowledgedIsApplied
PROPERTY ImplementsTransfer
PROPERTIES StreamsReturn Served
