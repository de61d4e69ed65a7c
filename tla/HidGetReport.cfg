CONSTANTS
  Pins = {1, 2}
  Outs = {0}
  IdleDefault = 1
  IdleRates = {0}
  ByteBase = 3
  FrameMod = 3
  LoopFrames = 1
  Kinds = {"GetReport", "SetIdle"}
  CanReset = FALSE
  NoReport = NoReport
SPECIFICATION FairSpec
PROPERTY ChangesSent
