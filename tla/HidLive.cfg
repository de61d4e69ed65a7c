CONSTANTS
  Pins = {1, 2}
  Outs = {0}
  IdleDefault = 1
  IdleRates = {0}
  ByteBase = 4
  FrameMod = 6
  LoopFrames = 1
  Kinds <- AskingHost
  CanReset = TRUE
  NoReport = NoReport
SPECIFICATION FairSpec
PROPERTIES Freshness IdleRepeats
