CONSTANTS
  Pins = {1}
  Outs = {0}
  IdleDefault = 7
  IdleRates = {0}
  ByteBase = 5
  FrameMod = 3
  LoopFrames = 1
  Kinds <- IdleRequests
  CanReset = FALSE
  NoReport = NoReport
SPECIFICATION Spec
INVARIANT IdleNotEarly
