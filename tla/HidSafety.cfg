CONSTANTS
  Pins = {1}
  Outs = {0, 3}
  IdleDefault = 6
  IdleRates = {0, 1}
  ByteBase = 5
  FrameMod = 2
  LoopFrames = 1
  Kinds <- AllRequests
  CanReset = TRUE
  NoReport = NoReport
SPECIFICATION Spec
INVARIANTS TypeOK BufferMatchesHost QuietWhenIdleIsInfinite ShortIdleNotEarly IdleDriftBounded
PROPERTIES BankNotOverrun ImplementsPipe
