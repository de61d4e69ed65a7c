CONSTANTS
  Pins <- SomePins
  Outs <- AllOuts
SPECIFICATION Spec
INVARIANTS HostSeesPanel ReportFits
