CONSTANTS
  Pins = {1, 2}
  Bytes = 4
  LoopsPerByte = 8
  QueueMax = 2
  Rates = {0, 1}
  Slack = 1
  Zero = Zero
  Nothing = Nothing
SPECIFICATION FairSpec
INVARIANTS TypeOK EchoInOrder EchoCurrent
PROPERTIES EchoHeard ButtonsHeard
