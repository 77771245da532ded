CONSTANTS
  data_width = 3
  depth = 4
  timing <- MCTiming
  Commands <- MCCommands
  quant_packages = 2
  Gaps <- MCGaps
  PrintClocks = 40
SPECIFICATION FairSpec
INVARIANTS ReceivedIsSent WordIsThere PoppedIsRead VectorInBounds
PROPERTIES StartIsTaken EveryCommandComesBack
