CONSTANTS
  data_width = 3
  depth = 4
  timing <- MCTiming
  Commands <- MCCommands
  quant_packages = 3
  Gaps <- OneGap
  PrintClocks = 40
SPECIFICATION FairSpec
INVARIANT SendReturnsWhenSent
