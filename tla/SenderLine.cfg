CONSTANTS
  data_width = 3
  depth = 4
  Timings <- MCTimings
  Commands <- MCCommands
  Idles <- MCIdles
  Early = 2
  Late = 6
  MaxClocks = 400
SPECIFICATION FairSpec
INVARIANT LineCarriesCommand
PROPERTY EveryStartFinishes
