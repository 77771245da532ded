CONSTANTS
  data_width = 3
  depth = 4
  Timings <- MCTimings
  Commands <- MCCommands
  Idles <- MCIdles
  ResetStages <- BetweenCommands
SPECIFICATION FairSpec
INVARIANTS CommandSurvives NoDecodingError OneVoidPerCommand ResetSilencesDecoder
PROPERTIES ImplementsChannel EveryCommandEnds
