CONSTANTS
  data_width = 3
  depth = 4
  Timings <- ResetTimings
  Commands <- ResetCommands
  Idles <- MCIdles
  ResetStages <- DuringCommands
SPECIFICATION FairSpec
INVARIANT ResetSilencesDecoder
