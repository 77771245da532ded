CONSTANTS
  data_width = 2
  depth = 4
  tari_limits <- MCLimits
  Wholes <- MCWholes
  Halves <- MCHalves
  WrongWholes <- MCWrongWholes
  WrongHalves <- MCWrongHalves
  RestClocks = 1000
  Answers <- MCAnswers
  Holds <- MCHolds
SPECIFICATION FairSpec
INVARIANTS HostGetsAnswer BitsAreAwaited OnlyFaultsAreRefused
PROPERTY EveryAnswerIsReadOrRefused
