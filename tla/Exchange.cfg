CONSTANTS
  Fields <- MCFields
  Garbage <- MCGarbage
  MaxLeft <- MCMaxLeft
  InitCalled = {FALSE, TRUE}
  Damaged <- MCDamaged
SPECIFICATION Spec
INVARIANTS
  TypeOK RecognisedAsBuilt NeverMislabelled NothingLeftBehind FilledTableRefusesDamage OnlyCodeAndCrcOfQuery CrcIsRemainder
PROPERTY EveryCommandIsLabelled
CHECK_DEADLOCK FALSE
