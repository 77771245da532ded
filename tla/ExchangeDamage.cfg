CONSTANTS
  Fields <- MCFields
  Garbage <- MCGarbage
  MaxLeft <- MCMaxLeft
  InitCalled = {FALSE}
  Damaged = {"rn_crc"}
SPECIFICATION Spec
INVARIANTS DamageIsRefused
CHECK_DEADLOCK FALSE
