CONSTANTS
  Setups <- MCSetups
  Garbage <- MCGarbage
SPECIFICATION Spec
INVARIANTS AckEchoesRN16
CHECK_DEADLOCK FALSE
