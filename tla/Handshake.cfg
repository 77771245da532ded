CONSTANTS
  Setups <- MCSetups
  Garbage <- MCGarbage
SPECIFICATION Spec
INVARIANTS
  TypeOK HandleAgreed
PROPERTIES ImplementsDialogue DocumentedFinishes
CHECK_DEADLOCK FALSE
