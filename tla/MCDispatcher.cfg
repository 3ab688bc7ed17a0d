SPECIFICATION Spec
CONSTANTS
  Commands <- MCCommands
  BelowBits <- MCBelowBits
  JobRoom = 2
  ItemRoom = 1
  MegaWireOn = TRUE
INVARIANTS VerdictShown JobsShown
CHECK_DEADLOCK FALSE
