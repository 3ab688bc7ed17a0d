SPECIFICATION RingSpec
CONSTANTS
  N = 8
  GameOrder = TRUE
VIEW LiveSlots
INVARIANTS PageSaved NeverStranded
PROPERTIES ImplementsCart
