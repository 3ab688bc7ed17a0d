SPECIFICATION Spec
CONSTANTS
  Kinds = {"game", "bad"}
  Limit = 1
  Bound = 1
  MaxOwed = 1
  MaxPosts = 2
INVARIANTS ResultWhole
PROPERTIES StepOutsideFrame TicksRun ScreenShown
CHECK_DEADLOCK FALSE
