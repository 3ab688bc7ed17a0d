SPECIFICATION Spec
CONSTANTS
  Slices = 2
  Taken = {"l1", "l2a", "l2b"}
  Faulty = TRUE
  MaxPosts = 2
  MaxWrites = 2
  MaxLost = 1
INVARIANTS AnswerMatches
PROPERTIES CutsNoLevel AnsweredUnless
CHECK_DEADLOCK FALSE
