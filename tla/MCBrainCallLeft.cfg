SPECIFICATION Spec
CONSTANTS
  Slices = 1
  Taken = {"l1"}
  Faulty = FALSE
  MaxPosts = 2
  MaxWrites = 2
  MaxLost = 0
PROPERTY Answered
CHECK_DEADLOCK FALSE
