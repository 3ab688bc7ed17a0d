SPECIFICATION FairSpec
CONSTANTS
  QN = 2
  JobSlots = 2
  MaxDepth = 3
  MaxPosts = 2
  MaxInstants = 1
  LateTicks = TRUE
INVARIANTS NoLostWakeup PassCovers
PROPERTIES AllServed ImplementsCart
