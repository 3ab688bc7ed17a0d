SPECIFICATION FairSpec
CONSTANTS
  QN = 2
  TimQN = 2
  NumMod = 16
  First = 14
  MaxPosts = 3
  MaxInstants = 2
  MaxCalls = 1
INVARIANTS TypeOK DoneSafe RunsInOrder BlockWhole
PROPERTIES PostsFinished InstantsServed
