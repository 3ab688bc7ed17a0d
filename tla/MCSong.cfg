SPECIFICATION FairSpec
CONSTANTS
  Order <- MCOrder  Mods <- MCMods  RowsAll = 2  Stored = {1, 2}
  Levels = {0, 1}  QBytes = 28  MaxCost = 152  FrameSkip = 2
  Sliding = {0}  Direct <- MCDirect  ItemRoom = 2  Posts = 3
INVARIANTS TypeOK RowsWhole ProgramSent MusicShown
PROPERTY StopHolds
