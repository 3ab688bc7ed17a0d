SPECIFICATION SpritesSpec
CONSTANTS
  SlotsMax = 4  Used = 3  LoadCap = 2  Budget = 3  Whole = 2
  Blocks = {1, 2, 3, 4, 5}  Related <- MCRelated
  Frames = {1, 2, 3}  Pose <- MCPose  NextOf <- MCNextOf  First <- MCFirst
  Objects = {"x", "y"}  Restarts = 4
INVARIANTS SpritesTypeOK IndexIsTable TilesRight WholeShown
