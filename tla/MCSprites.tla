------------------------------ MODULE MCSprites ------------------------------
EXTENDS Sprites
MCRelated == <<2, 1, 4, 3, 9>>
MCPose == <<<<1, 2>>, <<3, 1>>, <<3, 4, 5, 1>>>>
MCNextOf == <<2, 1, 3>>
MCFirst == <<1, 3>>
=============================================================================
