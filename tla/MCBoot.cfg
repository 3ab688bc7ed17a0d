SPECIFICATION BootSpec
CONSTANTS
  Roms <- MCRoms
  Broken <- MCBroken
  Unread <- MCUnread
  NoSfx <- MCNoSfx
  NoRom = 0
  Nothing = 9
  Torn = 8
  N = 2
  Powers = 3
  Resets = 3
  Faults = 1
INVARIANTS CacheSound GameHasSound OwnFileKept
PROPERTY ImageHeld
CHECK_DEADLOCK FALSE
