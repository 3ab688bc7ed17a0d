SPECIFICATION Spec
CONSTANTS
  Ids = {1, 2, 9}
  OldIds = {1, 2}
  NoId = 5
  Data = {d1, d2}
  Zeros = Zeros
  Garbage = Garbage
  TopSeq = 4
  ResetIn = {"boot", "idle", "writing"}
  MaxJobs = 5
  MaxResets = 2
PROPERTIES ReadBack CopyKept
