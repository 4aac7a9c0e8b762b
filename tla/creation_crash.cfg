SPECIFICATION FairSpec
CONSTANTS
  p1 = p1
  p2 = p2
  p3 = p3
  Process = {p1, p2, p3}
  NoProcess = NoProcess
  Intent = {"same", "other"}
  IntentOf <- TwoIntents
  Inode = {1, 2, 3, 4, 5, 6, 7}
  NoInode = NoInode
  RootDepth = 1
  MaxAttempts = 2
  MaxCrashes = 1
PROPERTIES
  CreationRecovers
CHECK_DEADLOCK FALSE
