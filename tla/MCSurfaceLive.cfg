SPECIFICATION FairSpec
CONSTANTS
  win = win
  kid = kid
  grandkid = grandkid
  NoParent = NoParent
  Order <- TwoSurfaces
  Parent <- KidOfWin
  Updates <- FewUpdates
  MaxCommits <- KidOnce
  SettleFrames = 1
  SyncWhileParked = FALSE
PROPERTIES
  ReadyUpdatesApplied
  CallbacksFire
CHECK_DEADLOCK FALSE
