SPECIFICATION SCSpec
CONSTANTS
  win = win
  kid = kid
  grandkid = grandkid
  NoParent = NoParent
  Order <- TwoSurfaces
  Parent <- KidOfWin
  Updates <- KidCaches
  MaxCommits <- KidThrice
  SettleFrames = 1
  SyncWhileParked = FALSE
INVARIANTS
  CallbacksAccounted
CHECK_DEADLOCK FALSE
