SPECIFICATION SCSpec
CONSTANTS
  win = win
  kid = kid
  grandkid = grandkid
  NoParent = NoParent
  Order <- TwoSurfaces
  Parent <- KidOfWin
  Updates <- WinAndKid
  MaxCommits <- KidTwice
  SettleFrames = 1
  SyncWhileParked = FALSE
INVARIANTS
  TypeOK
  BuffersAccounted
  CallbacksAccounted
  SampledReady
PROPERTIES
  KeepsOrder
  SyncedTogether
CHECK_DEADLOCK FALSE
