SPECIFICATION PowerSpec
CONSTANTS
  game = game
  hd = hd
  Buffers = {game}
  NoFb = NoFb
  Foreign = Foreign
  Modes = {hd}
  FirstMode = hd
  ModeOf <- HdBuffers
  Monitors <- OneDisplay
  Unplugged = Unplugged
  NoProbe = NoProbe
  BadProbe = BadProbe
  NoMode = NoMode
  HdrDisplay = FALSE
  Faults = {"commit", "direct", "probe", "prepare", "export", "submit"}
  Straggling = FALSE
INVARIANTS
  SleeperWakes
  FlipsAgree
  ScanoutHeld
  NoFrameLeaked
  AcquiredIsFree
  SpareAccounted
PROPERTIES
  RetiresOffScreen
