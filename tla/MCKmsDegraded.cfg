SPECIFICATION PowerSpec
CONSTANTS
  game = game
  hd = hd
  Buffers = {}
  NoFb = NoFb
  Foreign = Foreign
  Modes = {hd}
  FirstMode = hd
  ModeOf <- NoBuffers
  Monitors <- OneDisplay
  Unplugged = Unplugged
  NoProbe = NoProbe
  BadProbe = BadProbe
  NoMode = NoMode
  HdrDisplay = TRUE
  Faults = {"degraded"}
  Straggling = FALSE
INVARIANT
  SleeperWakes
