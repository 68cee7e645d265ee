SPECIFICATION Spec
CONSTANTS
  hd = hd
  uhd = uhd
  Buffers = {}
  NoFb = NoFb
  Foreign = Foreign
  Modes = {hd, uhd}
  FirstMode = hd
  ModeOf <- NoBuffers
  Monitors <- TwoDisplays
  Unplugged = Unplugged
  NoProbe = NoProbe
  BadProbe = BadProbe
  NoMode = NoMode
  HdrDisplay = FALSE
  Faults = {"commit", "blob", "rebuild", "slow"}
INVARIANTS
  TypeOK
  InFlightImageKept
  ImagesFitMode
