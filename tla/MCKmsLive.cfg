SPECIFICATION FairSpec
CONSTANTS
  hd = hd
  uhd = uhd
  Buffers = {}
  NoFb = NoFb
  Foreign = Foreign
  Modes = {hd}
  FirstMode = hd
  ModeOf <- NoBuffers
  Monitors <- HdDisplay
  Unplugged = Unplugged
  NoProbe = NoProbe
  BadProbe = BadProbe
  NoMode = NoMode
  HdrDisplay = TRUE
  Faults = {"degraded"}
INVARIANTS
  LitWhenReady
PROPERTIES
  CallbacksReturn
  HandOffEnds
  GivenUpIsRelit
