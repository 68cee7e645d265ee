SPECIFICATION FairSpec
CONSTANTS
  win = win
  bar = bar
  front = front
  back = back
  strip = strip
  left = left
  right = right
  NoBuf = NoBuf
  Order <- WinAndBar
  Bufs <- PingPong
  Cells = {left, right}
  Copied = {front, strip}
  Broken = {strip}
  Whole = {}
  Drops = {win}
  Mortal = {bar}
  Eager = {}
  Direct = TRUE
INVARIANTS TypeOK RefsAgree SourcesQuiet DamageShown
PROPERTIES EveryCommitTaken
CHECK_DEADLOCK FALSE
