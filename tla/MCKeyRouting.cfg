SPECIFICATION Spec
CONSTANTS
  alt = alt
  tab = tab
  editor = editor
  viewer = viewer
  menu = menu
  sub = sub
  one = one
  two = two
  None = None
  Keys = {alt, tab}
  Alt = alt
  Windows = {editor, viewer}
  Popups = {menu, sub}
  Parent <- MenuTree
  Clients = {one, two}
  Owner <- Owners
  Mortal = {editor}
  Shy = {editor}
  Iconic = {viewer}
  Greedy = {editor}
  Outlives = {}
  NullGrabs = {}
  Arming = TRUE
  Composing = TRUE
  LateUnderGrab = FALSE
INVARIANTS TypeOK ClientsAgree CapturedHoldsNothing GrabsAgree InhibitAgrees
PROPERTIES QuietWhileLocked
