SPECIFICATION Spec
CONSTANTS
  alt = alt
  tab = tab
  editor = editor
  viewer = viewer
  menu = menu
  sub = sub
  one = one
  two = two
  None = None
  Keys = {alt, tab}
  Alt = alt
  Windows = {editor, viewer}
  Popups = {menu, sub}
  Parent <- MenuTree
  Clients = {one, two}
  Owner <- Owners
  Mortal = {}
  Shy = {}
  Iconic = {}
  Greedy = {}
  Outlives = {}
  NullGrabs = {}
  Arming = FALSE
  Composing = FALSE
  LateUnderGrab = FALSE
INVARIANTS HeldKeysAreDown
