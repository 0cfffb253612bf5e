CONSTANTS
  f1 = f1
  f2 = f2
  p1 = p1
  p2 = p2
  Ids = {f1, f2}
  Pollers = {p1, p2}
  Window = 2
  SeenMax = 3
  RecentMax = 2
  show = show
  cam = cam
  Words <- MCWords
  Keywords = {show}
  Blacklist = {cam}
  MaxEntries = 4
  MaxPolls = 3
  NoFeed = NoFeed
SPECIFICATION Spec
CHECK_DEADLOCK FALSE
SYMMETRY Symmetric
INVARIANTS HandedOnce SeenAreOwn
