SPECIFICATION Spec
CONSTANTS
  p1 = p1
  p2 = p2
  k1 = k1
  k2 = k2
  x = x
  y = y
  NoProc = NoProc
  NoKey = NoKey
  Proc = {p1, p2}
  Mortal = {p1}
  Key = {k1, k2}
  Path = {x, y}
  Writes <- OwnFile
  Value = {0, 1}
  Head = {"base", "next"}
  Base <- Clean
  MaxEdits = 1
INVARIANTS WritersOwn CompletedWithin
PROPERTY ImplementsSingleWriter
CHECK_DEADLOCK FALSE
