SPECIFICATION Spec
CONSTANTS
  p1 = p1
  p2 = p2
  q1 = q1
  q2 = q2
  change = change
  addition = addition
  other = other
  Hand = Hand
  NoProc = NoProc
  Proc = {p1, p2}
  Adds = {addition}
  Mortal = {}
  Queue = {q1, q2}
  Patch = {change, addition, other}
  Order <- TwoOrders
  Clashes <- AcrossClash
  FaultSets <- NoFaults
  MaxEdits = 0
PROPERTY ForeignKept
