SPECIFICATION Spec
CONSTANTS
  p1 = p1
  p2 = p2
  q1 = q1
  q2 = q2
  change = change
  addition = addition
  other = other
  Hand = Hand
  NoProc = NoProc
  Proc = {p1, p2}
  Adds = {addition}
  Mortal = {}
  Queue = {q1}
  Patch = {change, addition, other}
  Order <- OneOrder
  Clashes <- EachClash
  FaultSets <- RecordFaults
  MaxEdits = 0
INVARIANT CompletedWhole
