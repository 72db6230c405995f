SPECIFICATION FairSpec
CONSTANTS
  p1 = p1
  p2 = p2
  q1 = q1
  q2 = q2
  change = change
  addition = addition
  other = other
  Hand = Hand
  NoProc = NoProc
  Proc = {p1, p2}
  Adds = {addition}
  Mortal = {p1}
  Queue = {q1}
  Patch = {change, addition, other}
  Order <- OneOrder
  Clashes <- EachClash
  FaultSets <- EachFaults
  MaxEdits = 1
INVARIANTS WorkspaceJournaled CompletedWhole RecoveryExplained
PROPERTIES ReceiptWhole ImplementsPatchQueue OperationsEnd
