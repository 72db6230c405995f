SPECIFICATION Spec
CONSTANTS
  p1 = p1
  p2 = p2
  NoProc = NoProc
  NoRequest = NoRequest
  Proc = {p1, p2}
  Mortal = {p1}
  Attempt = {"a1", "a2", "a3"}
  Route = {"r1", "r2"}
  Receipt <- Receipts
  Initial = {1, 2}
  PolicyDefault = 2
INVARIANTS SpawnsWithinLimit ReservedAnswered
PROPERTY ImplementsAllowance
