SPECIFICATION Spec
CONSTANTS
  p1 = p1
  p2 = p2
  t1 = t1
  t2 = t2
  a1 = a1
  a2 = a2
  g1 = g1
  g2 = g2
  g3 = g3
  c1 = c1
  r1 = r1
  r2 = r2
  NoProc = NoProc
  Orphan = Orphan
  NoGraph = NoGraph
  NoRecord = NoRecord
  NoKey = NoKey
  Proc <- TwoLeads
  Graph <- OneRevision
  Parent <- OneParent
  Task = {t1, t2}
  Attempt = {a1}
  Nodes <- AllNodes
  Conflict <- TasksConflict
  Worktree <- T1Worktree
  CallerId = {c1}
  Reason = {r1, r2}
  Observed = r1
  Note <- BothNotes
  Mortal <- TwoLeads
SYMMETRY Symmetry
INVARIANTS LedgerLoads StoreReloads NoOverlap CompletionIntegrated
