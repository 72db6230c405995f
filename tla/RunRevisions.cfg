SPECIFICATION FairSpec
CONSTANTS
  p1 = p1
  p2 = p2
  t1 = t1
  t2 = t2
  a1 = a1
  a2 = a2
  g1 = g1
  g2 = g2
  g3 = g3
  c1 = c1
  r1 = r1
  r2 = r2
  NoProc = NoProc
  Orphan = Orphan
  NoGraph = NoGraph
  NoRecord = NoRecord
  NoKey = NoKey
  Proc <- TwoLeads
  Graph <- Revisions
  Parent <- RevisionParent
  Task = {t1}
  Attempt = {a1, a2}
  Nodes <- AllNodes
  Conflict <- AllConflict
  Worktree <- NoWorktree
  CallerId = {}
  Reason = {r1}
  Observed = r1
  Note <- NoNotes
  Mortal <- TwoLeads
INVARIANT RevisionsKept
PROPERTIES ImplementsTaskAttempts OperationsReturn FenceFreed
