--------------------------- MODULE MCExecutionRun ---------------------------
(* TLC instances of ExecutionRun. *)
EXTENDS ExecutionRun, TLC

CONSTANTS p1, p2, t1, t2, a1, a2, g1, g2, g3, c1, r1, r2

TwoLeads == {p1, p2}
OneLead == {p1}
NoLeads == {}
Symmetry == Permutations(TwoLeads)

\* g1 is the first revision; g2 and g3 compete to be its child.
Revisions == {g1, g2, g3}
RevisionParent == (g1 :> NoGraph) @@ (g2 :> g1) @@ (g3 :> g1)
OneRevision == {g1}
OneParent == (g1 :> NoGraph)

AllNodes == [g \in Graph |-> Task]

\* Every two contracts collide, those of one task included.
AllConflict == Contract \X Contract

\* Only different tasks collide: attempts of one task may overlap.
TasksConflict == {cd \in Contract \X Contract : cd[1].task # cd[2].task}

NoWorktree == {}
T1Worktree == [graph : Graph, task : {t1}]

NoNotes == {}
Dispatched(graph) ==
  [id |-> c1, kind |-> "task_dispatched", graph |-> graph, task |-> t1,
   attempt |-> a1, reason |-> Observed]
BoundNote == {Dispatched(g1)}
UnboundNote == {Dispatched(NoGraph)}
BothNotes == BoundNote \cup UnboundNote
=============================================================================
