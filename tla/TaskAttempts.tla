----------------------------- MODULE TaskAttempts -----------------------------
(***************************************************************************)
(* What the run store promises about task attempts, without its files,     *)
(* locks and processes.  An attempt is granted once, under one sealed      *)
(* graph, while nothing that collides with it runs; it is decided once,    *)
(* while its graph is the current one; it is settled with that outcome;    *)
(* and the graph moves only to a child, while no attempt runs.             *)
(* ExecutionRun is checked to implement this module.                       *)
(***************************************************************************)
CONSTANTS Task, Attempt, Graph, NoGraph, Parent, Conflict, Terminal

VARIABLES
  graph,    \* the current descriptor
  grant,    \* the graph each attempt was granted under
  outcome,  \* the terminal kind decided for each attempt
  settled   \* the attempts that no longer hold what they were granted

vars == <<graph, grant, outcome, settled>>

Undecided == "undecided"
Pair == Task \X Attempt

Init ==
  /\ graph = NoGraph
  /\ grant = [x \in Pair |-> NoGraph]
  /\ outcome = [x \in Pair |-> Undecided]
  /\ settled = {}

Running == {x \in Pair : grant[x] # NoGraph /\ x \notin settled}

Collide(x, g, y, h) ==
  <<[graph |-> g, task |-> x[1]], [graph |-> h, task |-> y[1]]>> \in Conflict

Revise(g) ==
  /\ graph # NoGraph => Parent[g] = graph /\ Running = {}
  /\ graph' = g
  /\ UNCHANGED <<grant, outcome, settled>>

Grant(x, g) ==
  /\ grant[x] = NoGraph
  /\ \A y \in Running : ~Collide(x, g, y, grant[y])
  /\ grant' = [grant EXCEPT ![x] = g]
  /\ UNCHANGED <<graph, outcome, settled>>

Decide(x, kind) ==
  /\ x \in Running
  /\ outcome[x] = Undecided
  /\ grant[x] = graph
  /\ outcome' = [outcome EXCEPT ![x] = kind]
  /\ UNCHANGED <<graph, grant, settled>>

Settle(x) ==
  /\ x \in Running
  /\ outcome[x] # Undecided
  /\ settled' = settled \cup {x}
  /\ UNCHANGED <<graph, grant, outcome>>

Next ==
  \/ \E g \in Graph : Revise(g)
  \/ \E x \in Pair :
       \/ \E g \in Graph : Grant(x, g)
       \/ \E kind \in Terminal : Decide(x, kind)
       \/ Settle(x)

Spec == Init /\ [][Next]_vars

=============================================================================
