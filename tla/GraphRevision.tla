--------------------------- MODULE GraphRevision ---------------------------
(***************************************************************************)
(* How a plan becomes an execution graph and how the graph changes         *)
(* (core/execution-graph/index.mjs, core/approval/index.mjs).  A graph is  *)
(* sealed once and never written again: a lease extension or an approved   *)
(* material revision seals another one that names its parent by its hash.  *)
(* Nothing here is stored.  The Lead keeps the graphs and the receipts of  *)
(* the user, and may take up any of them again; which graph                *)
(* is the current one is the run store's affair (ExecutionRun).            *)
(*                                                                         *)
(* Hashes are what they are hashes of, but for that of a graph, which is   *)
(* its place in `sealed'.  Revision ids are numbers.  The isolation mode   *)
(* of a task is WavePlanning's and left out.                               *)
(***************************************************************************)
EXTENDS Naturals, Sequences, FiniteSets

CONSTANTS
  Node,        \* ids of tasks
  Terminal,    \* id of the terminal verification node
  Resource,    \* a key with a mode
  Spec0,       \* specs
  Blueprints,  \* the plans the Lead may seal, a subset of Blueprint
  ApprovalId,  \* the ids a user's receipts may carry
  MaxGraphs    \* graphs that are sealed at most: a bound of the model

Task0 == [deps : SUBSET Node, resources : SUBSET Resource]
Blueprint == UNION {[S -> Task0] : S \in SUBSET Node}

ASSUME GraphAssumption ==
  /\ IsFiniteSet(Node)
  /\ Blueprints \subseteq Blueprint
  /\ MaxGraphs \in Nat

VARIABLES
  sealed,     \* the graphs, in the order they were sealed
  receipts    \* what the user has approved

graphVars == <<sealed, receipts>>

-----------------------------------------------------------------------------
(* The nodes of a plan. *)

\* buildExecutionWaves takes a plan whose dependencies are tasks of it and do
\* not run in circles.
Orderable(plan) ==
  LET tasks == DOMAIN plan
  IN  /\ \A t \in tasks : plan[t].deps \subseteq tasks
      /\ \A S \in (SUBSET tasks) \ {{}} : \E t \in S : plan[t].deps \cap S = {}

\* What sealExecutionPlan asks of a plan before it asks for the approval, and
\* executionApprovalSubject before it tells what would be approved.
Sealable(plan) == DOMAIN plan # {} /\ Orderable(plan)

DependedOn(plan) == UNION {plan[t].deps : t \in DOMAIN plan}

Leaves(plan) == DOMAIN plan \ DependedOn(plan)

\* The tasks, and the terminal verification behind the last ones.
NodesOf(plan) ==
  [n \in DOMAIN plan \cup {Terminal} |->
     IF n = Terminal THEN [deps |-> Leaves(plan), resources |-> {}] ELSE plan[n]]

\* validateSealedExecutionGraph, of what sealing does not give every graph.
ValidGraph(g) ==
  LET material == SelectSeq(g.amendments, LAMBDA a : a.kind = "material")
  IN  /\ Terminal \in DOMAIN g.nodes
      /\ Orderable(g.nodes)
      /\ <<g.receipt.spec, g.receipt.plan>> = <<g.spec, g.plan>>
      /\ material # <<>> => material[Len(material)].receipt = g.receipt

-----------------------------------------------------------------------------
(* The calls. *)

GraphInit == sealed = <<>> /\ receipts = {}

\* sealGraph: a graph that was sealed before has the hash it had then.
SealGraph(g) ==
  /\ ValidGraph(g)
  /\ IF \E i \in DOMAIN sealed : sealed[i] = g THEN UNCHANGED sealed
     ELSE Len(sealed) < MaxGraphs /\ sealed' = Append(sealed, g)

\* createUserApprovalReceipt, of a subject that executionApprovalSubject gave.
Approve(id, spec, plan) ==
  /\ Sealable(plan)
  /\ receipts' = receipts \cup {[id |-> id, spec |-> spec, plan |-> plan]}
  /\ UNCHANGED sealed

\* requireApprovalReceipt, validateUserApprovalReceipt
Approves(receipt, spec, plan) == receipt.spec = spec /\ receipt.plan = plan

PlanGraph(parent, spec, plan, receipt, amendments) ==
  [parent |-> parent, spec |-> spec, plan |-> plan, receipt |-> receipt,
   nodes |-> NodesOf(plan), amendments |-> amendments]

\* sealExecutionPlan
SealExecutionPlan(spec, plan, receipt) ==
  /\ Sealable(plan) /\ Terminal \notin DOMAIN plan
  /\ Approves(receipt, spec, plan)
  /\ SealGraph(PlanGraph(0, spec, plan, receipt, <<>>))
  /\ UNCHANGED receipts

\* proposeMaterialRevision, and validateMaterialRevisionProposal when it comes
\* back: something has to change.  A proposal is made of the graph, the spec and
\* the plan alone, and it throws for any other, so it needs no keeping.
Proposed(i, spec, plan) ==
  Sealable(plan) /\ <<spec, plan>> # <<sealed[i].spec, sealed[i].plan>>

\* The amendment of a revision names the parent and the approval before it, that
\* of an extension neither.
Material(i, receipt) ==
  [kind |-> "material", parent |-> i, prior |-> sealed[i].receipt, receipt |-> receipt]

\* Mutant of FreshApproval: any approval of the subject will do.
AnyApproval(i, receipt) == TRUE

\* The parent's approval is not taken again.
FreshApproval(i, receipt) == receipt.id # sealed[i].receipt.id

\* sealApprovedMaterialRevision.  The nodes are those of the plan: what was
\* granted to those of the parent is not.
SealApprovedMaterialRevision(i, spec, plan, receipt) ==
  /\ Proposed(i, spec, plan)
  /\ Approves(receipt, spec, plan)
  /\ FreshApproval(i, receipt)
  /\ Terminal \notin DOMAIN plan
  /\ SealGraph(PlanGraph(i, spec, plan, receipt,
                         Append(sealed[i].amendments, Material(i, receipt))))
  /\ UNCHANGED receipts

\* Mutant of Grant: the amendment names what was there before.
GrantUnnamed(i, task, additions) ==
  [kind |-> "lease", task |-> task, resources |-> sealed[i].nodes[task].resources,
   receipt |-> sealed[i].receipt]

Grant(i, task, additions) ==
  [kind |-> "lease", task |-> task, resources |-> additions,
   receipt |-> sealed[i].receipt]

\* requestLeaseExtension: without a material reason no user is asked.
RequestLeaseExtension(i, task, requested) ==
  LET additions == requested \ sealed[i].nodes[task].resources
  IN  /\ task # Terminal
      /\ additions # {}
      /\ SealGraph([sealed[i] EXCEPT
           !.parent = i,
           !.nodes[task].resources = @ \cup additions,
           !.amendments = Append(@, Grant(i, task, additions))])
      /\ UNCHANGED receipts

GraphNext ==
  \/ \E spec \in Spec0, plan \in Blueprints :
       \/ \E id \in ApprovalId : Approve(id, spec, plan)
       \/ \E receipt \in receipts :
            \/ SealExecutionPlan(spec, plan, receipt)
            \/ \E i \in DOMAIN sealed : SealApprovedMaterialRevision(i, spec, plan, receipt)
  \/ \E i \in DOMAIN sealed : \E task \in DOMAIN sealed[i].nodes :
       \E requested \in SUBSET Resource : RequestLeaseExtension(i, task, requested)

GraphSpec == GraphInit /\ [][GraphNext]_graphVars

-----------------------------------------------------------------------------
GraphTypeOK ==
  /\ Len(sealed) <= MaxGraphs
  /\ \A i \in DOMAIN sealed : /\ sealed[i].parent \in 0 .. i - 1
                              /\ sealed[i].receipt \in receipts
                              /\ sealed[i].plan \in Blueprints
                              /\ ValidGraph(sealed[i])

\* The graphs from the first one to the i-th, each the parent of the next.
LineTo(i) ==
  LET line[k \in 0 .. i] == IF k = 0 THEN <<>> ELSE Append(line[sealed[k].parent], k)
  IN  line[i]

\* What a graph lets a task lease is what the plan that the user approved gives
\* it, and what the amendments since that approval name, no more and no less;
\* and from every task of the plan the way leads to the terminal verification.
\* (sealExecutionPlan, requestLeaseExtension, sealApprovedMaterialRevision)
ApprovedAndAccounted ==
  \A i \in DOMAIN sealed :
    LET g == sealed[i]
        recent == {k \in DOMAIN g.amendments :
                     \A m \in k .. Len(g.amendments) : g.amendments[m].kind = "lease"}
        granted(t) == UNION {g.amendments[k].resources :
                               k \in {m \in recent : g.amendments[m].task = t}}
    IN  \E r \in receipts :
          /\ r.spec = g.spec
          /\ DOMAIN g.nodes = DOMAIN r.plan \cup {Terminal}
          /\ \A t \in DOMAIN r.plan :
               /\ g.nodes[t].deps = r.plan[t].deps
               /\ g.nodes[t].resources = r.plan[t].resources \cup granted(t)
          /\ \A S \in (SUBSET DOMAIN r.plan) \ {{}} :
               \E n \in DOMAIN g.nodes \ S : g.nodes[n].deps \cap S # {}

RevisionTold(e, i, g, h) ==
  /\ e.parent = i /\ e.prior = g.receipt
  /\ e.receipt = h.receipt /\ h.receipt.id # g.receipt.id

GrantTold(e, g, h) ==
  /\ e.receipt = g.receipt
  /\ <<h.receipt, h.spec, h.plan>> = <<g.receipt, g.spec, g.plan>>
  /\ e.resources # {} /\ e.resources \cap g.nodes[e.task].resources = {}
  /\ h.nodes = [g.nodes EXCEPT ![e.task].resources = @ \cup e.resources]

\* A graph has an amendment for each step from the first graph to it, in the order
\* of the steps.  That of a revision names the graph which was revised and the
\* approval on either side.  That of an extension does not name its graph, only the
\* approval it goes on under; but what it names is just what the step added to
\* the graph it was of, so no step under a new approval, or with more than
\* it names, passes for an extension.  (sealApprovedMaterialRevision,
\* requestLeaseExtension)
AmendmentsTellLineage ==
  \A i \in DOMAIN sealed :
    LET line == LineTo(i)
        g(k) == sealed[line[k]]
        a == sealed[i].amendments
    IN  /\ Len(a) = Len(line) - 1
        /\ \A k \in DOMAIN a :
             \/ a[k].kind = "material" /\ RevisionTold(a[k], line[k], g(k), g(k + 1))
             \/ a[k].kind = "lease" /\ GrantTold(a[k], g(k), g(k + 1))

=============================================================================
