---------------------------- MODULE Orchestrator ----------------------------
(***************************************************************************)
(* What a Lead asks of the modules that keep nothing: the interview about  *)
(* the requirements, the consensus on a plan, the graph that is sealed of  *)
(* it, the waves and the isolation that prepareExecution asks the          *)
(* scheduler for, the route of a stage, runQualityClosure                  *)
(* (core/orchestrator/index.mjs), and the browser check that the closure   *)
(* and the command line offer; and of the store that keeps the project's   *)
(* STATE.md.  They share no state: what one of them returns is the Lead's, *)
(* which calls the next with it or with something else; the closure takes  *)
(* the answer of a browser check like that of any command, and none of     *)
(* them calls the store.  So a behaviour is one session with one of them,  *)
(* and the others stay as they are.                                        *)
(***************************************************************************)
EXTENDS Interview, Consensus, GraphRevision, WavePlanning, Routing, QualityClosure,
        BrowserQa, StateStore

VARIABLE session   \* which of them the Lead is at

Sessions == {"interview", "consensus", "graph", "waves", "route", "closure", "browser",
             "state"}

callVars ==
  <<interviewVars, consensus, graphVars, vars, routing, closureVars, browserVars,
    stateVars, session>>

-----------------------------------------------------------------------------
(* What is not the Lead's session. *)

NotInterviewing ==
  /\ interview =
       [type |-> "greenfield", threshold |-> 0, context |-> {},
        status |-> "interview-active", expected |-> "round-0-topology", exit |-> "none",
        confirmed |-> FALSE, active |-> {}, last |-> None, roundCount |-> 0,
        recent |-> <<>>, misnumbered |-> FALSE, used |-> {}, warned |-> FALSE,
        ontology |-> NoSnapshots]
  /\ asked = NoQuestion

NotDebating ==
  consensus =
    [enabled |-> FALSE, maxIterations |-> 0, required |-> {}, iteration |-> 0,
     status |-> "not-required", approved |-> FALSE, executionApproved |-> FALSE,
     history |-> <<>>, bestPlan |-> NoDraft, remaining |-> {}]

NotRouting ==
  routing = [role |-> CHOOSE role \in Stage : TRUE, tried |-> {}, failed |-> {},
             bases |-> {}, presumed |-> {}, counted |-> 0]

NotPlanning ==
  /\ plan = <<>>
  /\ options = [worktrees |-> FALSE, forced |-> FALSE]
  /\ pc = "done" /\ waves = <<>> /\ wave = {} /\ ready = {} /\ isolated = <<>>

NotClosing ==
  /\ input = [tier |-> 0, snapshot |-> NoSnapshot, cycles |-> 0,
              needs |-> {}, evidence |-> <<>>]
  /\ stage = "returned" /\ snapshot = NoSnapshot /\ attempt = 0
  /\ evidence = <<>> /\ opinion = [ok |-> TRUE, defects |-> {}, on |-> NoSnapshot]
  /\ verdict = Skipped /\ gaps = {} /\ repairs = <<>> /\ outcome = "none"

NotBrowsing ==
  /\ qa \in Requests /\ ~qa.target
  /\ at = "returned" /\ opened = {} /\ shown = <<>> /\ found = <<>> /\ place = 0
  /\ probes = <<>> /\ telemetry = {} /\ answered = NoAnswer
  /\ late = {} /\ pressed = {} /\ stuck = {}

NotStoring == StateInit /\ process = CHOOSE p \in Processes : TRUE

-----------------------------------------------------------------------------
(* The sessions. *)

CallInit ==
  /\ session \in Sessions
  /\ IF session = "interview" THEN InterviewInit ELSE NotInterviewing
  /\ IF session = "consensus" THEN ConsensusInit ELSE NotDebating
  /\ GraphInit
  /\ IF session = "waves" THEN Init ELSE NotPlanning
  /\ IF session = "route" THEN RoutingInit ELSE NotRouting
  /\ IF session = "closure" THEN ClosureInit ELSE NotClosing
  /\ IF session = "browser" THEN BrowserInit ELSE NotBrowsing
  /\ IF session = "state" THEN StateInit ELSE NotStoring

DeepInterview ==
  /\ session = "interview" /\ InterviewNext
  /\ UNCHANGED <<consensus, graphVars, vars, routing, closureVars,
                 browserVars, stateVars, session>>

PlanConsensus ==
  /\ session = "consensus" /\ ConsensusNext
  /\ UNCHANGED <<interviewVars, graphVars, vars, routing, closureVars,
                 browserVars, stateVars, session>>

SealGraphs ==
  /\ session = "graph" /\ GraphNext
  /\ UNCHANGED <<interviewVars, consensus, vars, routing, closureVars,
                 browserVars, stateVars, session>>

PrepareExecution ==
  /\ session = "waves" /\ Next
  /\ UNCHANGED <<interviewVars, consensus, graphVars, routing, closureVars,
                 browserVars, stateVars, session>>

RouteStage ==
  /\ session = "route" /\ RoutingNext
  /\ UNCHANGED <<interviewVars, consensus, graphVars, vars, closureVars,
                 browserVars, stateVars, session>>

RunQualityClosure ==
  /\ session = "closure" /\ ClosureNext
  /\ UNCHANGED <<interviewVars, consensus, graphVars, vars, routing,
                 browserVars, stateVars, session>>

CheckInBrowser ==
  /\ session = "browser" /\ BrowserNext
  /\ UNCHANGED <<interviewVars, consensus, graphVars, vars, routing, closureVars,
                 stateVars, session>>

KeepState ==
  /\ session = "state" /\ StateNext
  /\ UNCHANGED <<interviewVars, consensus, graphVars, vars, routing, closureVars,
                 browserVars, session>>

CallNext ==
  \/ DeepInterview
  \/ PlanConsensus
  \/ SealGraphs
  \/ PrepareExecution
  \/ RouteStage
  \/ RunQualityClosure
  \/ CheckInBrowser
  \/ KeepState

\* The callbacks answer, and what is not a callback is a computation.  When the
\* user, the council or a failed stage is heard of again is nobody's promise.
CallSpec ==
  /\ CallInit /\ [][CallNext]_callVars
  /\ WF_callVars(PrepareExecution \/ RunQualityClosure)

-----------------------------------------------------------------------------
CallTypeOK ==
  /\ session \in Sessions
  /\ InterviewTypeOK /\ ConsensusTypeOK /\ GraphTypeOK
  /\ TypeOK /\ RoutingTypeOK /\ ClosureTypeOK /\ BrowserTypeOK /\ StateTypeOK

\* Every call returns: the scheduler makes progress until each task is placed
\* or the plan is refused, and the rounds of the closure come to an end also
\* when QA and the verifier are never satisfied and repairs change nothing.
CallsReturn == <>(pc \in {"refused", "done"} /\ stage = "returned")

=============================================================================
