SPECIFICATION CallSpec
CONSTANTS
  Component = {1, 2}
  Briefs <- MCBriefs
  Ideas <- MCIdeas
  EntityName = {"m", "n", "k"}
  EntityType = {"t"}
  Field = {"f", "g"}
  Topologies <- MCTopologies
  Contexts = {{1}}
  MaxRounds = 4
  SoftWarningRound = 3
  MinRoundsBeforeExit = 2
  MinRound <- MCMinRound
  RoundBound = 5
  Draft = {"d1", "d2"}
  NoDraft = NoDraft
  Objection = {"o"}
  Reviews <- MCReviews
  Policies <- MCPolicies
  ReviewBound = 4
  Node = {1, 2, 3}
  Terminal = 9
  Resource = {"x"}
  Spec0 = {"s"}
  Blueprints <- MCBlueprints
  ApprovalId = {"p", "q"}
  MaxGraphs = 4
  Stage = {"verifier", "researcher"}
  Failures <- MCFailures
  Available = {2, 3, 4, 5}
  MaxFailures = 2
  Task = {1, 2, 3}
  File = {"x", "y"}
  Char = {"a", "b"}
  Contract <- MCContract
  Plans <- MCPlans
  MaxCriteria = 2
  Snapshot = {"s", "t"}
  NoSnapshot = NoSnapshot
  Skipped = Skipped
  Defect = {"d", "e"}
  MaxCycles = 3
  Proof = "proof"
  Review = "review"
  Inputs <- MCInputs
  Opinions <- MCOpinions
  Answers <- MCAnswers
  Pages <- MCPages
  Requests <- MCRequests
  Noise = {"page", "request"}
  Caller = {1, 2}
  Process = {1, 2}
  Processes <- MCProcesses
  Inode = {1, 2, 3, 4, 5}
  MaxSaves = 4
INVARIANTS CallTypeOK WavesSound PassAudited RoundsExplained ConsensusEarned ApprovedAndAccounted AmendmentsTellLineage RungsEarned PassExercised ControlsSpared NothingLeftOpen SavesKept
PROPERTIES RepairsFound NamedProofOnly CallsReturn
CHECK_DEADLOCK FALSE
