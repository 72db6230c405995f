----------------------------- MODULE Consensus -----------------------------
(***************************************************************************)
(* The consensus on a plan before it is executed (core/planning/index.mjs: *)
(* consensusPolicy and the functions that take a consensus state).  The    *)
(* state is a value the Lead keeps; every function returns the next one or *)
(* throws.  Findings are left out, objections are members of a set.        *)
(***************************************************************************)
EXTENDS Naturals, Sequences

CONSTANTS
  Draft,       \* the plans that are reviewed
  NoDraft,
  Objection,
  Reviews,     \* what may be recorded, a subset of PlanReview
  Policies,    \* the options of consensusPolicy, a subset of Policy
  ReviewBound  \* reviews a Lead records at most: a bound of the model

Reviewer == {"architect", "plan-auditor"}
Verdict == {"APPROVE", "ITERATE", "REJECT"}
Absent == "absent"   \* the reviewer said nothing

\* One review: the plan revision it is of, what each reviewer says and which
\* revision it says it read (0 when it does not say), and the plan, if supplied.
PlanReview ==
  [revision : Nat \ {0}, verdicts : [Reviewer -> Verdict \cup {Absent}],
   read : [Reviewer -> Nat], draft : Draft \cup {NoDraft},
   objections : SUBSET Objection]

Policy ==
  [tier : 0 .. 3, highRisk : BOOLEAN, enabled : BOOLEAN, reviewers : SUBSET Reviewer]

ASSUME ConsensusAssumption ==
  /\ Reviews \subseteq PlanReview /\ Policies \subseteq Policy
  /\ ReviewBound \in Nat /\ NoDraft \notin Draft

VARIABLE consensus

Unanimous(required, verdicts) == \A r \in required : verdicts[r] = "APPROVE"

-----------------------------------------------------------------------------
\* consensusPolicy and createConsensusState: tiers 0 and 1 do without, and an
\* enabled consensus has a reviewer.
ConsensusInit ==
  \E p \in Policies, draft \in Draft \cup {NoDraft} :
    LET enabled == p.tier > 1 /\ p.enabled
        risky == p.tier = 3 \/ p.highRisk
    IN  /\ enabled => p.reviewers # {}
        /\ consensus =
             [enabled |-> enabled,
              maxIterations |-> IF p.tier <= 1 THEN 0 ELSE IF risky THEN 5 ELSE 3,
              required |-> IF enabled THEN p.reviewers ELSE {},
              iteration |-> 0,
              status |-> IF enabled THEN "planning" ELSE "not-required",
              approved |-> FALSE, executionApproved |-> FALSE,
              history |-> <<>>, bestPlan |-> draft, remaining |-> {}]

\* recordConsensusReview.  A reviewer that names a revision names this one; a
\* review that only approves has every required reviewer.
Acceptable(review) ==
  LET present == {r \in Reviewer : review.verdicts[r] # Absent}
  IN  /\ \A r \in Reviewer : review.read[r] \in {0, review.revision}
      /\ (present # {} /\ Unanimous(present, review.verdicts)) =>
           consensus.required \subseteq present

\* Mutant of CouncilApproved: an approval is not taken back.
OnceApproved(review) ==
  consensus.approved \/ Unanimous(consensus.required, review.verdicts)

CouncilApproved(review) == Unanimous(consensus.required, review.verdicts)

RecordConsensusReview(review) ==
  /\ consensus.enabled
  /\ consensus.status \notin {"pending-user-approval", "consensus-not-reached"}
  /\ Len(consensus.history) < ReviewBound
  /\ Acceptable(review)
  /\ consensus' = [consensus EXCEPT
       !.iteration = @ + 1,
       !.bestPlan = IF review.draft = NoDraft THEN @ ELSE review.draft,
       !.history = Append(@, review.verdicts),
       !.remaining = IF CouncilApproved(review) THEN {} ELSE review.objections,
       !.status = IF CouncilApproved(review) THEN "pending-user-approval"
                  ELSE IF consensus.iteration + 1 >= consensus.maxIterations
                       THEN "consensus-not-reached" ELSE "revision-required",
       !.approved = CouncilApproved(review),
       !.executionApproved = FALSE]

\* approveConsensusExecution
ApproveConsensusExecution ==
  /\ consensus.status = "pending-user-approval" /\ consensus.approved
  /\ consensus' = [consensus EXCEPT !.status = "execution-approved",
                                    !.executionApproved = TRUE]

ConsensusNext ==
  \/ \E review \in Reviews : RecordConsensusReview(review)
  \/ ApproveConsensusExecution

ConsensusSpec == ConsensusInit /\ [][ConsensusNext]_consensus

-----------------------------------------------------------------------------
ConsensusTypeOK ==
  /\ consensus.status \in {"planning", "not-required", "pending-user-approval",
                           "consensus-not-reached", "revision-required",
                           "execution-approved"}
  /\ consensus.maxIterations \in {0, 3, 5}
  /\ consensus.required \subseteq Reviewer
  /\ consensus.iteration = Len(consensus.history)
  /\ consensus.history \in Seq([Reviewer -> Verdict \cup {Absent}])
  /\ consensus.bestPlan \in Draft \cup {NoDraft}
  /\ consensus.executionApproved => consensus.approved

\* A plan is approved, for the user or for execution, only by the last review
\* that was recorded, and by every reviewer the policy asks for.  More reviews
\* are recorded than the policy allows only after one the council approved:
\* an approval for execution does not end the consensus, and is withdrawn by
\* the next review.  (recordConsensusReview)
ConsensusEarned ==
  LET past == consensus.history
      Approves(i) == Unanimous(consensus.required, past[i])
  IN  /\ (consensus.approved \/ consensus.status = "execution-approved") =>
           past # <<>> /\ Approves(Len(past))
      /\ consensus.iteration > consensus.maxIterations =>
           \E i \in 1 .. Len(past) - 1 : Approves(i)

=============================================================================
