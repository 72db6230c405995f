--------------------------- MODULE Session_proofs ---------------------------
(***************************************************************************)
(* Proofs about the sessions a Lead has around the execution of a plan,    *)
(* for every spec, plan, review, failure, answer of the user and web page: *)
(* the interview, the consensus, the graphs, the routes, the closure, the  *)
(* browser check and the project's state, each with a specification of its *)
(* own.                                                                    *)
(***************************************************************************)
EXTENDS Orchestrator, WavePlanning_proofs, FiniteSetTheorems, SequenceTheorems,
        WellFoundedInduction, TLAPS

-----------------------------------------------------------------------------
(* Routing. *)

Routes ==
  [role : Stage, tried : SUBSET Rung, failed : SUBSET Rung, bases : SUBSET Rung,
   presumed : SUBSET Rung, counted : 0 .. MaxFailures]

RouteTypes ==
  /\ routing \in Routes
  /\ routing.tried \subseteq Available /\ routing.failed \subseteq routing.tried

\* Base and failures of one rung; Routing asks for them for every rung tried.
EarnedFrom(rung, bases, failed, presumed, counted) ==
  \E base \in bases :
    /\ base <= rung
    /\ \E n \in 0 .. counted : \A below \in base + n .. rung - 1 :
         below \in failed \/ (below = base /\ base \in presumed)

\* What was earned stays earned when more is remembered.
LEMMA EarnedGrows ==
  ASSUME NEW rung, NEW bases, NEW failed, NEW presumed, NEW counted \in Nat,
         NEW bases1, NEW failed1, NEW presumed1, NEW counted1 \in Nat,
         bases \subseteq bases1, failed \subseteq failed1, presumed \subseteq presumed1,
         counted <= counted1, EarnedFrom(rung, bases, failed, presumed, counted)
  PROVE EarnedFrom(rung, bases1, failed1, presumed1, counted1)
  <1>1. PICK base \in bases :
          /\ base <= rung
          /\ \E n \in 0 .. counted : \A below \in base + n .. rung - 1 :
               below \in failed \/ (below = base /\ base \in presumed)
    BY DEF EarnedFrom
  <1>2. PICK n \in 0 .. counted : \A below \in base + n .. rung - 1 :
               below \in failed \/ (below = base /\ base \in presumed)
    BY <1>1
  <1>3. n \in 0 .. counted1 BY <1>2
  <1> QED BY <1>1, <1>2, <1>3 DEF EarnedFrom

\* What failed was tried.
LEMMA RungsEarnedIs ==
  ASSUME RouteTypes
  PROVE RungsEarned <=> \A rung \in routing.tried :
          EarnedFrom(rung, routing.bases, routing.failed, routing.presumed, routing.counted)
  <1>1. routing.failed \cap routing.tried = routing.failed BY DEF RouteTypes
  <1> QED BY <1>1 DEF RungsEarned, EarnedFrom

\* One more call: a rung is added that is earned after the call.
LEMMA OneMore ==
  ASSUME RouteTypes, RungsEarned, NEW rung \in Available, NEW base \in Rung,
         NEW failed \in SUBSET routing.tried, routing.failed \subseteq failed,
         NEW presumed \in SUBSET Rung, routing.presumed \subseteq presumed,
         NEW counted \in 0 .. MaxFailures, routing.counted <= counted,
         EarnedFrom(rung, routing.bases \cup {base}, failed, presumed, counted),
         routing' = [routing EXCEPT !.tried = routing.tried \cup {rung},
                                    !.bases = routing.bases \cup {base},
                                    !.failed = failed, !.presumed = presumed,
                                    !.counted = counted]
  PROVE RouteTypes' /\ RungsEarned'
  <1>1. routing \in Routes /\ rung \in Rung /\ MaxFailures \in Nat
    BY RoutingAssumption DEF RouteTypes, RoutingAssumption
  <1>2. /\ routing'.tried = routing.tried \cup {rung} /\ routing'.failed = failed
        /\ routing'.bases = routing.bases \cup {base} /\ routing'.counted = counted
        /\ routing'.presumed = presumed /\ routing' \in Routes
    BY <1>1 DEF Routes
  <1>3. RouteTypes' BY <1>2 DEF RouteTypes
  <1>4. ASSUME NEW r \in routing.tried
        PROVE EarnedFrom(r, routing.bases \cup {base}, failed, presumed, counted)
    <2>1. routing.counted \in Nat /\ counted \in Nat BY <1>1 DEF Routes
    <2>2. EarnedFrom(r, routing.bases, routing.failed, routing.presumed, routing.counted)
      BY RungsEarnedIs
    <2> QED BY <2>1, <2>2, EarnedGrows
  <1>5. \A r \in routing'.tried :
          EarnedFrom(r, routing'.bases, routing'.failed, routing'.presumed, routing'.counted)
    BY <1>2, <1>4
  <1>6. routing'.failed \cap routing'.tried = routing'.failed BY <1>3 DEF RouteTypes
  <1>7. RungsEarned' BY <1>5, <1>6 DEF RungsEarned, EarnedFrom
  <1> QED BY <1>3, <1>7

\* What a call starts from needs no failure.
LEMMA BaseEarned ==
  ASSUME NEW base \in Rung, NEW rung \in Rung, NEW bases, base \in bases, NEW failed,
         NEW presumed, NEW counted \in Nat, NEW n \in 0 .. counted,
         base <= rung, rung <= base + n
  PROVE EarnedFrom(rung, bases, failed, presumed, counted)
  <1>1. base + n .. rung - 1 = {} BY DEF Rung
  <1> QED BY <1>1 DEF EarnedFrom

LEMMA BaseItself ==
  ASSUME NEW base \in Rung, NEW bases, base \in bases, NEW failed, NEW presumed,
         NEW counted \in Nat
  PROVE EarnedFrom(base, bases, failed, presumed, counted)
  <1>1. 0 \in 0 .. counted /\ base <= base /\ base <= base + 0 BY DEF Rung
  <1> QED BY <1>1, BaseEarned

\* The rung above the base is earned when a failure of the base is presumed.
LEMMA PresumedEarned ==
  ASSUME NEW base \in Rung, NEW bases, base \in bases, NEW failed, NEW presumed,
         base \in presumed, NEW counted \in Nat
  PROVE EarnedFrom(NextRouteStep(base), bases, failed, presumed, counted)
  <1> DEFINE rung == NextRouteStep(base)
  <1>1. base <= rung /\ \A below \in base + 0 .. rung - 1 : below = base
    BY DEF NextRouteStep, Rung
  <1>2. 0 \in 0 .. counted OBVIOUS
  <1> HIDE DEF rung
  <1>3. EarnedFrom(rung, bases, failed, presumed, counted) BY <1>1, <1>2 DEF EarnedFrom
  <1> QED BY <1>3 DEF rung

\* The rung above a rung is earned when that one was and has failed.
LEMMA NextEarned ==
  ASSUME NEW rung \in Rung, NEW bases \in SUBSET Rung, NEW failed, rung \in failed,
         NEW presumed, NEW counted \in Nat, EarnedFrom(rung, bases, failed, presumed, counted)
  PROVE EarnedFrom(NextRouteStep(rung), bases, failed, presumed, counted)
  <1> DEFINE next == NextRouteStep(rung)
  <1>1. PICK b \in bases :
          /\ b <= rung
          /\ \E n \in 0 .. counted : \A below \in b + n .. rung - 1 :
               below \in failed \/ (below = b /\ b \in presumed)
    BY DEF EarnedFrom
  <1>2. PICK n \in 0 .. counted : \A below \in b + n .. rung - 1 :
               below \in failed \/ (below = b /\ b \in presumed)
    BY <1>1
  <1>3. b <= next /\ \A below \in b + n .. next - 1 : below \in b + n .. rung - 1 \/ below = rung
    BY <1>1, <1>2 DEF NextRouteStep, Rung
  <1> HIDE DEF next
  <1>4. EarnedFrom(next, bases, failed, presumed, counted) BY <1>2, <1>3 DEF EarnedFrom
  <1> QED BY <1>4 DEF next

RouteHolds == RouteTypes /\ RungsEarned

LEMMA RouteStarts == RoutingInit => RouteHolds
  BY RoutingAssumption
  DEF RoutingInit, RouteHolds, RouteTypes, Routes, RungsEarned, RoutingAssumption

LEMMA RouteKept ==
  ASSUME RouteHolds, [RoutingNext]_routing PROVE RouteHolds'
  <1> SUFFICES ASSUME RouteTypes, RungsEarned, RoutingNext PROVE RouteTypes' /\ RungsEarned'
    BY DEF RouteHolds, RouteTypes, RungsEarned
  <1>0. /\ routing \in Routes /\ Available \subseteq Rung /\ routing.counted \in Nat
        /\ routing.counted \in 0 .. MaxFailures /\ routing.counted <= routing.counted
        /\ routing.tried \in SUBSET Rung
        /\ routing.failed \in SUBSET routing.tried /\ routing.failed \subseteq routing.failed
        /\ routing.presumed \in SUBSET Rung /\ routing.presumed \subseteq routing.presumed
    BY RoutingAssumption DEF RouteTypes, RoutingAssumption, Routes
  <1>1. ASSUME NEW rung \in Rung, ResolveForced(rung)
        PROVE RouteTypes' /\ RungsEarned'
    <2>1. EarnedFrom(rung, routing.bases \cup {rung}, routing.failed, routing.presumed,
                     routing.counted)
      BY <1>0, BaseItself
    <2>2. rung \in Available BY <1>1 DEF ResolveForced, Resolve
    <2>3. routing' = [routing EXCEPT !.tried = routing.tried \cup {rung},
                                     !.bases = routing.bases \cup {rung},
                                     !.failed = routing.failed,
                                     !.presumed = routing.presumed,
                                     !.counted = routing.counted]
      BY <1>0, <1>1 DEF ResolveForced, Resolve, Routes
    <2> QED BY <1>0, <2>1, <2>2, <2>3, OneMore
  <1>2. ASSUME NEW exhausted \in BOOLEAN, NEW base \in Rung,
               NEW failures \in 0 .. MaxFailures, ResolveCounted(base, exhausted, failures)
        PROVE RouteTypes' /\ RungsEarned'
    <2> DEFINE rung == AfterFailures(routing.role, base, exhausted, failures)
               counted == IF Verifies(routing.role) /\ failures > routing.counted
                          THEN failures ELSE routing.counted
               n == IF Verifies(routing.role) THEN failures ELSE 0
    <2>1. rung \in Available BY <1>2 DEF ResolveCounted
    <2>2. counted \in 0 .. MaxFailures /\ routing.counted <= counted /\ n \in 0 .. counted
      BY <1>0 DEF Routes
    <2>3. exhausted => base = SolHigh
      BY <1>2 DEF ResolveCounted, BaseRoutes
    <2>4. base <= rung /\ rung <= base + n
      BY <1>0, <2>3 DEF AfterFailures, Climbed, LunaMax, SolHigh, Rung
    <2>5. routing' = [routing EXCEPT !.tried = routing.tried \cup {rung},
                                     !.bases = routing.bases \cup {base},
                                     !.failed = routing.failed,
                                     !.presumed = routing.presumed, !.counted = counted]
      BY <1>0, <1>2 DEF ResolveCounted, Routes
    <2> HIDE DEF rung, counted, n
    <2>6. EarnedFrom(rung, routing.bases \cup {base}, routing.failed, routing.presumed, counted)
      BY <1>0, <2>1, <2>2, <2>4, BaseEarned
    <2> QED BY <1>0, <2>1, <2>2, <2>5, <2>6, OneMore DEF Routes
  <1>3. ASSUME NEW exhausted \in BOOLEAN, NEW base \in Rung, NEW f \in Failures,
               ResolveFailed(base, exhausted, f)
        PROVE RouteTypes' /\ RungsEarned'
    <2> DEFINE own == f.target \in {NoStage, routing.role}
               reasoned == own /\ f.kind \notin NeverReasoning /\ ~f.evidence
               told == f.attempted # NoRung
               rung == AfterFailure(routing.role, base, f)
               failed == routing.failed \cup {r \in {f.attempted} : reasoned /\ told}
               presumed == routing.presumed \cup {r \in {base} : reasoned /\ ~told}
               bases == routing.bases \cup {base}
    <2>1. rung \in Available BY <1>3 DEF ResolveFailed
    <2>2. own /\ told => f.attempted \in routing.tried
      BY <1>3 DEF ResolveFailed
    <2>3. /\ failed \in SUBSET routing.tried /\ routing.failed \subseteq failed
          /\ presumed \in SUBSET Rung /\ routing.presumed \subseteq presumed
          /\ bases \in SUBSET Rung /\ base \in bases /\ routing.bases \subseteq bases
      BY <1>0, <2>2 DEF Routes
    <2>4. routing' = [routing EXCEPT !.tried = routing.tried \cup {rung},
                                     !.bases = bases, !.failed = failed,
                                     !.presumed = presumed, !.counted = routing.counted]
      BY <1>0, <1>3 DEF ResolveFailed, Routes
    <2>5. Eligible(f) /\ own => reasoned BY DEF Eligible
    <2>6. reasoned => (told => f.attempted \in failed) /\ (~told => base \in presumed)
      OBVIOUS
    <2>7. ASSUME NEW r \in routing.tried
          PROVE EarnedFrom(r, bases, failed, presumed, routing.counted)
      <3>1. EarnedFrom(r, routing.bases, routing.failed, routing.presumed, routing.counted)
        BY RungsEarnedIs
      <3> HIDE DEF failed, presumed, bases
      <3> QED BY <1>0, <2>3, <3>1, EarnedGrows
    <2>8. rung = IF ~own THEN base
                 ELSE LET tried == IF told THEN f.attempted ELSE base
                      IN  IF Eligible(f) THEN NextRouteStep(tried) ELSE tried
      BY DEF AfterFailure, Attempted
    <2> HIDE DEF own, reasoned, told, rung, failed, presumed, bases
    <2>9. EarnedFrom(base, bases, failed, presumed, routing.counted)
      BY <1>0, <2>3, BaseItself
    <2>10. EarnedFrom(rung, bases, failed, presumed, routing.counted)
      <3>1. CASE ~own \/ (~told /\ ~Eligible(f)) BY <2>8, <2>9, <3>1
      <3>2. CASE own /\ ~told /\ Eligible(f)
        <4>1. rung = NextRouteStep(base) /\ base \in presumed BY <2>5, <2>6, <2>8, <3>2
        <4> QED BY <1>0, <2>3, <4>1, PresumedEarned
      <3>3. CASE own /\ told /\ Eligible(f)
        <4>1. /\ rung = NextRouteStep(f.attempted) /\ f.attempted \in failed
              /\ f.attempted \in Rung
              /\ EarnedFrom(f.attempted, bases, failed, presumed, routing.counted)
          BY <1>0, <2>2, <2>5, <2>6, <2>7, <2>8, <3>3
        <4> QED BY <1>0, <2>3, <4>1, NextEarned
      <3>4. CASE own /\ told /\ ~Eligible(f) BY <2>2, <2>7, <2>8, <3>4
      <3> QED BY <3>1, <3>2, <3>3, <3>4
    <2> QED BY <1>0, <2>1, <2>3, <2>4, <2>10, OneMore DEF bases
  <1> QED BY <1>1, <1>2, <1>3 DEF RoutingNext

LEMMA RouteTyped == RouteHolds => RoutingTypeOK
  BY DEF RouteHolds, RouteTypes, Routes, RoutingTypeOK

\* Whatever the task, the failures and the runtime are, each rung between a base
\* and the one a stage runs at was tried and has failed for want of reasoning, but
\* for as many as a call counted failed verifications, and but for the base itself
\* when a failure named no rung.  (applyFailureEscalation, resolveRoleRouting)
THEOREM RungsAreEarned == RoutingSpec => []RungsEarned
  <1>1. RouteHolds => RungsEarned BY DEF RouteHolds
  <1> QED BY <1>1, RouteStarts, RouteKept, PTL DEF RoutingSpec

-----------------------------------------------------------------------------
(* The consensus. *)

Status ==
  {"planning", "not-required", "pending-user-approval", "consensus-not-reached",
   "revision-required", "execution-approved"}
Verdicts == [Reviewer -> Verdict \cup {Absent}]

ConsensusTypes ==
  consensus \in [enabled : BOOLEAN, maxIterations : {0, 3, 5}, required : SUBSET Reviewer,
                 iteration : Nat, status : Status, approved : BOOLEAN,
                 executionApproved : BOOLEAN, history : Seq(Verdicts),
                 bestPlan : Draft \cup {NoDraft}, remaining : SUBSET Objection]

\* Why a review may still be recorded: there is one left, or the council has
\* approved and the approval for execution did not end the consensus.
Underway ==
  LET past == consensus.history
  IN  /\ consensus.iteration = Len(past)
      /\ consensus.enabled => consensus.maxIterations > 0
      /\ consensus.status = "planning" => consensus.iteration = 0
      /\ consensus.status = "revision-required" => consensus.iteration < consensus.maxIterations
      /\ consensus.status = "not-required" => ~consensus.enabled
      /\ consensus.status = "pending-user-approval" => consensus.approved
      /\ consensus.executionApproved => consensus.approved

ConsensusHolds == ConsensusTypes /\ Underway /\ ConsensusEarned

LEMMA ConsensusStarts == ConsensusInit => ConsensusHolds
  <1> SUFFICES ASSUME ConsensusInit PROVE ConsensusTypes /\ Underway /\ ConsensusEarned
    BY DEF ConsensusHolds
  <1>1. PICK p \in Policies, draft \in Draft \cup {NoDraft} :
          LET enabled == p.tier > 1 /\ p.enabled
              risky == p.tier = 3 \/ p.highRisk
          IN  consensus =
             [enabled |-> enabled,
              maxIterations |-> IF p.tier <= 1 THEN 0 ELSE IF risky THEN 5 ELSE 3,
              required |-> IF enabled THEN p.reviewers ELSE {},
              iteration |-> 0,
              status |-> IF enabled THEN "planning" ELSE "not-required",
              approved |-> FALSE, executionApproved |-> FALSE,
              history |-> <<>>, bestPlan |-> draft, remaining |-> {}]
    BY DEF ConsensusInit
  <1> DEFINE enabled == p.tier > 1 /\ p.enabled
             rounds == IF p.tier <= 1 THEN 0
                       ELSE IF p.tier = 3 \/ p.highRisk THEN 5 ELSE 3
             required == IF enabled THEN p.reviewers ELSE {}
             status == IF enabled THEN "planning" ELSE "not-required"
  <1>2. p \in Policy BY ConsensusAssumption DEF ConsensusAssumption
  <1>3. /\ enabled \in BOOLEAN /\ rounds \in {0, 3, 5} /\ required \in SUBSET Reviewer
        /\ status \in {"planning", "not-required"}
        /\ enabled => rounds > 0
        /\ status = "not-required" => ~enabled
    BY <1>2 DEF Policy
  <1>4. consensus =
          [enabled |-> enabled, maxIterations |-> rounds, required |-> required,
           iteration |-> 0, status |-> status, approved |-> FALSE,
           executionApproved |-> FALSE, history |-> <<>>, bestPlan |-> draft,
           remaining |-> {}]
    BY <1>1
  <1> HIDE DEF enabled, rounds, required, status
  <1>5. <<>> \in Seq(Verdicts) OBVIOUS
  <1>6. ConsensusTypes BY <1>3, <1>4, <1>5 DEF ConsensusTypes, Status
  <1>7. Underway BY <1>3, <1>4 DEF Underway
  <1>8. ConsensusEarned BY <1>3, <1>4 DEF ConsensusEarned
  <1> QED BY <1>6, <1>7, <1>8

LEMMA ConsensusReviewed ==
  ASSUME ConsensusTypes, Underway, ConsensusEarned,
         NEW review \in Reviews, RecordConsensusReview(review)
  PROVE ConsensusTypes' /\ Underway' /\ ConsensusEarned'
  <1> DEFINE approved == CouncilApproved(review)
             past == consensus.history
             more == Append(past, review.verdicts)
             rounds == consensus.iteration + 1
             best == IF review.draft = NoDraft THEN consensus.bestPlan ELSE review.draft
             left == IF approved THEN {} ELSE review.objections
             status == IF approved THEN "pending-user-approval"
                       ELSE IF rounds >= consensus.maxIterations
                            THEN "consensus-not-reached" ELSE "revision-required"
  <1>1. review \in PlanReview BY ConsensusAssumption DEF ConsensusAssumption
  <1>2. /\ consensus.iteration \in Nat /\ past \in Seq(Verdicts) /\ Len(past) = consensus.iteration
        /\ consensus.maxIterations \in Nat /\ consensus.enabled
        /\ consensus.status \in {"planning", "revision-required", "execution-approved"}
        /\ review.verdicts \in Verdicts
    BY <1>1 DEF ConsensusTypes, Underway, RecordConsensusReview, Status, PlanReview, Verdicts
  <1>3. /\ more \in Seq(Verdicts) /\ Len(more) = rounds /\ more[rounds] = review.verdicts
        /\ \A i \in 1 .. Len(past) : more[i] = past[i]
    BY <1>2
  <1>4. approved \in BOOLEAN BY DEF CouncilApproved, Unanimous
  <1>5. /\ consensus'.iteration = rounds /\ consensus'.status = status
        /\ consensus'.history = more /\ consensus'.approved = approved
        /\ consensus'.executionApproved = FALSE
        /\ consensus'.required = consensus.required
        /\ consensus'.maxIterations = consensus.maxIterations
        /\ consensus'.enabled = consensus.enabled
    BY DEF ConsensusTypes, RecordConsensusReview
  <1>6. ConsensusTypes'
    <2>1. best \in Draft \cup {NoDraft} /\ left \in SUBSET Objection
      BY <1>1 DEF ConsensusTypes, PlanReview
    <2>2. status \in Status BY DEF Status
    <2>3. consensus' = [consensus EXCEPT
            !.iteration = rounds, !.bestPlan = best, !.history = more, !.remaining = left,
            !.status = status, !.approved = approved, !.executionApproved = FALSE]
      BY DEF RecordConsensusReview
    <2> HIDE DEF approved, more, rounds, best, left, status
    <2>4. rounds \in Nat BY <1>2 DEF rounds
    <2> QED BY <2>1, <2>2, <2>3, <2>4, <1>3, <1>4 DEF ConsensusTypes
  <1>7. Underway' BY <1>2, <1>3, <1>5 DEF Underway
  <1>8. consensus'.status # "execution-approved" BY <1>5
  <1>9. ASSUME rounds > consensus.maxIterations
         PROVE \E i \in 1 .. Len(past) : Unanimous(consensus.required, past[i])
    <2>1. CASE consensus.status = "execution-approved"
      <3>1. past # <<>> /\ Unanimous(consensus.required, past[Len(past)])
        BY <2>1 DEF ConsensusEarned
      <3>2. Len(past) \in 1 .. Len(past) BY <1>2, <3>1
      <3> QED BY <3>1, <3>2
    <2>2. CASE consensus.status = "planning"
      BY <1>2, <1>9, <2>2 DEF Underway
    <2>3. CASE consensus.status = "revision-required"
      BY <1>2, <1>9, <2>3 DEF Underway
    <2> QED BY <1>2, <2>1, <2>2, <2>3
  <1>10. approved => Unanimous(consensus.required, more[rounds])
    BY <1>3 DEF CouncilApproved
  <1>11. rounds > consensus.maxIterations =>
           \E i \in 1 .. rounds - 1 : Unanimous(consensus.required, more[i])
    <2>1. rounds - 1 = Len(past) BY <1>2
    <2> QED BY <1>3, <1>9, <2>1
  <1>12. rounds \in Nat \ {0} BY <1>2
  <1>13. \A s : Len(s) # 0 => s # <<>> OBVIOUS
  <1> HIDE DEF approved, past, more, rounds, status
  <1>14. ConsensusEarned'
    BY <1>3, <1>5, <1>8, <1>10, <1>11, <1>12, <1>13 DEF ConsensusEarned
  <1> QED BY <1>6, <1>7, <1>14

LEMMA ConsensusGranted ==
  ASSUME ConsensusTypes, Underway, ConsensusEarned, ApproveConsensusExecution
  PROVE ConsensusTypes' /\ Underway' /\ ConsensusEarned'
  <1>1. /\ consensus'.iteration = consensus.iteration
        /\ consensus'.status = "execution-approved"
        /\ consensus'.history = consensus.history /\ consensus'.approved = consensus.approved
        /\ consensus'.required = consensus.required
        /\ consensus'.maxIterations = consensus.maxIterations
        /\ consensus'.enabled = consensus.enabled
        /\ consensus.approved
    BY DEF ConsensusTypes, ApproveConsensusExecution
  <1>2. ConsensusTypes' BY DEF ConsensusTypes, Status, ApproveConsensusExecution
  <1>3. Underway' BY <1>1 DEF Underway
  <1>4. ConsensusEarned' BY <1>1 DEF ConsensusEarned
  <1> QED BY <1>2, <1>3, <1>4

LEMMA ConsensusKept ==
  ASSUME ConsensusHolds, [ConsensusNext]_consensus PROVE ConsensusHolds'
  <1> USE DEF ConsensusHolds
  <1>1. CASE UNCHANGED consensus
    BY <1>1 DEF ConsensusTypes, Underway, ConsensusEarned
  <1> QED BY <1>1, ConsensusReviewed, ConsensusGranted DEF ConsensusNext

LEMMA ConsensusTyped == ConsensusHolds => ConsensusTypeOK
  BY DEF ConsensusHolds, ConsensusTypes, Underway, ConsensusTypeOK, Status, Verdicts

\* A plan is approved only by the last review and by every reviewer asked for,
\* however many reviews there are, and the limit of the policy is passed only
\* behind an approval.  (recordConsensusReview)
THEOREM ConsensusIsEarned == ConsensusSpec => []ConsensusEarned
  <1>1. ConsensusHolds => ConsensusEarned BY DEF ConsensusHolds
  <1> QED BY <1>1, ConsensusStarts, ConsensusKept, PTL DEF ConsensusSpec

-----------------------------------------------------------------------------
(* The interview. *)

Recorded ==
  {"type", "threshold", "context", "status", "expected", "exit", "confirmed", "active",
   "last", "roundCount", "recent", "misnumbered", "used", "warned", "ontology"}

InterviewTypes == DOMAIN interview = Recorded /\ interview.roundCount \in Nat

\* The question that the Lead holds was asked before the cap, the numbers are
\* wrong behind it, and an interview that goes on was warned in its turn.
InTurn ==
  /\ asked = NoQuestion \/ asked.round <= MaxRounds
  /\ interview.roundCount > MaxRounds => interview.misnumbered
  /\ interview.status = "interview-active" /\ interview.roundCount = SoftWarningRound =>
       interview.warned

\* Only an interview that goes on in its turn, unwarned, is warned when asked.
LEMMA WarnedOnce ==
  ASSUME NEW spec, NEW brought, NextQuestion(spec, "none", brought).kind = "warning"
  PROVE interview.roundCount = SoftWarningRound /\ ~interview.warned
  <1> DEFINE clear == ClearEnough(spec, interview)
             progress == Progress(interview, clear, "none")
             weakest == Weakest(spec, interview)
             mode == SelectChallengeMode(interview, Ambiguity(spec, interview.type))
             shifting == Shifting(interview.ontology)
  <1>1. progress = "warning"
    <2> HIDE DEF progress, mode, weakest, shifting
    <2> QED BY DEF NextQuestion, progress, mode, weakest, shifting
  <1> HIDE DEF clear
  <1> QED BY <1>1 DEF Progress

LEMMA InTurnExplains == InTurn => RoundsExplained
  BY WarnedOnce DEF InTurn, RoundsExplained

LEMMA InterviewStarts ==
  ASSUME InterviewInit PROVE InterviewTypes /\ InTurn
  BY InterviewAssumption DEF InterviewInit, InterviewTypes, InTurn, Recorded

LEMMA ScoutApplied ==
  ASSUME InterviewTypes, InTurn, NEW context, ApplyScoutEvidence(context)
  PROVE InterviewTypes' /\ InTurn'
  BY DEF InterviewTypes, InTurn, Recorded, ApplyScoutEvidence

LEMMA TopologyConfirmed ==
  ASSUME InterviewTypes, InTurn, NEW components, NEW deferred,
         ConfirmTopology(components, deferred)
  PROVE InterviewTypes' /\ InTurn'
  BY DEF InterviewTypes, InTurn, Recorded, ConfirmTopology

\* A question is one of the round to come, and asked before the cap.
LEMMA Asked ==
  ASSUME InterviewTypes, InTurn, NEW spec, NEW intent, NEW brought,
         Ask(spec, intent, brought)
  PROVE InterviewTypes' /\ InTurn'
  <1> DEFINE clear == ClearEnough(spec, interview)
             progress == Progress(interview, clear, intent)
             weakest == Weakest(spec, interview)
             mode == SelectChallengeMode(interview, Ambiguity(spec, interview.type))
             shifting == Shifting(interview.ontology)
             next == NextQuestion(spec, intent, brought)
  <1>1. progress = "continue" /\ next.round = interview.roundCount + 1
    <2>1. next.kind = "clarity" BY DEF Ask
    <2>2. progress # "clarity" BY DEF Progress
    <2> HIDE DEF progress, mode, weakest, shifting
    <2> QED BY <2>1, <2>2 DEF NextQuestion, progress, mode, weakest, shifting
  <1>2. ~(interview.roundCount >= MaxRounds)
    <2> HIDE DEF clear
    <2> QED BY <1>1 DEF Progress
  <1>3. asked' = next /\ UNCHANGED interview BY DEF Ask
  <1> HIDE DEF next
  <1>4. asked'.round <= MaxRounds
    BY <1>1, <1>2, <1>3, InterviewAssumption DEF InterviewTypes
  <1> QED BY <1>3, <1>4 DEF InterviewTypes, InTurn

\* A question that is recorded behind the cap is not of the round it is recorded
\* as, and the round of the warning goes on only warned.
LEMMA RoundRecorded ==
  ASSUME InterviewTypes, InTurn, NEW spec, NEW intent, RecordRound(spec, intent)
  PROVE InterviewTypes' /\ InTurn'
  <1> DEFINE next == NextRoundState(spec)
             clear == ClearEnough(spec, interview)
             progress == Progress(next, clear, intent)
  <1>1. /\ DOMAIN next = Recorded
        /\ next.roundCount = interview.roundCount + 1
        /\ next.misnumbered = (interview.misnumbered \/ asked.round # interview.roundCount + 1)
        /\ next.warned = interview.warned
    BY DEF InterviewTypes, Recorded, NextRoundState
  <1> HIDE DEF next, clear
  <1>2. progress = "continue" => next.roundCount # SoftWarningRound \/ next.warned
    BY DEF Progress
  <1>3. progress \in DOMAIN StatusOf BY DEF Progress, StatusOf
  <1>4. StatusOf[progress] = "interview-active" => progress \in {"warning", "continue"}
    BY <1>3 DEF StatusOf
  <1>5. /\ DOMAIN interview' = Recorded
        /\ interview'.roundCount = next.roundCount
        /\ interview'.misnumbered = next.misnumbered
        /\ interview'.status = StatusOf[progress]
        /\ interview'.warned = (next.warned \/ progress = "warning")
    <2> HIDE DEF progress
    <2> QED BY <1>1 DEF RecordRound, next, progress, clear, Recorded
  <1>6. asked' = asked /\ asked # NoQuestion BY DEF RecordRound
  <1> HIDE DEF progress
  <1>7. InterviewTypes' BY <1>1, <1>5 DEF InterviewTypes
  <1>8. InTurn'
    <2>1. asked'.round <= MaxRounds BY <1>6 DEF InTurn
    <2>2. interview'.roundCount > MaxRounds => interview'.misnumbered
      <3>1. CASE asked.round # interview.roundCount + 1
        BY <1>1, <1>5, <3>1
      <3>2. CASE asked.round = interview.roundCount + 1
        <4>1. ~(interview'.roundCount > MaxRounds)
          BY <1>1, <1>5, <1>6, <2>1, <3>2, InterviewAssumption DEF InterviewTypes
        <4> QED BY <4>1
      <3> QED BY <3>1, <3>2
    <2>3. interview'.status = "interview-active" /\ interview'.roundCount = SoftWarningRound =>
            interview'.warned
      BY <1>2, <1>4, <1>5
    <2> QED BY <2>1, <2>2, <2>3 DEF InTurn
  <1> QED BY <1>7, <1>8

LEMMA InTurnKept ==
  ASSUME InterviewTypes, InTurn, [InterviewNext]_interviewVars
  PROVE InterviewTypes' /\ InTurn'
  <1>1. CASE UNCHANGED interviewVars
    BY <1>1 DEF interviewVars, InterviewTypes, InTurn
  <1> QED BY <1>1, ScoutApplied, TopologyConfirmed, Asked, RoundRecorded DEF InterviewNext

\* However often a question is asked, recorded late or recorded again, the cap is
\* passed only by rounds of another number, and a round is warned of twice only
\* when it ended the interview.  (recordInterviewRound, interviewProgress)
THEOREM RoundsAreExplained == InterviewSpec => []RoundsExplained
  <1> DEFINE I == InterviewTypes /\ InTurn
  <1>1. InterviewInit => I BY InterviewStarts
  <1>2. I /\ [InterviewNext]_interviewVars => I' BY InTurnKept
  <1>3. I => RoundsExplained BY InTurnExplains
  <1> QED BY <1>1, <1>2, <1>3, PTL DEF InterviewSpec

-----------------------------------------------------------------------------
(* The least and the greatest of a set of numbers. *)

LEMMA LeastIsThere ==
  ASSUME NEW S \in SUBSET Nat, S # {}
  PROVE  \E n \in S : \A m \in S : n <= m
  BY FirstIsLeast

LEMMA MinIsThere ==
  ASSUME NEW S \in SUBSET Nat, S # {}
  PROVE  Min(S) \in S /\ \A x \in S : Min(S) <= x
  BY LeastIsThere DEF Min

LEMMA MaxIsThere ==
  ASSUME NEW S \in SUBSET Int, S # {}, NEW n \in Int, \A x \in S : x <= n
  PROVE  Max(S) \in S /\ \A x \in S : x <= Max(S)
  <1> DEFINE Gaps == {n - x : x \in S}
  <1>1. Gaps \subseteq Nat /\ Gaps # {}
    <2>1. \A x \in S : x \in Int /\ x <= n /\ n - x \in Nat OBVIOUS
    <2> QED BY <2>1
  <1> HIDE DEF Gaps
  <1>2. PICK g \in Gaps : \A h \in Gaps : g <= h BY <1>1, LeastIsThere
  <1> USE DEF Gaps
  <1>3. PICK x \in S : g = n - x OBVIOUS
  <1>4. \A y \in S : n - x <= n - y BY <1>2, <1>3
  <1>5. \A y \in S : x >= y BY <1>4
  <1> HIDE DEF Gaps
  <1>6. \E z \in S : \A y \in S : z >= y BY <1>5
  <1>7. Max(S) \in S /\ \A y \in S : Max(S) >= y BY <1>6 DEF Max
  <1> QED BY <1>7

\* The last of the first k numbers.
LEMMA MaxOfFirst ==
  ASSUME NEW k \in Nat \ {0}
  PROVE  Max(1 .. k) = k /\ (1 .. k) \ {k} = 1 .. k - 1
  <1>1. 1 .. k \in SUBSET Int /\ 1 .. k # {} /\ k \in 1 .. k /\ \A x \in 1 .. k : x <= k
    OBVIOUS
  <1>2. Max(1 .. k) \in 1 .. k /\ \A x \in 1 .. k : x <= Max(1 .. k)
    BY <1>1, MaxIsThere
  <1> QED BY <1>1, <1>2

-----------------------------------------------------------------------------
(* What an interview records is a number of its kind: an ambiguity is the   *)
(* sum over a recursive function of the library, which is the sum of four   *)
(* parts, and the ontology a fold, which counts every entity once.          *)

\* The ambiguity of a spec that is clear in nothing.
Points == 10000

Part(type, clarity, d) == Weight(type)[d] * clarity[d]

AllParts(type, clarity) ==
  Part(type, clarity, "goal") + Part(type, clarity, "constraints")
    + Part(type, clarity, "criteria") + Part(type, clarity, "context")

LEMMA WeightsAddUp ==
  ASSUME NEW clarity \in Clarity, NEW type \in {"greenfield", "brownfield"}
  PROVE  (\A d \in Dimension : Part(type, clarity, d) \in Nat) /\ AllParts(type, clarity) \in 0 .. Points
  <1> DEFINE a == clarity["goal"]
             b == clarity["constraints"]
             c == clarity["criteria"]
             e == clarity["context"]
  <1>1. a \in 0 .. 100 /\ b \in 0 .. 100 /\ c \in 0 .. 100 /\ e \in 0 .. 100
    BY DEF Clarity, Dimension
  <1>2. CASE type = "brownfield"
    <2>1. /\ Part(type, clarity, "goal") = 35 * a
          /\ Part(type, clarity, "constraints") = 25 * b
          /\ Part(type, clarity, "criteria") = 25 * c
          /\ Part(type, clarity, "context") = 15 * e
      BY <1>2 DEF Part, Weight
    <2> HIDE DEF a, b, c, e
    <2>2. /\ 35 * a \in Nat /\ 25 * b \in Nat /\ 25 * c \in Nat /\ 15 * e \in Nat
          /\ 35 * a + 25 * b + 25 * c + 15 * e \in 0 .. 10000
      BY <1>1
    <2>3. AllParts(type, clarity) \in 0 .. Points BY <2>1, <2>2 DEF AllParts, Points
    <2> QED BY <2>1, <2>2, <2>3 DEF Dimension
  <1>3. CASE type = "greenfield"
    <2>1. /\ Part(type, clarity, "goal") = 40 * a
          /\ Part(type, clarity, "constraints") = 30 * b
          /\ Part(type, clarity, "criteria") = 30 * c
          /\ Part(type, clarity, "context") = 0 * e
      BY <1>3 DEF Part, Weight
    <2> HIDE DEF a, b, c, e
    <2>2. /\ 40 * a \in Nat /\ 30 * b \in Nat /\ 30 * c \in Nat /\ 0 * e \in Nat
          /\ 40 * a + 30 * b + 30 * c + 0 * e \in 0 .. 10000
      BY <1>1
    <2>3. AllParts(type, clarity) \in 0 .. Points BY <2>1, <2>2 DEF AllParts, Points
    <2> QED BY <2>1, <2>2, <2>3 DEF Dimension
  <1>4. type = "brownfield" \/ type = "greenfield" OBVIOUS
  <1> HIDE DEF a, b, c, e
  <1> QED BY <1>2, <1>3, <1>4

LEMMA AmbiguityBounded ==
  ASSUME NEW clarity \in Clarity, NEW type \in {"greenfield", "brownfield"}
  PROVE  ComputeAmbiguity(clarity, type) \in 0 .. Points
  <1> DEFINE part(d) == Part(type, clarity, d)
             Sum(f) == [s \in SUBSET Dimension |->
                          IF s = {} THEN 0
                          ELSE LET x == CHOOSE x \in s : TRUE IN part(x) + f[s \ {x}]]
             sum == CHOOSE f : f = Sum(f)
             some(s, d) == IF d \in s THEN part(d) ELSE 0
             total == [s \in SUBSET Dimension |->
                         some(s, "goal") + some(s, "constraints") + some(s, "criteria")
                           + some(s, "context")]
  <1>1. \A d \in Dimension : clarity[d] \in 0 .. 100 BY DEF Clarity
  <1>2. (\A d \in Dimension : part(d) \in Nat) /\ AllParts(type, clarity) \in 0 .. Points
    BY WeightsAddUp
  <1> HIDE DEF part
  <1>3. \A s \in SUBSET Dimension : \A x \in s : total[s] = part(x) + total[s \ {x}]
    <2> TAKE s \in SUBSET Dimension
    <2> TAKE x \in s
    <2>1. /\ some(s, "goal") \in Nat /\ some(s, "constraints") \in Nat
          /\ some(s, "criteria") \in Nat /\ some(s, "context") \in Nat
      BY <1>2 DEF Dimension
    <2>2. \A d \in Dimension : some(s \ {x}, d) = IF d = x THEN 0 ELSE some(s, d)
      OBVIOUS
    <2>3. some(s, x) = part(x) OBVIOUS
    <2>4. x \in Dimension OBVIOUS
    <2>5. /\ total[s] = some(s, "goal") + some(s, "constraints") + some(s, "criteria")
                          + some(s, "context")
          /\ total[s \ {x}] = some(s \ {x}, "goal") + some(s \ {x}, "constraints")
                          + some(s \ {x}, "criteria") + some(s \ {x}, "context")
      OBVIOUS
    <2> HIDE DEF total, some
    <2> QED BY <2>1, <2>2, <2>3, <2>4, <2>5 DEF Dimension
  <1>4. total[{}] = 0
    <2>1. \A d : some({}, d) = 0 OBVIOUS
    <2>2. total[{}] = some({}, "goal") + some({}, "constraints") + some({}, "criteria")
                        + some({}, "context")
      OBVIOUS
    <2> HIDE DEF total, some
    <2> QED BY <2>1, <2>2
  <1>5. \E f : f = Sum(f)
    <2>1. \A s \in SUBSET Dimension : total[s] = Sum(total)[s]
      <3> TAKE s \in SUBSET Dimension
      <3>1. CASE s = {} BY <1>4, <3>1
      <3>2. CASE s # {}
        <4> DEFINE x == CHOOSE x \in s : TRUE
        <4>1. x \in s BY <3>2
        <4>2. Sum(total)[s] = part(x) + total[s \ {x}] BY <3>2
        <4> HIDE DEF x, total, Sum
        <4> QED BY <1>3, <4>1, <4>2
      <3> QED BY <3>1, <3>2
    <2>2. total = Sum(total) BY <2>1
    <2> QED BY <2>2
  <1>6. sum = Sum(sum) BY <1>5
  <1>7. ComputeAmbiguity(clarity, type) = Points - sum[Dimension]
    BY DEF Points, ComputeAmbiguity, MapThenSumSet, MapThenFoldSet, part, Part
  <1> HIDE DEF sum, total
  <1>8. sum[{}] = 0 BY <1>6
  <1>9. \A s \in SUBSET Dimension : s # {} =>
          \E x \in s : sum[s] = part(x) + sum[s \ {x}]
    BY <1>6
  <1>10. \A s \in SUBSET Dimension :
           s # {} /\ (\A x \in s : sum[s \ {x}] = total[s \ {x}]) => sum[s] = total[s]
    BY <1>3, <1>9
  <1>11. \A a \in Dimension : sum[{a}] = total[{a}]
    <2>1. \A a \in Dimension : {a} \ {a} = {} OBVIOUS
    <2> QED BY <1>4, <1>8, <1>10, <2>1
  <1>12. \A a, b \in Dimension : sum[{a, b}] = total[{a, b}]
    <2> TAKE a, b \in Dimension
    <2>1. CASE a = b BY <1>11, <2>1
    <2>2. CASE a # b
      <3>1. {a, b} \ {a} = {b} /\ {a, b} \ {b} = {a} BY <2>2
      <3> QED BY <1>10, <1>11, <3>1
    <2> QED BY <2>1, <2>2
  <1>13. \A a, b, c \in Dimension : sum[{a, b, c}] = total[{a, b, c}]
    <2> TAKE a, b, c \in Dimension
    <2>1. CASE a = b \/ a = c \/ b = c
      <3>1. {a, b, c} \in {{a, b}, {a, c}} BY <2>1
      <3> QED BY <1>12, <3>1
    <2>2. CASE a # b /\ a # c /\ b # c
      <3>1. /\ {a, b, c} \ {a} = {b, c} /\ {a, b, c} \ {b} = {a, c}
            /\ {a, b, c} \ {c} = {a, b}
        BY <2>2
      <3> QED BY <1>10, <1>12, <3>1
    <2> QED BY <2>1, <2>2
  <1>14. sum[Dimension] = total[Dimension]
    <2>1. \A x \in Dimension : sum[Dimension \ {x}] = total[Dimension \ {x}]
      <3>1. /\ Dimension \ {"goal"} = {"constraints", "context", "criteria"}
            /\ Dimension \ {"constraints"} = {"goal", "context", "criteria"}
            /\ Dimension \ {"context"} = {"constraints", "goal", "criteria"}
            /\ Dimension \ {"criteria"} = {"constraints", "context", "goal"}
        BY DEF Dimension
      <3>2. /\ "goal" \in Dimension /\ "constraints" \in Dimension
            /\ "context" \in Dimension /\ "criteria" \in Dimension
        BY DEF Dimension
      <3>3. \A x \in Dimension : x \in {"goal", "constraints", "context", "criteria"}
        BY DEF Dimension
      <3> QED BY <1>13, <3>1, <3>2, <3>3
    <2>2. Dimension # {} /\ Dimension \in SUBSET Dimension BY DEF Dimension
    <2> QED BY <1>10, <2>1, <2>2
  <1>15. total[Dimension] = AllParts(type, clarity)
    <2>1. \A d \in Dimension : some(Dimension, d) = part(d) BY DEF some
    <2>2. total[Dimension] = some(Dimension, "goal") + some(Dimension, "constraints")
                               + some(Dimension, "criteria") + some(Dimension, "context")
      BY DEF total
    <2>3. AllParts(type, clarity) = part("goal") + part("constraints") + part("criteria")
                                   + part("context")
      BY DEF AllParts, part
    <2> HIDE DEF some
    <2> QED BY <2>1, <2>2, <2>3 DEF Dimension
  <1> HIDE DEF Sum, some
  <1>16. ComputeAmbiguity(clarity, type) = Points - AllParts(type, clarity)
    BY <1>7, <1>14, <1>15
  <1> HIDE DEF Sum, some
  <1>17. Points \in Nat BY DEF Points
  <1> QED BY <1>2, <1>16, <1>17

\* What the Lead hands in, scored.
LEMMA SpecScored ==
  ASSUME NEW spec \in Briefs
  PROVE  /\ Scores(spec) \in [DOMAIN Scores(spec) -> Clarity]
         /\ DOMAIN Scores(spec) # {}
         /\ DOMAIN Scores(spec) \subseteq Component \cup {WholeSpec}
         /\ spec.entities \subseteq Seq(Entity)
  <1>1. /\ [spec EXCEPT !.entities = {}] \in Brief(spec.topology)
        /\ spec.entities \subseteq Seq(Entity) /\ DOMAIN spec.topology \subseteq Component
        /\ spec.topology \in [DOMAIN spec.topology -> Clarity]
    BY InterviewAssumption DEF InterviewAssumption
  <1>2. spec.own \in Clarity
    <2>1. [spec EXCEPT !.entities = {}].own \in Clarity BY <1>1 DEF Brief
    <2>2. "own" \in DOMAIN [spec EXCEPT !.entities = {}] BY <1>1 DEF Brief
    <2>3. DOMAIN [spec EXCEPT !.entities = {}] = DOMAIN spec OBVIOUS
    <2>4. [spec EXCEPT !.entities = {}].own = spec.own BY <2>2, <2>3
    <2> QED BY <2>1, <2>4
  <1>3. CASE spec.topology = <<>>
    <2>1. Scores(spec) = [c \in {WholeSpec} |-> spec.own] BY <1>3 DEF Scores
    <2> QED BY <1>1, <1>2, <2>1
  <1>4. CASE spec.topology # <<>>
    <2>1. Scores(spec) = spec.topology BY <1>4 DEF Scores
    <2> DEFINE t == spec.topology
    <2>2. DOMAIN t # {}
      <3>1. t = [x \in DOMAIN t |-> t[x]] BY <1>1
      <3>2. [x \in {} |-> t[x]] = <<>> OBVIOUS
      <3> HIDE DEF t
      <3>3. ASSUME DOMAIN t = {} PROVE FALSE
        <4>1. t = [x \in {} |-> t[x]] BY <3>1, <3>3
        <4>2. t = <<>> BY <3>2, <4>1, Zenon
        <4> QED BY <1>4, <4>2 DEF t
      <3> QED BY <3>3
    <2> QED BY <1>1, <2>1, <2>2
  <1> QED BY <1>3, <1>4

LEMMA AmbiguityTyped ==
  ASSUME NEW spec \in Briefs, NEW type \in {"greenfield", "brownfield"}
  PROVE  Ambiguity(spec, type) \in 0 .. Points
  <1> DEFINE S == Ambiguities(spec, type)
  <1>1. S \subseteq 0 .. Points /\ S # {}
    BY SpecScored, AmbiguityBounded DEF Ambiguities
  <1>2. Points \in Nat BY DEF Points
  <1>3. S \in SUBSET Int /\ Points \in Int /\ \A x \in S : x <= Points BY <1>1, <1>2
  <1> HIDE DEF S
  <1>4. Max(S) \in S BY <1>1, <1>3, MaxIsThere
  <1> QED BY <1>1, <1>4 DEF Ambiguity, S

Pair == [score : 0 .. 100, component : Component \cup {WholeSpec}, dimension : Dimension]

\* Pairs are ordered: by score, component and dimension.
LEMMA SoonestIsThere ==
  ASSUME NEW pairs \in SUBSET Pair, pairs # {}
  PROVE  Soonest(pairs) \in pairs
  <1>0. \A p \in pairs : /\ p.score \in Nat /\ p.component + 1 \in Nat /\ p.component \in Int
                         /\ p.dimension \in Dimension /\ Ordinal(p.dimension) \in Nat
    <2> TAKE p \in pairs
    <2>1. p \in Pair OBVIOUS
    <2>2. p.score \in Nat /\ p.dimension \in Dimension BY <2>1 DEF Pair
    <2>3. p.component \in Component \cup {WholeSpec} BY <2>1 DEF Pair
    <2>4. p.component + 1 \in Nat /\ p.component \in Int
      BY <2>3, InterviewAssumption DEF InterviewAssumption, WholeSpec
    <2> QED BY <2>2, <2>4 DEF Dimension, Ordinal
  <1>1. PICK p1 \in pairs : \A q \in pairs : p1.score <= q.score
    <2> DEFINE S == {p.score : p \in pairs}
    <2>1. S \in SUBSET Nat /\ S # {} BY <1>0
    <2> HIDE DEF S
    <2>2. PICK n \in S : \A m \in S : n <= m BY <2>1, LeastIsThere
    <2> QED BY <2>2 DEF S
  <1> DEFINE second == {p \in pairs : p.score = p1.score}
  <1>2. PICK p2 \in second : \A q \in second : p2.component <= q.component
    <2> DEFINE S == {p.component + 1 : p \in second}
    <2>1. S \in SUBSET Nat /\ S # {} BY <1>0
    <2> HIDE DEF S
    <2>2. PICK n \in S : \A m \in S : n <= m BY <2>1, LeastIsThere
    <2>3. PICK p2 \in second : n = p2.component + 1 BY <2>2 DEF S
    <2>4. \A q \in second : q.component + 1 \in S BY DEF S
    <2>5. \A q \in second : p2.component + 1 <= q.component + 1 BY <2>2, <2>3, <2>4
    <2>6. \A q \in second : p2.component <= q.component BY <1>0, <2>5
    <2> QED BY <2>6
  <1> DEFINE third == {p \in second : p.component = p2.component}
  <1>3. PICK p3 \in third : \A q \in third : Ordinal(p3.dimension) <= Ordinal(q.dimension)
    <2> DEFINE S == {Ordinal(p.dimension) : p \in third}
    <2>1. S \in SUBSET Nat /\ S # {} BY <1>0
    <2> HIDE DEF S
    <2>2. PICK n \in S : \A m \in S : n <= m BY <2>1, LeastIsThere
    <2>3. PICK p3 \in third : n = Ordinal(p3.dimension) BY <2>2 DEF S
    <2>4. \A q \in third : Ordinal(q.dimension) \in S BY DEF S
    <2> QED BY <2>2, <2>3, <2>4
  <1>4. ASSUME NEW q \in pairs, q # p3 PROVE Sooner(p3, q)
    <2>1. p3.score = p1.score /\ p3.component = p2.component /\ p3 \in pairs OBVIOUS
    <2>2. CASE q.score # p1.score
      <3>1. p1.score < q.score BY <1>0, <1>1, <2>2
      <3> QED BY <2>1, <3>1 DEF Sooner
    <2>3. CASE q.score = p1.score /\ q.component # p2.component
      <3>1. p2.component < q.component BY <1>0, <1>2, <2>3
      <3> QED BY <2>1, <2>3, <3>1 DEF Sooner
    <2>4. CASE q.score = p1.score /\ q.component = p2.component
      <3>1. q.dimension # p3.dimension
        <4>1. q \in Pair /\ p3 \in Pair BY <2>1
        <4>2. /\ q = [score |-> q.score, component |-> q.component, dimension |-> q.dimension]
              /\ p3 = [score |-> p3.score, component |-> p3.component,
                       dimension |-> p3.dimension]
          BY <4>1 DEF Pair
        <4> QED BY <1>4, <2>1, <2>4, <4>2
      <3>2. \A d, e \in Dimension : Ordinal(d) = Ordinal(e) => d = e
        BY DEF Dimension, Ordinal
      <3>3. Ordinal(p3.dimension) <= Ordinal(q.dimension) BY <1>3, <2>4
      <3>4. Ordinal(p3.dimension) < Ordinal(q.dimension) BY <1>0, <2>1, <3>1, <3>2, <3>3
      <3> QED BY <2>1, <2>4, <3>4 DEF Sooner
    <2> QED BY <2>2, <2>3, <2>4
  <1>5. p3 \in pairs /\ \A q \in pairs \ {p3} : Sooner(p3, q) BY <1>4
  <1> HIDE DEF second, third
  <1> QED BY <1>5 DEF Soonest

\* The question is about something that is scored.
LEMMA WeakestIsScored ==
  ASSUME NEW spec \in Briefs, NEW s
  PROVE  Weakest(spec, s).component \in Component \cup {WholeSpec}
  <1> DEFINE pairs == Pairs(spec, s.type)
             others == {p \in pairs : p.score <= Soonest(pairs).score + 5 /\ p.component # s.last}
  <1>1. pairs \subseteq Pair /\ pairs # {}
    <2>1. \A c \in DOMAIN Scores(spec) : \A d \in Dimension : Scores(spec)[c][d] \in 0 .. 100
      BY SpecScored DEF Clarity
    <2>2. pairs \subseteq Pair
      <3> SUFFICES ASSUME NEW p \in pairs PROVE p \in Pair OBVIOUS
      <3>1. PICK c \in DOMAIN Scores(spec), d \in Dimension :
              p = [score |-> Scores(spec)[c][d], component |-> c, dimension |-> d]
        BY DEF Pairs
      <3> QED BY <2>1, <3>1, SpecScored DEF Pair
    <2>3. PICK c \in DOMAIN Scores(spec) : TRUE BY SpecScored
    <2>4. "goal" \in Dimension \ {"context"} BY DEF Dimension
    <2>5. [score |-> Scores(spec)[c]["goal"], component |-> c, dimension |-> "goal"] \in pairs
      BY <2>3, <2>4 DEF Pairs
    <2> QED BY <2>2, <2>5
  <1> HIDE DEF pairs
  <1>2. Soonest(pairs) \in pairs BY <1>1, SoonestIsThere
  <1>3. others # {} => Soonest(others) \in others BY <1>1, SoonestIsThere
  <1>4. Weakest(spec, s) \in {Soonest(pairs), Soonest(others)} /\ Weakest(spec, s) \in pairs
    BY <1>2, <1>3 DEF Weakest, pairs
  <1> QED BY <1>1, <1>4 DEF Pair

NoneMatched == [taken |-> {}, stable |-> 0, changed |-> 0, new |-> 0]

\* What the fold over the entities reaches at a set of their places.
Matching(previous, current, f, s) ==
  IF s = {} THEN NoneMatched
  ELSE MatchEntity(previous, f[s \ {Max(s)}], current[Max(s)])

\* The last of some of the first k numbers.
LEMMA LastOfSome ==
  ASSUME NEW k \in Nat, NEW s \in SUBSET (1 .. k), s # {}
  PROVE  /\ Max(s) \in s
         /\ s \ {Max(s)} \in SUBSET (1 .. k - 1)
         /\ k \in s => Max(s) = k
  <1>1. s \in SUBSET Int /\ k \in Int /\ \A x \in s : x <= k OBVIOUS
  <1>2. Max(s) \in s /\ \A x \in s : x <= Max(s) BY <1>1, MaxIsThere
  <1> DEFINE m == Max(s)
  <1>3. m \in s /\ \A x \in s : x <= m BY <1>2
  <1> HIDE DEF m
  <1>4. s \ {m} \in SUBSET (1 .. k - 1)
    <2> SUFFICES ASSUME NEW x \in s \ {m} PROVE x \in 1 .. k - 1 OBVIOUS
    <2>1. x \in 1 .. k /\ m \in 1 .. k /\ x <= m /\ x # m BY <1>3
    <2> QED BY <2>1
  <1>5. k \in s => m = k
    <2> HAVE k \in s
    <2>1. k <= m /\ m \in 1 .. k BY <1>3
    <2> QED BY <2>1
  <1> QED BY <1>3, <1>4, <1>5 DEF m

\* The fold is a function: one entity more extends it.
LEMMA FoldIsThere ==
  ASSUME NEW previous, NEW current, NEW n \in Nat
  PROVE  \E f : f = [s \in SUBSET (1 .. n) |-> Matching(previous, current, f, s)]
  <1> DEFINE Fold(f, k) == [s \in SUBSET (1 .. k) |-> Matching(previous, current, f, s)]
             Bad == {k \in Nat : ~ \E f : f = Fold(f, k)}
  <1>1. ASSUME Bad # {} PROVE FALSE
    <2>1. PICK k \in Bad : \A m \in Bad : k <= m BY <1>1, LeastIsThere
    <2>2. CASE k = 0
      <3> DEFINE f == [s \in SUBSET (1 .. 0) |-> NoneMatched]
      <3>1. \A s \in SUBSET (1 .. 0) : s = {} OBVIOUS
      <3>2. f = [s \in SUBSET (1 .. 0) |-> Matching(previous, current, f, s)]
        BY <3>1 DEF Matching
      <3> HIDE DEF f
      <3>3. f = Fold(f, k) BY <2>2, <3>2
      <3> QED BY <2>1, <3>3
    <2>3. CASE k # 0
      <3>1. k - 1 \in Nat /\ k \in Nat /\ ~ (k <= k - 1) BY <2>1, <2>3
      <3>2. k - 1 \notin Bad BY <2>1, <3>1
      <3>3. PICK g : g = Fold(g, k - 1) BY <3>1, <3>2
      <3> DEFINE f == [s \in SUBSET (1 .. k) |->
                         IF s \in SUBSET (1 .. k - 1) THEN g[s]
                         ELSE MatchEntity(previous, g[s \ {k}], current[k])]
      <3>4. \A s \in SUBSET (1 .. k - 1) : /\ g[s] = Matching(previous, current, g, s)
                                          /\ s \in SUBSET (1 .. k)
                                          /\ f[s] = g[s]
        <4>1. \A s \in SUBSET (1 .. k - 1) : g[s] = Fold(g, k - 1)[s] BY <3>3, Zenon
        <4>2. 1 .. k - 1 \subseteq 1 .. k BY <3>1
        <4> QED BY <4>1, <4>2
      <3>5. ASSUME NEW s \in SUBSET (1 .. k) PROVE f[s] = Matching(previous, current, f, s)
        <4>1. CASE s = {}
          <5>1. s \in SUBSET (1 .. k - 1) BY <4>1
          <5>2. f[s] = g[s] /\ g[s] = Matching(previous, current, g, s) BY <3>4, <5>1
          <5> HIDE DEF f
          <5> QED BY <4>1, <5>2 DEF Matching
        <4>2. CASE s # {}
          <5>3. Max(s) \in s /\ s \ {Max(s)} \in SUBSET (1 .. k - 1) /\ (k \in s => Max(s) = k)
            BY <3>1, <4>2, LastOfSome
          <5>4. f[s \ {Max(s)}] = g[s \ {Max(s)}] BY <3>4, <5>3
          <5>5. CASE s \in SUBSET (1 .. k - 1)
            <6>1. f[s] = Matching(previous, current, g, s) BY <3>4, <5>5
            <6> HIDE DEF f
            <6> QED BY <4>2, <5>4, <6>1 DEF Matching
          <5>6. CASE s \notin SUBSET (1 .. k - 1)
            <6>1. k \in s
              <7>1. \A x \in 1 .. k : x # k => x \in 1 .. k - 1 BY <3>1
              <7> QED BY <5>6, <7>1
            <6>3. Max(s) = k BY <5>3, <6>1
            <6>4. f[s] = MatchEntity(previous, g[s \ {k}], current[k]) BY <5>6
            <6> HIDE DEF f
            <6> QED BY <4>2, <5>4, <6>3, <6>4 DEF Matching
          <5> QED BY <5>5, <5>6
        <4> QED BY <4>1, <4>2
      <3>6. f = [s \in SUBSET (1 .. k) |-> f[s]] OBVIOUS
      <3> HIDE DEF f
      <3>7. f = Fold(f, k) BY <3>5, <3>6
      <3> QED BY <2>1, <3>7
    <2> QED BY <2>2, <2>3
  <1>2. n \notin Bad BY <1>1
  <1> QED BY <1>2

-----------------------------------------------------------------------------
(* The closest entity: the largest of finitely many fractions. *)

LEMMA Grows ==
  ASSUME NEW x \in Nat, NEW y \in Nat, NEW c \in Nat, x >= y
  PROVE  x * c >= y * c
  <1>1. PICK d \in Nat : x = y + d
    <2>1. x - y \in Nat /\ x = y + (x - y) OBVIOUS
    <2> QED BY <2>1
  <1>2. x * c = y * c + d * c BY <1>1
  <1>3. d * c \in Nat /\ y * c \in Nat OBVIOUS
  <1> QED BY <1>2, <1>3

LEMMA Cancels ==
  ASSUME NEW x \in Nat, NEW y \in Nat, NEW c \in Nat \ {0}, x * c >= y * c
  PROVE  x >= y
  <1> SUFFICES ASSUME ~(x >= y) PROVE FALSE OBVIOUS
  <1>1. y >= x + 1 BY SMT
  <1>2. y * c >= (x + 1) * c BY <1>1, Grows
  <1>3. (x + 1) * c = x * c + c BY SMT
  <1>4. x * c \in Nat /\ y * c \in Nat BY SMT
  <1> QED BY <1>2, <1>3, <1>4

\* a1/w1 >= a2/w2 >= a3/w3
LEMMA Fractions ==
  ASSUME NEW a1 \in Nat, NEW a2 \in Nat, NEW a3 \in Nat, NEW w1 \in Nat \ {0},
         NEW w2 \in Nat \ {0}, NEW w3 \in Nat \ {0}, a1 * w2 >= a2 * w1, a2 * w3 >= a3 * w2
  PROVE  a1 * w3 >= a3 * w1
  <1>1. a1 * w2 \in Nat /\ a2 * w1 \in Nat /\ a2 * w3 \in Nat /\ a3 * w2 \in Nat
        /\ a1 * w3 \in Nat /\ a3 * w1 \in Nat
    BY SMT
  <1>2. (a1 * w2) * w3 >= (a2 * w1) * w3 BY <1>1, Grows
  <1>3. (a2 * w3) * w1 >= (a3 * w2) * w1 BY <1>1, Grows
  <1>4. (a2 * w1) * w3 = (a2 * w3) * w1 BY SMT
  <1>5. (a1 * w2) * w3 = (a1 * w3) * w2 /\ (a3 * w2) * w1 = (a3 * w1) * w2 BY SMT
  <1>6. (a1 * w3) * w2 >= (a3 * w1) * w2
    <2>1. (a1 * w2) * w3 \in Nat /\ (a2 * w1) * w3 \in Nat /\ (a3 * w2) * w1 \in Nat
      BY <1>1, SMT
    <2> QED BY <1>2, <1>3, <1>4, <1>5, <2>1
  <1> QED BY <1>1, <1>6, Cancels

LEMMA LargestFraction ==
  ASSUME NEW n \in Nat, NEW K \in SUBSET (1 .. n), K # {}, NEW a \in [K -> Nat],
         NEW w \in [K -> Nat \ {0}]
  PROVE  \E i \in K : \A j \in K : a[i] * w[j] >= a[j] * w[i]
  <1> DEFINE Prior(k) == K \cap (1 .. k)
             Best(i, k) == \A j \in Prior(k) : a[i] * w[j] >= a[j] * w[i]
             Bad == {k \in Nat : Prior(k) # {} /\ ~ \E i \in Prior(k) : Best(i, k)}
  <1>1. ASSUME Bad # {} PROVE FALSE
    <2>1. PICK k \in Bad : \A m \in Bad : k <= m BY <1>1, LeastIsThere
    <2>2. k # 0
      <3>1. 1 .. 0 = {} OBVIOUS
      <3> QED BY <2>1, <3>1
    <2>3. k - 1 \in Nat /\ k \in Nat \ {0} /\ ~ (k <= k - 1) BY <2>1, <2>2
    <2>4. k - 1 \notin Bad BY <2>1, <2>3
    <2>5. 1 .. k = (1 .. k - 1) \cup {k} BY <2>3
    <2>6. k \in K
      <3>1. ASSUME k \notin K PROVE FALSE
        <4>1. Prior(k) = Prior(k - 1) BY <2>5, <3>1
        <4> HIDE DEF Prior
        <4> QED BY <2>1, <2>3, <2>4, <4>1
      <3> QED BY <3>1
    <2>7. Prior(k) = Prior(k - 1) \cup {k} BY <2>5, <2>6
    <2>8. a[k] * w[k] >= a[k] * w[k]
      <3>1. a[k] \in Nat /\ w[k] \in Nat BY <2>6
      <3> QED BY <3>1, SMT
    <2>9. CASE Prior(k - 1) = {}
      <3>1. k \in Prior(k) /\ Best(k, k) BY <2>7, <2>8, <2>9
      <3> QED BY <2>1, <3>1
    <2>10. CASE Prior(k - 1) # {}
      <3>1. PICK i \in Prior(k - 1) : Best(i, k - 1) BY <2>3, <2>4, <2>10
      <3>2. /\ a[i] \in Nat /\ w[i] \in Nat \ {0} /\ a[k] \in Nat /\ w[k] \in Nat \ {0}
            /\ \A j \in Prior(k - 1) : a[j] \in Nat /\ w[j] \in Nat \ {0}
        BY <2>6, <3>1
      <3>3. CASE a[i] * w[k] >= a[k] * w[i]
        <4>1. i \in Prior(k) /\ Best(i, k) BY <2>7, <3>1, <3>3
        <4> QED BY <2>1, <4>1
      <3>4. CASE ~ (a[i] * w[k] >= a[k] * w[i])
        <4>1. a[k] * w[i] >= a[i] * w[k]
          <5>1. a[k] * w[i] \in Nat /\ a[i] * w[k] \in Nat BY <3>2, SMT
          <5> QED BY <3>4, <5>1
        <4>2. ASSUME NEW j \in Prior(k - 1) PROVE a[k] * w[j] >= a[j] * w[k]
          <5>1. a[i] * w[j] >= a[j] * w[i] BY <3>1
          <5>2. a[j] \in Nat /\ w[j] \in Nat \ {0} BY <3>2
          <5> QED BY <3>2, <4>1, <5>1, <5>2, Fractions
        <4>3. k \in Prior(k) /\ Best(k, k) BY <2>7, <2>8, <4>2
        <4> QED BY <2>1, <4>3
      <3> QED BY <3>3, <3>4
    <2> QED BY <2>9, <2>10
  <1>2. n \notin Bad BY <1>1
  <1>3. Prior(n) = K OBVIOUS
  <1> HIDE DEF Prior
  <1> QED BY <1>2, <1>3

\* What the fold has reached after k entities.
Matched(previous, k) ==
  {m \in [taken : SUBSET DOMAIN previous, stable : Nat, changed : Nat, new : Nat] :
     m.stable + m.changed + m.new = k}

LEMMA FieldsCounted ==
  ASSUME NEW e \in Entity, NEW f \in Entity
  PROVE  Shared(e, f) \in Nat /\ Widest(e, f) \in Nat \ {0}
  <1>1. e.fields \in SUBSET Field /\ f.fields \in SUBSET Field BY DEF Entity
  <1>2. /\ IsFiniteSet(e.fields) /\ IsFiniteSet(f.fields) /\ IsFiniteSet(e.fields \cap f.fields)
    <2>1. e.fields \cap f.fields \in SUBSET Field BY <1>1
    <2> QED BY <1>1, <2>1, FS_Subset, InterviewAssumption DEF InterviewAssumption
  <1>3. Shared(e, f) \in Nat BY <1>2, FS_CardinalityType DEF Shared
  <1> DEFINE a == Cardinality(e.fields)
             b == Cardinality(f.fields)
             S == {a, b, 1}
  <1>4. a \in Nat /\ b \in Nat BY <1>2, FS_CardinalityType
  <1>7. Widest(e, f) = Max(S) BY DEF Widest
  <1> HIDE DEF a, b
  <1>5. PICK top \in Int : /\ S \in SUBSET Int /\ S # {} /\ 1 \in S
                          /\ \A x \in S : x \in Nat /\ x <= top
    <2>1. a + b + 1 \in Int /\ \A x \in S : x \in Nat /\ x <= a + b + 1 BY <1>4
    <2> QED BY <2>1
  <1> HIDE DEF S
  <1>6. Max(S) \in S /\ \A x \in S : x <= Max(S) BY <1>5, MaxIsThere
  <1> DEFINE widest == Max(S)
  <1>8. widest \in Nat /\ 1 <= widest BY <1>5, <1>6
  <1> HIDE DEF widest
  <1>9. widest \in Nat \ {0} BY <1>8
  <1>10. Widest(e, f) \in Nat \ {0} BY <1>7, <1>9 DEF widest
  <1> QED BY <1>3, <1>10

LEMMA MatchTyped ==
  ASSUME NEW previous \in Seq(Entity), NEW e \in Entity, NEW k \in Nat,
         NEW m \in Matched(previous, k)
  PROVE  MatchEntity(previous, m, e) \in Matched(previous, k + 1)
  <1> DEFINE n == Len(previous)
             free == DOMAIN previous \ m.taken
             named == {i \in free : previous[i].name = e.name}
             kin == {i \in free : /\ previous[i].type = e.type
                                  /\ 2 * Shared(previous[i], e) > Widest(previous[i], e)}
             closest == {i \in kin : \A j \in kin :
                           Shared(previous[i], e) * Widest(previous[j], e)
                             >= Shared(previous[j], e) * Widest(previous[i], e)}
  <1>1. n \in Nat /\ DOMAIN previous = 1 .. n /\ \A i \in 1 .. n : previous[i] \in Entity
    BY LenProperties
  <1>2. named \in SUBSET (1 .. n) /\ kin \in SUBSET (1 .. n) /\ closest \in SUBSET kin
    BY <1>1
  <1>3. kin # {} => closest # {}
    <2> HAVE kin # {}
    <2> DEFINE a == [i \in kin |-> Shared(previous[i], e)]
               w == [i \in kin |-> Widest(previous[i], e)]
    <2>1. a \in [kin -> Nat] /\ w \in [kin -> Nat \ {0}] BY <1>1, <1>2, FieldsCounted
    <2> HIDE DEF a, w, kin
    <2>2. PICK i \in kin : \A j \in kin : a[i] * w[j] >= a[j] * w[i]
      BY <1>1, <1>2, <2>1, LargestFraction
    <2>3. \A j \in kin : a[j] = Shared(previous[j], e) /\ w[j] = Widest(previous[j], e)
      BY DEF a, w
    <2>4. i \in closest BY <2>2, <2>3
    <2> QED BY <2>4
  <1>4. \A S \in SUBSET (1 .. n) : S # {} => Min(S) \in 1 .. n
    <2> TAKE S \in SUBSET (1 .. n)
    <2>1. S \in SUBSET Nat OBVIOUS
    <2>2. S # {} => Min(S) \in S BY <2>1, MinIsThere
    <2> QED BY <2>2
  <1>5. m \in [taken : SUBSET (1 .. n), stable : Nat, changed : Nat, new : Nat]
        /\ m.stable + m.changed + m.new = k
    BY <1>1 DEF Matched
  <1>6. MatchEntity(previous, m, e) =
          IF named # {}
          THEN [m EXCEPT !.taken = m.taken \cup {Min(named)}, !.stable = m.stable + 1]
          ELSE IF kin # {}
               THEN [m EXCEPT !.taken = m.taken \cup {Min(closest)}, !.changed = m.changed + 1]
               ELSE [m EXCEPT !.new = m.new + 1]
    BY DEF MatchEntity
  <1>7. closest \in SUBSET (1 .. n) BY <1>2
  <1> HIDE DEF named, kin, closest, free
  <1>11. ASSUME NEW t \in SUBSET (1 .. n), NEW st \in Nat, NEW ch \in Nat, NEW nw \in Nat,
                st + ch + nw = k + 1
         PROVE  [taken |-> t, stable |-> st, changed |-> ch, new |-> nw]
                  \in Matched(previous, k + 1)
    BY <1>1, <1>11 DEF Matched
  <1>12. /\ m.taken \in SUBSET (1 .. n) /\ m.stable \in Nat /\ m.changed \in Nat /\ m.new \in Nat
         /\ m.stable + 1 \in Nat /\ m.changed + 1 \in Nat /\ m.new + 1 \in Nat
         /\ m.stable + 1 + m.changed + m.new = k + 1
         /\ m.stable + (m.changed + 1) + m.new = k + 1
         /\ m.stable + m.changed + (m.new + 1) = k + 1
    BY <1>5
  <1>8. CASE named # {}
    <2>1. m.taken \cup {Min(named)} \in SUBSET (1 .. n) BY <1>2, <1>4, <1>8, <1>12
    <2>2. MatchEntity(previous, m, e) =
            [taken |-> m.taken \cup {Min(named)}, stable |-> m.stable + 1,
             changed |-> m.changed, new |-> m.new]
      BY <1>5, <1>6, <1>8
    <2> QED BY <1>11, <1>12, <2>1, <2>2
  <1>9. CASE named = {} /\ kin # {}
    <2>1. m.taken \cup {Min(closest)} \in SUBSET (1 .. n) BY <1>3, <1>4, <1>7, <1>9, <1>12
    <2>2. MatchEntity(previous, m, e) =
            [taken |-> m.taken \cup {Min(closest)}, stable |-> m.stable,
             changed |-> m.changed + 1, new |-> m.new]
      BY <1>5, <1>6, <1>9
    <2> QED BY <1>11, <1>12, <2>1, <2>2
  <1>10. CASE named = {} /\ kin = {}
    <2>1. MatchEntity(previous, m, e) =
            [taken |-> m.taken, stable |-> m.stable, changed |-> m.changed, new |-> m.new + 1]
      BY <1>5, <1>6, <1>10
    <2> QED BY <1>11, <1>12, <2>1
  <1> QED BY <1>8, <1>9, <1>10

\* Every entity is counted once, and no more are gone than there were.
LEMMA EntitiesCounted ==
  ASSUME NEW before, before.entities \in Seq(Entity), before.some \in BOOLEAN,
         NEW current \in Seq(Entity)
  PROVE  LET o == ComputeOntologySnapshot(before, current)
         IN  /\ o \in [some : BOOLEAN, entities : Seq(Entity), settled : BOOLEAN, stable : Nat,
                       changed : Nat, new : Nat, removed : Nat]
             /\ o.stable + o.changed + o.new = Len(o.entities)
  <1> DEFINE previous == before.entities
             n == Len(current)
             Fold(f) == [s \in SUBSET (1 .. n) |-> Matching(previous, current, f, s)]
             iter == CHOOSE f : f = Fold(f)
             m == iter[1 .. n]
  <1>1. n \in Nat /\ DOMAIN current = 1 .. n /\ \A i \in 1 .. n : current[i] \in Entity
    BY LenProperties
  <1>2. FoldLeft(LAMBDA acc, e : MatchEntity(previous, acc, e),
                 [taken |-> {}, stable |-> 0, changed |-> 0, new |-> 0], current) = m
    BY <1>1 DEF FoldLeft, MapThenFoldSet, Matching, NoneMatched
  <1>3. ComputeOntologySnapshot(before, current) =
          [some |-> TRUE, entities |-> current,
           settled |-> before.some /\ current # <<>>, stable |-> m.stable,
           changed |-> m.changed, new |-> m.new,
           removed |-> Len(previous) - Cardinality(m.taken)]
    <2> HIDE DEF m
    <2> QED BY <1>2 DEF ComputeOntologySnapshot
  <1>4. iter = Fold(iter) BY <1>1, FoldIsThere
  <1> DEFINE Bad == {k \in Nat : k <= n /\ iter[1 .. k] \notin Matched(previous, k)}
  <1> HIDE DEF iter
  <1>5. ASSUME Bad # {} PROVE FALSE
    <2>1. PICK k \in Bad : \A j \in Bad : k <= j BY <1>5, LeastIsThere
    <2>2. k \in Nat /\ k <= n /\ 1 .. k \in SUBSET (1 .. n) BY <1>1, <2>1
    <2>3. iter[1 .. k] = Matching(previous, current, iter, 1 .. k) BY <1>4, <2>2
    <2>4. CASE k = 0
      <3>1. 1 .. k = {} BY <2>4
      <3>2. iter[1 .. k] = NoneMatched BY <2>3, <3>1 DEF Matching
      <3>3. NoneMatched \in Matched(previous, 0) BY DEF NoneMatched, Matched
      <3> QED BY <2>1, <2>4, <3>2, <3>3
    <2>5. CASE k # 0
      <3>1. k \in Nat \ {0} /\ k - 1 \in Nat /\ k - 1 <= n /\ ~ (k <= k - 1) /\ k \in 1 .. n
            /\ k - 1 + 1 = k /\ 1 .. k # {}
        BY <1>1, <2>2, <2>5
      <3>2. iter[1 .. k - 1] \in Matched(previous, k - 1) BY <2>1, <3>1
      <3>3. Max(1 .. k) = k /\ (1 .. k) \ {k} = 1 .. k - 1 BY <3>1, MaxOfFirst
      <3>4. iter[1 .. k] = MatchEntity(previous, iter[1 .. k - 1], current[k])
        BY <2>3, <3>1, <3>3 DEF Matching
      <3>5. MatchEntity(previous, iter[1 .. k - 1], current[k]) \in Matched(previous, k - 1 + 1)
        BY <1>1, <3>1, <3>2, MatchTyped
      <3> QED BY <2>1, <3>1, <3>4, <3>5
    <2> QED BY <2>4, <2>5
  <1>6. m \in Matched(previous, n)
    <2>1. n \notin Bad /\ n <= n BY <1>1, <1>5
    <2> QED BY <1>1, <2>1
  <1> HIDE DEF m
  <1>7. /\ m.taken \in SUBSET DOMAIN previous /\ m.stable \in Nat /\ m.changed \in Nat
        /\ m.new \in Nat /\ m.stable + m.changed + m.new = n
    BY <1>6 DEF Matched
  <1>8. Len(previous) - Cardinality(m.taken) \in Nat
    <2>1. Len(previous) \in Nat /\ DOMAIN previous = 1 .. Len(previous) BY LenProperties
    <2>2. /\ IsFiniteSet(1 .. Len(previous))
          /\ Cardinality(1 .. Len(previous)) = Len(previous)
      BY <2>1, FS_Interval
    <2>3. IsFiniteSet(m.taken) /\ Cardinality(m.taken) <= Len(previous)
      BY <1>7, <2>1, <2>2, FS_Subset
    <2>4. Cardinality(m.taken) \in Nat BY <2>3, FS_CardinalityType
    <2> QED BY <2>1, <2>3, <2>4
  <1> QED BY <1>3, <1>7, <1>8

Ontology ==
  [some : BOOLEAN, entities : Seq(Entity), settled : BOOLEAN, stable : Nat, changed : Nat,
   new : Nat, removed : Nat]

\* What is asked is scored, and what is recorded of it has its type.
InterviewFields ==
  /\ interview.type \in {"greenfield", "brownfield"}
  /\ interview.threshold \in 0 .. Points
  /\ interview.active \subseteq Component
  /\ interview.last \in Component \cup {None, WholeSpec}
  /\ interview.roundCount <= RoundBound
  /\ interview.recent \in Seq(0 .. Points) /\ Len(interview.recent) <= 3
  /\ interview.used \subseteq Challenge
  /\ interview.status \in {StatusOf[k] : k \in DOMAIN StatusOf}

QuestionFields ==
  /\ asked.round \in 0 .. MaxRounds
  /\ asked # NoQuestion => /\ asked.component \in Component \cup {WholeSpec}
                           /\ asked.mode \in Challenge \cup {"none"}

EntitiesCount ==
  LET o == interview.ontology
  IN  o \in Ontology /\ o.stable + o.changed + o.new = Len(o.entities)

Noted == InterviewFields /\ QuestionFields /\ EntitiesCount

LEMMA NoneCounted ==
  NoSnapshots \in Ontology
  /\ NoSnapshots.stable + NoSnapshots.changed + NoSnapshots.new = Len(NoSnapshots.entities)
  BY EmptySeq DEF NoSnapshots, Ontology

LEMMA NotedStarts ==
  ASSUME InterviewInit PROVE Noted
  <1>1. PICK idea \in Ideas :
       interview =
         [type |-> idea.type, threshold |-> ResolveThreshold(idea.project, idea.user),
          context |-> idea.context, status |-> "interview-active",
          expected |-> IF idea.type = "brownfield" /\ idea.context = {}
                       THEN "scout-repository" ELSE "round-0-topology",
          exit |-> "none", confirmed |-> FALSE, active |-> {}, last |-> None,
          roundCount |-> 0, recent |-> <<>>, misnumbered |-> FALSE,
          used |-> {}, warned |-> FALSE, ontology |-> NoSnapshots]
    BY DEF InterviewInit
  <1>2. idea \in Idea BY InterviewAssumption DEF InterviewAssumption
  <1>3. ResolveThreshold(idea.project, idea.user) \in 0 .. Points
    BY DEF ResolveThreshold, Points, DefaultThreshold
  <1>4. "interview-active" \in {StatusOf[k] : k \in DOMAIN StatusOf}
    <2>1. "continue" \in DOMAIN StatusOf /\ StatusOf["continue"] = "interview-active"
      BY DEF StatusOf
    <2> QED BY <2>1
  <1>5. <<>> \in Seq(0 .. Points) /\ Len(<<>>) <= 3 BY EmptySeq
  <1>6. RoundBound \in Nat /\ MaxRounds \in Nat BY InterviewAssumption DEF InterviewAssumption
  <1>7. InterviewFields
    <2>1. /\ interview.type = idea.type
          /\ interview.threshold = ResolveThreshold(idea.project, idea.user)
          /\ interview.active = {} /\ interview.last = None /\ interview.roundCount = 0
          /\ interview.recent = <<>> /\ interview.used = {}
          /\ interview.status = "interview-active"
      BY <1>1
    <2>2. idea.type \in {"greenfield", "brownfield"} BY <1>2 DEF Idea
    <2> QED BY <2>1, <2>2, <1>3, <1>4, <1>5, <1>6 DEF InterviewFields
  <1>8. QuestionFields
    BY <1>6 DEF InterviewInit, QuestionFields, NoQuestion
  <1>9. EntitiesCount
    <2>1. interview.ontology = NoSnapshots BY <1>1
    <2> QED BY <2>1, NoneCounted DEF EntitiesCount
  <1> QED BY <1>7, <1>8, <1>9 DEF Noted

LEMMA ScoutNoted ==
  ASSUME InterviewTypes, Noted, NEW context, ApplyScoutEvidence(context)
  PROVE  Noted'
  <1>1. \A k \in Recorded \ {"context", "expected"} : interview'[k] = interview[k]
    BY DEF ApplyScoutEvidence, InterviewTypes, Recorded
  <1>2. UNCHANGED asked BY DEF ApplyScoutEvidence
  <1>3. /\ interview'.type = interview.type /\ interview'.threshold = interview.threshold
        /\ interview'.active = interview.active /\ interview'.last = interview.last
        /\ interview'.roundCount = interview.roundCount /\ interview'.recent = interview.recent
        /\ interview'.used = interview.used /\ interview'.status = interview.status
        /\ interview'.ontology = interview.ontology
    BY <1>1 DEF Recorded
  <1> QED
    BY <1>2, <1>3 DEF Noted, InterviewFields, QuestionFields, EntitiesCount

LEMMA TopologyNoted ==
  ASSUME InterviewTypes, Noted, NEW t \in Topologies,
         ConfirmTopology(t.components, t.deferred)
  PROVE  Noted'
  <1>1. UNCHANGED asked BY DEF ConfirmTopology
  <1>2. /\ interview'.type = interview.type /\ interview'.threshold = interview.threshold
        /\ interview'.active = t.components \ t.deferred /\ interview'.last = None
        /\ interview'.roundCount = interview.roundCount /\ interview'.recent = interview.recent
        /\ interview'.used = interview.used /\ interview'.status = interview.status
        /\ interview'.ontology = interview.ontology
    BY DEF ConfirmTopology, InterviewTypes, Recorded
  <1>3. t.components \subseteq Component BY InterviewAssumption DEF InterviewAssumption
  <1> QED
    BY <1>1, <1>2, <1>3 DEF Noted, InterviewFields, QuestionFields, EntitiesCount

LEMMA QuestionNoted ==
  ASSUME InterviewTypes, Noted, NEW spec \in Briefs, NEW intent, NEW brought,
         Ask(spec, intent, brought), asked'.round <= MaxRounds
  PROVE  Noted'
  <1> DEFINE progress == Progress(interview, ClearEnough(spec, interview), intent)
             weakest == Weakest(spec, interview)
             mode == SelectChallengeMode(interview, Ambiguity(spec, interview.type))
             shifting == Shifting(interview.ontology)
             next == NextQuestion(spec, intent, brought)
  <1>1. /\ next.round = interview.roundCount + 1 /\ next.component = weakest.component
        /\ next.mode = mode
    <2>1. next.kind = "clarity" BY DEF Ask
    <2>2. progress # "clarity" BY DEF Progress
    <2> HIDE DEF progress, mode, weakest, shifting
    <2> QED BY <2>1, <2>2 DEF NextQuestion, progress, mode, weakest, shifting
  <1>2. asked' = next /\ UNCHANGED interview BY DEF Ask
  <1>3. weakest.component \in Component \cup {WholeSpec} BY WeakestIsScored
  <1>4. mode \in Challenge \cup {"none"} BY DEF SelectChallengeMode, Challenge
  <1> HIDE DEF next, mode, weakest
  <1>5. asked'.round \in 0 .. MaxRounds
    BY <1>1, <1>2, InterviewAssumption DEF InterviewAssumption, InterviewTypes
  <1>6. QuestionFields' BY <1>1, <1>2, <1>3, <1>4, <1>5 DEF QuestionFields
  <1> QED BY <1>2, <1>6 DEF Noted, InterviewFields, EntitiesCount

\* The last three ambiguities.
LEMMA RecentKept ==
  ASSUME NEW S, NEW s \in Seq(S), Len(s) <= 3, NEW e \in S
  PROVE  LET r == SubSeq(Append(s, e), IF Len(s) = 3 THEN 2 ELSE 1, Len(s) + 1)
         IN  r \in Seq(S) /\ Len(r) <= 3
  <1> DEFINE t == Append(s, e)
             first == IF Len(s) = 3 THEN 2 ELSE 1
  <1>1. Len(s) \in Nat BY LenProperties
  <1>2. \A i \in first .. Len(s) + 1 : t[i] \in S
    <2>1. t \in Seq(S) /\ Len(t) = Len(s) + 1 BY AppendProperties
    <2>2. \A i \in 1 .. Len(t) : t[i] \in S BY <2>1, ElementOfSeq
    <2>3. \A i \in first .. Len(s) + 1 : i \in 1 .. Len(s) + 1 BY <1>1
    <2> HIDE DEF t, first
    <2> QED BY <2>1, <2>2, <2>3
  <1>3. first \in Int /\ Len(s) + 1 \in Int BY <1>1
  <1>4. Len(s) + 1 - first + 1 <= 3
    <2>1. CASE Len(s) = 3 BY <2>1
    <2>2. CASE Len(s) # 3
      <3>1. first = 1 BY <2>2
      <3> DEFINE n == Len(s)
      <3>2. n \in Nat /\ n <= 3 /\ n # 3 BY <1>1, <2>2
      <3> HIDE DEF n, first
      <3>3. n + 1 - first + 1 <= 3 BY <3>1, <3>2
      <3> QED BY <3>3 DEF n
    <2> QED BY <2>1, <2>2
  <1> HIDE DEF t, first
  <1>5. /\ SubSeq(t, first, Len(s) + 1) \in Seq(S)
        /\ Len(SubSeq(t, first, Len(s) + 1)) =
             IF first <= Len(s) + 1 THEN Len(s) + 1 - first + 1 ELSE 0
    BY <1>2, <1>3, SubSeqProperties
  <1>6. Len(SubSeq(t, first, Len(s) + 1)) <= 3 BY <1>4, <1>5
  <1> QED BY <1>5, <1>6 DEF t, first

LEMMA RoundNoted ==
  ASSUME InterviewTypes, Noted, NEW spec \in Briefs, NEW intent, RecordRound(spec, intent)
  PROVE  Noted'
  <1> DEFINE next == NextRoundState(spec)
             progress == Progress(next, ClearEnough(spec, interview), intent)
             ambiguity == Ambiguity(spec, interview.type)
             recent == interview.recent
             o == interview.ontology
             listed == CHOOSE e \in spec.entities : TRUE
  <1>1. /\ interview'.type = next.type /\ interview'.threshold = next.threshold
        /\ interview'.active = next.active /\ interview'.last = next.last
        /\ interview'.roundCount = next.roundCount /\ interview'.recent = next.recent
        /\ interview'.used = next.used /\ interview'.ontology = next.ontology
        /\ interview'.status = StatusOf[progress]
    <2>1. DOMAIN next = Recorded BY DEF NextRoundState, InterviewTypes
    <2> HIDE DEF next
    <2>2. interview' = [next EXCEPT
             !.status = StatusOf[progress],
             !.warned = @ \/ progress = "warning",
             !.exit = IF progress \in {"paused", "early", "cap"} THEN progress ELSE @,
             !.expected = ExpectedAfter[progress]]
      BY DEF RecordRound, next
    <2> HIDE DEF progress
    <2> QED BY <2>1, <2>2 DEF Recorded
  <1>2. /\ next.type = interview.type /\ next.threshold = interview.threshold
        /\ next.active = interview.active /\ next.last = asked.component
        /\ next.roundCount = interview.roundCount + 1
        /\ next.recent = SubSeq(Append(recent, ambiguity), IF Len(recent) = 3 THEN 2 ELSE 1,
                                Len(recent) + 1)
        /\ next.used = interview.used \cup ({asked.mode} \ {"none"})
        /\ next.ontology = IF spec.entities = {} THEN o ELSE ComputeOntologySnapshot(o, listed)
    <2> HIDE DEF listed, ambiguity
    <2> QED BY DEF NextRoundState, InterviewTypes, Recorded, listed, ambiguity
  <1>3. UNCHANGED asked /\ asked # NoQuestion /\ interview.roundCount < RoundBound
    BY DEF RecordRound
  <1>4. progress \in DOMAIN StatusOf BY DEF Progress, StatusOf
  <1> HIDE DEF next, progress
  <1>5. InterviewFields'
    <2>1. asked.component \in Component \cup {WholeSpec} /\ asked.mode \in Challenge \cup {"none"}
      BY <1>3 DEF Noted, QuestionFields
    <2>2. ambiguity \in 0 .. Points BY AmbiguityTyped DEF Noted, InterviewFields
    <2> HIDE DEF ambiguity
    <2>3. next.recent \in Seq(0 .. Points) /\ Len(next.recent) <= 3
      <3>1. recent \in Seq(0 .. Points) /\ Len(recent) <= 3 BY DEF Noted, InterviewFields
      <3> HIDE DEF recent
      <3> DEFINE r == SubSeq(Append(recent, ambiguity), IF Len(recent) = 3 THEN 2 ELSE 1,
                             Len(recent) + 1)
      <3>2. r \in Seq(0 .. Points) /\ Len(r) <= 3 BY <2>2, <3>1, RecentKept
      <3>3. next.recent = r BY <1>2
      <3> HIDE DEF r
      <3> QED BY <3>2, <3>3
    <2>4. interview.roundCount + 1 <= RoundBound
      BY <1>3, InterviewAssumption DEF InterviewAssumption, InterviewTypes
    <2>5. interview'.type \in {"greenfield", "brownfield"} /\ interview'.threshold \in 0 .. Points
          /\ interview'.active \subseteq Component
      BY <1>1, <1>2 DEF Noted, InterviewFields
    <2>6. interview'.last \in Component \cup {None, WholeSpec} BY <1>1, <1>2, <2>1
    <2>7. interview'.used \subseteq Challenge
      BY <1>1, <1>2, <2>1 DEF Noted, InterviewFields
    <2>8. interview'.status \in {StatusOf[k] : k \in DOMAIN StatusOf} BY <1>1, <1>4
    <2> QED BY <1>1, <1>2, <2>3, <2>4, <2>5, <2>6, <2>7, <2>8 DEF InterviewFields
  <1>6. EntitiesCount'
    <2>1. o \in Ontology /\ o.stable + o.changed + o.new = Len(o.entities)
      BY DEF Noted, EntitiesCount
    <2>2. o.entities \in Seq(Entity) /\ o.some \in BOOLEAN BY <2>1 DEF Ontology
    <2>3. CASE spec.entities = {}
      <3>1. interview'.ontology = o BY <1>1, <1>2, <2>3
      <3> HIDE DEF o
      <3> QED BY <2>1, <3>1 DEF EntitiesCount
    <2>4. CASE spec.entities # {}
      <3>1. listed \in Seq(Entity) BY <2>4, SpecScored
      <3> HIDE DEF listed
      <3>2. interview'.ontology = ComputeOntologySnapshot(o, listed) BY <1>1, <1>2, <2>4
      <3> HIDE DEF o
      <3> DEFINE p == ComputeOntologySnapshot(o, listed)
      <3>3. p \in Ontology /\ p.stable + p.changed + p.new = Len(p.entities)
        BY <2>2, <3>1, EntitiesCounted DEF Ontology
      <3> HIDE DEF p
      <3> QED BY <3>2, <3>3 DEF EntitiesCount, p
    <2> QED BY <2>3, <2>4
  <1>7. QuestionFields' BY <1>3 DEF Noted, QuestionFields
  <1> QED BY <1>5, <1>6, <1>7 DEF Noted

LEMMA NotedTypes ==
  ASSUME InterviewTypes, Noted PROVE InterviewTypeOK
  <1>1. Points = 10000 BY DEF Points
  <1>2. interview.roundCount \in 0 .. RoundBound
    BY InterviewAssumption DEF InterviewAssumption, InterviewTypes, Noted, InterviewFields
  <1>3. LET o == interview.ontology
        IN  o.stable + o.changed + o.new = Len(o.entities) /\ o.removed >= 0
    BY DEF Noted, EntitiesCount, Ontology
  <1> QED BY <1>1, <1>2, <1>3 DEF Noted, InterviewFields, QuestionFields, InterviewTypeOK

InterviewHolds == InterviewTypes /\ InTurn /\ Noted

LEMMA InterviewBegins == InterviewInit => InterviewHolds
  BY InterviewStarts, NotedStarts DEF InterviewHolds

LEMMA InterviewKept == InterviewHolds /\ [InterviewNext]_interviewVars => InterviewHolds'
  <1> SUFFICES ASSUME InterviewHolds, [InterviewNext]_interviewVars PROVE InterviewHolds'
    OBVIOUS
  <1>1. InterviewTypes /\ InTurn /\ Noted BY DEF InterviewHolds
  <1>2. InterviewTypes' /\ InTurn' BY <1>1, InTurnKept
  <1>3. Noted'
    <2>1. CASE UNCHANGED interviewVars
      BY <1>1, <2>1
         DEF interviewVars, Noted, InterviewFields, QuestionFields, EntitiesCount
    <2>2. ASSUME NEW context \in Contexts, ApplyScoutEvidence(context) PROVE Noted'
      BY <1>1, <2>2, ScoutNoted
    <2>3. ASSUME NEW t \in Topologies, ConfirmTopology(t.components, t.deferred) PROVE Noted'
      BY <1>1, <2>3, TopologyNoted
    <2>4. ASSUME NEW spec \in Briefs, NEW intent \in Intent, NEW brought \in {{}, Component},
                 Ask(spec, intent, brought)
          PROVE  Noted'
      <3>1. asked' # NoQuestion
        <4>1. asked'.kind = "clarity" BY <2>4 DEF Ask
        <4> QED BY <4>1 DEF NoQuestion
      <3>2. asked'.round <= MaxRounds BY <1>2, <3>1 DEF InTurn
      <3> QED BY <1>1, <2>4, <3>2, QuestionNoted
    <2>5. ASSUME NEW spec \in Briefs, NEW intent \in Intent, RecordRound(spec, intent)
          PROVE  Noted'
      BY <1>1, <2>5, RoundNoted
    <2> QED BY <2>1, <2>2, <2>3, <2>4, <2>5 DEF InterviewNext
  <1> QED BY <1>2, <1>3 DEF InterviewHolds

\* An interview keeps numbers of their kind, whatever is asked and recorded: the
\* ambiguity of a scored spec is none below zero or above one, so the last three
\* of them are, and of the entities every one is stable, changed or new and no
\* more are gone than there were.  (computeAmbiguity, computeOntologySnapshot)
THEOREM InterviewIsTyped == InterviewSpec => []InterviewTypeOK
  <1>1. InterviewHolds => InterviewTypeOK BY NotedTypes DEF InterviewHolds
  <1> QED BY <1>1, InterviewBegins, InterviewKept, PTL DEF InterviewSpec

-----------------------------------------------------------------------------
(* The graphs. *)

Receipt == [id : ApprovalId, spec : Spec0, plan : Blueprints]

Amendment ==
  [kind : {"lease"}, task : Node \cup {Terminal}, resources : SUBSET Resource,
   receipt : Receipt]
    \cup [kind : {"material"}, parent : Nat, prior : Receipt, receipt : Receipt]

Graph ==
  [parent : Nat, spec : Spec0, plan : Blueprints, receipt : Receipt,
   nodes : UNION {[S -> Task0] : S \in SUBSET (Node \cup {Terminal})},
   amendments : Seq(Amendment)]

GraphTypes == sealed \in Seq(Graph) /\ receipts \subseteq Receipt

\* The amendments since the last approval, and what they give a task.
Recent(a) == {k \in DOMAIN a : \A m \in k .. Len(a) : a[m].kind = "lease"}
Granted(a, t) == UNION {a[k].resources : k \in {m \in Recent(a) : a[m].task = t}}

\* What a graph is, said of the receipt that it carries.
Accounted(g) ==
  /\ g.receipt \in receipts /\ g.receipt.spec = g.spec /\ g.receipt.plan = g.plan
  /\ Orderable(g.plan) /\ Terminal \notin DOMAIN g.plan
  /\ DOMAIN g.nodes = DOMAIN g.plan \cup {Terminal}
  /\ g.nodes[Terminal].deps = Leaves(g.plan)
  /\ \A t \in DOMAIN g.plan :
       /\ g.nodes[t].deps = g.plan[t].deps
       /\ g.nodes[t].resources = g.plan[t].resources \cup Granted(g.amendments, t)

AllAccounted == \A i \in DOMAIN sealed : Accounted(sealed[i])

LEMMA NothingGranted == \A t : Granted(<<>>, t) = {}
  BY DEF Granted, Recent

LEMMA MaterialGrantsNothing ==
  ASSUME NEW a \in Seq(Amendment), NEW e \in Amendment, e.kind = "material", NEW t
  PROVE Granted(Append(a, e), t) = {}
  <1> DEFINE b == Append(a, e)
  <1>1. /\ b \in Seq(Amendment) /\ Len(b) \in Nat
        /\ b[Len(b)] = e /\ DOMAIN b = 1 .. Len(b)
    OBVIOUS
  <1> HIDE DEF b
  <1>2. \A k \in DOMAIN b : Len(b) \in k .. Len(b) BY <1>1
  <1>3. Recent(b) = {} BY <1>1, <1>2 DEF Recent
  <1>4. Granted(b, t) = {} BY <1>3 DEF Granted
  <1> QED BY <1>4 DEF b

LEMMA LeaseGrants ==
  ASSUME NEW a \in Seq(Amendment), NEW e \in Amendment, e.kind = "lease", NEW t
  PROVE Granted(Append(a, e), t) =
          Granted(a, t) \cup (IF e.task = t THEN e.resources ELSE {})
  <1> DEFINE b == Append(a, e)
             n == Len(a) + 1
  <1>1. /\ Len(b) = n /\ b[n] = e /\ DOMAIN b = 1 .. n /\ DOMAIN a = 1 .. Len(a)
        /\ Len(a) \in Nat /\ \A k \in DOMAIN a : b[k] = a[k]
    OBVIOUS
  <1> HIDE DEF b
  <1>2. Recent(b) = Recent(a) \cup {n}
    <2>1. n \in Recent(b) BY <1>1 DEF Recent
    <2>2. \A k \in DOMAIN a : k \in Recent(a) <=> k \in Recent(b)
      <3> TAKE k \in DOMAIN a
      <3>1. \A m \in k .. n : m \in k .. Len(a) \/ m = n BY <1>1
      <3>2. \A m \in k .. Len(a) : m \in DOMAIN a /\ m \in k .. n BY <1>1
      <3> QED BY <1>1, <3>1, <3>2 DEF Recent
    <2>3. \A k \in DOMAIN b : k \in DOMAIN a \/ k = n BY <1>1
    <2> QED BY <2>1, <2>2, <2>3 DEF Recent
  <1>3. \A k \in Recent(a) : b[k] = a[k] BY <1>1 DEF Recent
  <1>4. Granted(b, t) = Granted(a, t) \cup (IF e.task = t THEN e.resources ELSE {})
    BY <1>1, <1>2, <1>3 DEF Granted
  <1> QED BY <1>4 DEF b

\* Nothing that everything in it is waited for by can be put in order.
LEMMA NoCircle ==
  ASSUME NEW bp, Orderable(bp), NEW S \in SUBSET DOMAIN bp, S # {}, IsFiniteSet(S),
         \A t \in S : \E u \in S : t \in bp[u].deps
  PROVE FALSE
  <1> DEFINE Circles == {X \in SUBSET S : X # {} /\ \A t \in X : \E u \in X : t \in bp[u].deps}
  <1>1. Circles \subseteq FiniteSubsetsOf(S) /\ S \in Circles
    BY FS_Subset DEF FiniteSubsetsOf
  <1>2. PICK X \in Circles : \A Y \in Circles : ~ (<<Y, X>> \in StrictSubsetOrdering(S))
    <2> HIDE DEF Circles
    <2>1. IsWellFoundedOn(StrictSubsetOrdering(S), FiniteSubsetsOf(S))
      BY FS_StrictSubsetOrderingWellFounded
    <2> QED BY <1>1, <2>1, WFMin, Zenon
  <1>3. PICK m \in X : bp[m].deps \cap X = {}
    BY DEF Orderable
  <1> DEFINE Y == X \ {m}
  <1>4. \A t \in X : \E u \in Y : t \in bp[u].deps BY <1>3
  <1>5. Y \in Circles BY <1>3, <1>4
  <1>6. <<Y, X>> \in StrictSubsetOrdering(S)
    BY <1>3, <1>1 DEF StrictSubsetOrdering
  <1> QED BY <1>2, <1>5, <1>6

\* From every task the way leads to the terminal verification.
LEMMA WayToTerminal ==
  ASSUME NEW g \in Graph, Accounted(g), NEW S \in (SUBSET DOMAIN g.plan) \ {{}}
  PROVE \E n \in DOMAIN g.nodes \ S : g.nodes[n].deps \cap S # {}
  <1> SUFFICES ASSUME \A n \in DOMAIN g.nodes \ S : g.nodes[n].deps \cap S = {}
               PROVE FALSE
    OBVIOUS
  <1>1. Leaves(g.plan) \cap S = {} BY DEF Accounted
  <1>2. \A t \in S : \E u \in DOMAIN g.plan : t \in g.plan[u].deps
    BY <1>1 DEF Leaves, DependedOn
  <1>3. \A t \in S : \E u \in S : t \in g.plan[u].deps BY <1>2 DEF Accounted
  <1>4. IsFiniteSet(S)
    <2>1. g.plan \in Blueprint BY GraphAssumption DEF Graph
    <2>2. S \in SUBSET Node
      <3>1. PICK T \in SUBSET Node : g.plan \in [T -> Task0] BY <2>1 DEF Blueprint
      <3> QED BY <3>1
    <2> QED BY <2>2, FS_Subset, GraphAssumption
  <1> QED BY <1>3, <1>4, NoCircle DEF Accounted

LEMMA AccountedExplains ==
  ASSUME GraphTypes, AllAccounted PROVE ApprovedAndAccounted
  <1> SUFFICES ASSUME NEW i \in DOMAIN sealed
               PROVE LET g == sealed[i]
                         recent == {k \in DOMAIN g.amendments :
                                      \A m \in k .. Len(g.amendments) :
                                        g.amendments[m].kind = "lease"}
                         granted(t) == UNION {g.amendments[k].resources :
                                         k \in {m \in recent : g.amendments[m].task = t}}
                     IN  \E r \in receipts :
                           /\ r.spec = g.spec
                           /\ DOMAIN g.nodes = DOMAIN r.plan \cup {Terminal}
                           /\ \A t \in DOMAIN r.plan :
                                /\ g.nodes[t].deps = r.plan[t].deps
                                /\ g.nodes[t].resources = r.plan[t].resources \cup granted(t)
                           /\ \A S \in (SUBSET DOMAIN r.plan) \ {{}} :
                                \E n \in DOMAIN g.nodes \ S : g.nodes[n].deps \cap S # {}
    BY DEF ApprovedAndAccounted
  <1> DEFINE g == sealed[i]
  <1>1. g \in Graph BY DEF GraphTypes
  <1>2. Accounted(g) BY DEF AllAccounted
  <1> HIDE DEF g
  <1>3. \A S \in (SUBSET DOMAIN g.plan) \ {{}} :
          \E n \in DOMAIN g.nodes \ S : g.nodes[n].deps \cap S # {}
    BY <1>1, <1>2, WayToTerminal
  <1>4. /\ g.receipt \in receipts /\ g.receipt.spec = g.spec /\ g.receipt.plan = g.plan
        /\ DOMAIN g.nodes = DOMAIN g.plan \cup {Terminal}
        /\ \A t \in DOMAIN g.plan :
             /\ g.nodes[t].deps = g.plan[t].deps
             /\ g.nodes[t].resources = g.plan[t].resources \cup Granted(g.amendments, t)
    BY <1>2 DEF Accounted
  <1> QED BY <1>3, <1>4 DEF g, Granted, Recent

(* Where a graph comes from.  LineTo is a recursive function: a function that
   satisfies its equation is kept along with the graphs, and no other does. *)

\* The graphs from the first one to each of them.
Ways(s, w) ==
  /\ w \in [0 .. Len(s) -> Seq(Nat)]
  /\ w[0] = <<>>
  /\ \A i \in DOMAIN s : w[i] = Append(w[s[i].parent], i)

\* One amendment between two graphs.
Leads(e, i, g, h) ==
  \/ e.kind = "material" /\ RevisionTold(e, i, g, h)
  \/ e.kind = "lease" /\ GrantTold(e, g, h)

\* The amendments of one graph, along the line to it.
Tells(s, line, a) ==
  /\ Len(line) = Len(a) + 1
  /\ \A k \in DOMAIN a : /\ line[k] \in DOMAIN s /\ line[k + 1] \in DOMAIN s
                         /\ Leads(a[k], line[k], s[line[k]], s[line[k + 1]])

Told(s, w) ==
  \A i \in DOMAIN s : /\ s[i].parent \in 0 .. i - 1
                      /\ w[i][Len(w[i])] = i
                      /\ Tells(s, w[i], s[i].amendments)

AllTold(s) == \E w : Ways(s, w) /\ Told(s, w)

LEMMA GraphAt ==
  ASSUME NEW s \in Seq(Graph), NEW i \in DOMAIN s
  PROVE /\ i \in Nat /\ i # 0 /\ \A k \in 1 .. i : k \in DOMAIN s
        /\ s[i] \in Graph /\ s[i].amendments \in Seq(Amendment)
        /\ s[i].parent \in Nat
  <1>1. s[i] \in Graph OBVIOUS
  <1>2. i \in Nat /\ i # 0 /\ \A k \in 1 .. i : k \in DOMAIN s OBVIOUS
  <1>3. s[i].amendments \in Seq(Amendment) /\ s[i].parent \in Nat
    BY <1>1 DEF Graph
  <1> QED BY <1>1, <1>2, <1>3

\* The ways are the function that LineTo is defined with.
LEMMA LineToIsWay ==
  ASSUME sealed \in Seq(Graph), NEW w, Ways(sealed, w), Told(sealed, w), NEW i \in DOMAIN sealed
  PROVE LineTo(i) = w[i]
  <1> DEFINE Step(f) == [k \in 0 .. i |->
                           IF k = 0 THEN <<>> ELSE Append(f[sealed[k].parent], k)]
             way == [k \in 0 .. i |-> w[k]]
             line == CHOOSE f : f = Step(f)
  <1>1. i \in Nat /\ i # 0 /\ \A k \in 1 .. i : k \in DOMAIN sealed BY GraphAt
  <1>2. \A k \in 1 .. i : /\ sealed[k].parent \in 0 .. k - 1
                          /\ sealed[k].parent \in 0 .. i
                          /\ w[k] = Append(w[sealed[k].parent], k)
    <2> TAKE k \in 1 .. i
    <2>1. k \in DOMAIN sealed /\ k \in Nat /\ k <= i BY <1>1
    <2>2. sealed[k].parent \in 0 .. k - 1 BY <2>1 DEF Told
    <2>3. w[k] = Append(w[sealed[k].parent], k) BY <2>1 DEF Ways
    <2>4. \A x \in 0 .. k - 1 : x \in 0 .. i BY <1>1, <2>1
    <2> QED BY <2>2, <2>3, <2>4
  <1>3. \A k \in 1 .. i : way[k] = Append(way[sealed[k].parent], k)
    <2>1. \A k \in 0 .. i : way[k] = w[k] OBVIOUS
    <2>2. \A k \in 1 .. i : k \in 0 .. i BY <1>1
    <2> HIDE DEF way
    <2> QED BY <1>2, <2>1, <2>2
  <1>4. way = Step(way)
    <2>1. \A k \in 0 .. i : way[k] = Step(way)[k]
      <3> TAKE k \in 0 .. i
      <3>1. CASE k = 0
        <4>1. w[0] = <<>> BY DEF Ways
        <4> QED BY <3>1, <4>1
      <3>2. CASE k # 0
        <4>1. k \in 1 .. i BY <1>1, <3>2
        <4>2. way[k] = Append(way[sealed[k].parent], k) BY <1>3, <4>1
        <4> HIDE DEF way
        <4>3. Step(way)[k] = Append(way[sealed[k].parent], k) BY <3>2
        <4> QED BY <4>2, <4>3
      <3> QED BY <3>1, <3>2
    <2> QED BY <2>1
  <1>5. ASSUME NEW f, f = Step(f) PROVE f = way
    <2> DEFINE Apart == {k \in 0 .. i : f[k] # way[k]}
    <2>1. SUFFICES ASSUME Apart # {} PROVE FALSE
      <3>1. \A k \in 0 .. i : f[k] = way[k] BY <2>1
      <3>2. DOMAIN f = 0 .. i BY <1>5
      <3>3. f = [k \in 0 .. i |-> f[k]] BY <1>5, Zenon
      <3> HIDE DEF Step
      <3> QED BY <3>1, <3>3
    <2> HIDE DEF way
    <2>2. PICK k \in Apart : \A m \in Apart : <<m, k>> \notin OpToRel(<, Nat)
      <3>1. Apart \subseteq Nat BY <1>1
      <3> HIDE DEF Apart
      <3> QED BY <2>1, <3>1, NatLessThanWellFounded, WFMin
    <2>3. \A m \in 0 .. k - 1 : f[m] = way[m]
      <3> TAKE m \in 0 .. k - 1
      <3>1. m \in 0 .. i /\ m \in Nat /\ k \in Nat /\ m < k BY <1>1
      <3>2. <<m, k>> \in OpToRel(<, Nat) BY <3>1 DEF OpToRel
      <3> QED BY <2>2, <3>1, <3>2
    <2>4. CASE k = 0
      <3>1. f[0] = <<>> BY <1>1, <1>5
      <3>2. way[0] = <<>> BY <1>1 DEF Ways, way
      <3> QED BY <2>2, <2>4, <3>1, <3>2
    <2>5. CASE k # 0
      <3>1. k \in 1 .. i BY <1>1, <2>5
      <3>2. f[k] = Append(f[sealed[k].parent], k)
        <4>1. k \in 0 .. i /\ k # 0 BY <1>1, <3>1
        <4>2. Step(f)[k] = Append(f[sealed[k].parent], k) BY <4>1
        <4> HIDE DEF Step
        <4> QED BY <1>5, <4>2
      <3> QED BY <1>2, <1>3, <2>2, <2>3, <3>1, <3>2
    <2> QED BY <2>4, <2>5
  <1>6. line = way
    <2> HIDE DEF way
    <2>1. \E f : f = Step(f) BY <1>4
    <2>2. line = Step(line) BY <2>1
    <2> HIDE DEF line, Step
    <2> QED BY <1>5, <2>2
  <1>7. LineTo(i) = line[i] BY DEF LineTo
  <1>8. way[i] = w[i] BY <1>1
  <1> HIDE DEF way, line
  <1> QED BY <1>6, <1>7, <1>8

LEMMA ToldExplains ==
  ASSUME sealed \in Seq(Graph), AllTold(sealed) PROVE AmendmentsTellLineage
  <1>1. PICK w : Ways(sealed, w) /\ Told(sealed, w) BY DEF AllTold
  <1>2. ASSUME NEW i \in DOMAIN sealed
        PROVE LET line == LineTo(i)
                  g(k) == sealed[line[k]]
                  a == sealed[i].amendments
              IN  /\ Len(a) = Len(line) - 1
                  /\ \A k \in DOMAIN a :
                       \/ a[k].kind = "material" /\ RevisionTold(a[k], line[k], g(k), g(k + 1))
                       \/ a[k].kind = "lease" /\ GrantTold(a[k], g(k), g(k + 1))
    <2>1. LineTo(i) = w[i] BY <1>1, LineToIsWay
    <2>2. Len(sealed[i].amendments) \in Nat BY GraphAt
    <2>3. Tells(sealed, w[i], sealed[i].amendments) BY <1>1 DEF Told
    <2> QED BY <2>1, <2>2, <2>3 DEF Tells, Leads
  <1> QED BY <1>2 DEF AmendmentsTellLineage

\* One more graph: the way to it is that to its parent, and the graph; those to
\* the others are what they were.
WayOn(s, w, p) ==
  [i \in 0 .. Len(s) + 1 |-> IF i = Len(s) + 1 THEN Append(w[p], i) ELSE w[i]]

LEMMA WayGoesOn ==
  ASSUME NEW s \in Seq(Graph), NEW w, Ways(s, w), Told(s, w), NEW g \in Graph,
         g.parent \in 0 .. Len(s)
  PROVE Ways(Append(s, g), WayOn(s, w, g.parent))
  <1> DEFINE r == Append(s, g)
             n == Len(s) + 1
             p == g.parent
             v == WayOn(s, w, p)
  <1>1. /\ n \in Nat /\ n # 0 /\ Len(r) = n /\ DOMAIN r = 1 .. n /\ DOMAIN s = 1 .. n - 1
        /\ r[n] = g /\ \A k \in 1 .. n - 1 : r[k] = s[k]
        /\ p \in 0 .. n - 1 /\ Len(s) = n - 1
    OBVIOUS
  <1>2. w \in [0 .. n - 1 -> Seq(Nat)] /\ w[0] = <<>> BY <1>1 DEF Ways
  <1>3. \A k \in 1 .. n - 1 : s[k].parent \in 0 .. k - 1 /\ w[k] = Append(w[s[k].parent], k)
    BY <1>1 DEF Ways, Told
  <1>4. v = [k \in 0 .. n |-> IF k = n THEN Append(w[p], k) ELSE w[k]] BY DEF WayOn
  <1> HIDE DEF r, n, p, v
  <1>5. \A k \in 0 .. n - 1 : v[k] = w[k] BY <1>1, <1>4
  <1>6. v[n] = Append(w[p], n)
    <2>1. n \in 0 .. n BY <1>1
    <2> QED BY <1>4, <2>1
  <1>7. v \in [0 .. n -> Seq(Nat)]
    <2>1. w[p] \in Seq(Nat) BY <1>1, <1>2
    <2>2. Append(w[p], n) \in Seq(Nat) BY <1>1, <2>1
    <2> QED BY <1>1, <1>2, <1>4, <2>2
  <1>8. ASSUME NEW k \in 1 .. n PROVE v[k] = Append(v[r[k].parent], k)
    <2>1. CASE k = n
      <3>1. r[k].parent = p BY <1>1, <2>1 DEF p
      <3>2. v[p] = w[p] BY <1>1, <1>5
      <3> QED BY <1>6, <2>1, <3>1, <3>2
    <2>2. CASE k # n
      <3>1. k \in 1 .. n - 1 BY <1>1, <2>2
      <3>2. s[k].parent \in 0 .. n - 1 BY <1>1, <1>3, <3>1
      <3>3. v[k] = w[k] /\ v[s[k].parent] = w[s[k].parent]
        <4>1. k \in 0 .. n - 1 BY <1>1, <3>1
        <4> QED BY <1>5, <3>2, <4>1
      <3>4. w[k] = Append(w[s[k].parent], k) BY <1>3, <3>1
      <3>5. r[k].parent = s[k].parent BY <1>1, <3>1
      <3> QED BY <3>3, <3>4, <3>5
    <2> QED BY <2>1, <2>2
  <1>9. v[0] = <<>>
    <2>1. 0 \in 0 .. n - 1 BY <1>1
    <2> QED BY <1>2, <1>5, <2>1
  <1>10. v \in [0 .. Len(r) -> Seq(Nat)] BY <1>1, <1>7
  <1>11. \A k \in DOMAIN r : v[k] = Append(v[r[k].parent], k) BY <1>1, <1>8
  <1>12. Ways(r, v) BY <1>9, <1>10, <1>11 DEF Ways
  <1> QED BY <1>12 DEF r, v, p

\* What is told along a line is told still when there is a graph more.
LEMMA TellsStill ==
  ASSUME NEW s \in Seq(Graph), NEW g \in Graph, NEW line, NEW a, Tells(s, line, a)
  PROVE Tells(Append(s, g), line, a)
  <1> DEFINE r == Append(s, g)
  <1>1. \A k \in DOMAIN s : k \in DOMAIN r /\ r[k] = s[k] OBVIOUS
  <1> HIDE DEF r
  <1>2. Tells(r, line, a) BY <1>1 DEF Tells
  <1> QED BY <1>2 DEF r

\* A line and its amendments, and one more of both.
LEMMA TellsOn ==
  ASSUME NEW s \in Seq(Graph), NEW p \in DOMAIN s, NEW n \in DOMAIN s,
         NEW line \in Seq(Nat), line[Len(line)] = p,
         NEW a \in Seq(Amendment), Tells(s, line, a),
         NEW e \in Amendment, Leads(e, p, s[p], s[n])
  PROVE Tells(s, Append(line, n), Append(a, e))
  <1> DEFINE l == Append(line, n)
             b == Append(a, e)
  <1>1. /\ Len(line) = Len(a) + 1 /\ Len(a) \in Nat /\ DOMAIN a = 1 .. Len(a)
        /\ DOMAIN b = 1 .. Len(a) + 1 /\ Len(b) = Len(a) + 1
        /\ b[Len(a) + 1] = e /\ \A k \in 1 .. Len(a) : b[k] = a[k]
    BY DEF Tells
  <1>2. Len(l) = Len(a) + 2 /\ l[Len(a) + 2] = n /\ \A k \in 1 .. Len(a) + 1 : l[k] = line[k]
    BY <1>1
  <1>3. \A k \in DOMAIN a : /\ line[k] \in DOMAIN s /\ line[k + 1] \in DOMAIN s
                            /\ Leads(a[k], line[k], s[line[k]], s[line[k + 1]])
    BY DEF Tells
  <1> HIDE DEF l, b
  <1>4. ASSUME NEW k \in DOMAIN b
        PROVE /\ l[k] \in DOMAIN s /\ l[k + 1] \in DOMAIN s
              /\ Leads(b[k], l[k], s[l[k]], s[l[k + 1]])
    <2>1. CASE k \in 1 .. Len(a)
      <3>1. k \in 1 .. Len(a) + 1 /\ k + 1 \in 1 .. Len(a) + 1 BY <1>1, <2>1
      <3>2. l[k] = line[k] /\ l[k + 1] = line[k + 1] /\ b[k] = a[k] BY <1>1, <1>2, <2>1, <3>1
      <3> QED BY <1>1, <1>3, <2>1, <3>2
    <2>2. CASE k = Len(a) + 1
      <3>1. k \in 1 .. Len(a) + 1 /\ k + 1 = Len(a) + 2 BY <1>1, <2>2
      <3>2. l[k] = p /\ l[k + 1] = n /\ b[k] = e BY <1>1, <1>2, <2>2, <3>1
      <3> QED BY <3>2
    <2> QED BY <1>1, <2>1, <2>2
  <1>5. Tells(s, l, b) BY <1>1, <1>2, <1>4 DEF Tells
  <1> QED BY <1>5 DEF l, b

\* A graph is sealed that adds an amendment to those of a graph that was there,
\* or has none.
Descends(g, s) ==
  \/ g.parent = 0 /\ g.amendments = <<>>
  \/ /\ g.parent \in DOMAIN s
     /\ \E e \in Amendment :
          /\ g.amendments = Append(s[g.parent].amendments, e)
          /\ Leads(e, g.parent, s[g.parent], g)

LEMMA NextTold ==
  ASSUME NEW s \in Seq(Graph), NEW w, Ways(s, w), Told(s, w), NEW g \in Graph,
         Descends(g, s)
  PROVE Told(Append(s, g), WayOn(s, w, g.parent))
  <1> DEFINE r == Append(s, g)
             n == Len(s) + 1
             p == g.parent
             v == WayOn(s, w, p)
  <1>1. /\ n \in Nat /\ n # 0 /\ Len(s) = n - 1 /\ r \in Seq(Graph) /\ n \in DOMAIN r /\ r[n] = g
        /\ \A k \in DOMAIN s : k \in DOMAIN r /\ r[k] = s[k]
        /\ DOMAIN r = 1 .. n /\ DOMAIN s = 1 .. n - 1
    OBVIOUS
  <1>2. p \in 0 .. n - 1
    <2>1. p = 0 \/ p \in 1 .. n - 1 BY <1>1 DEF Descends
    <2> HIDE DEF p
    <2> QED BY <1>1, <2>1
  <1>3. v = [k \in 0 .. n |-> IF k = n THEN Append(w[p], k) ELSE w[k]] BY DEF WayOn
  <1>4. w \in [0 .. n - 1 -> Seq(Nat)] /\ w[0] = <<>> BY <1>1 DEF Ways
  <1>5. w[p] \in Seq(Nat) BY <1>2, <1>4
  <1>6. v[n] = Append(w[p], n) /\ \A k \in 1 .. n - 1 : v[k] = w[k] BY <1>1, <1>3
  <1>7. Len(v[n]) = Len(w[p]) + 1 /\ v[n][Len(w[p]) + 1] = n BY <1>1, <1>5, <1>6
  <1>8. Tells(r, v[n], g.amendments)
    <2>1. CASE p = 0 /\ g.amendments = <<>>
      <3>1. w[p] = <<>> BY <1>4, <2>1
      <3>2. Len(v[n]) = 1
        <4>1. Len(<<>>) = 0 OBVIOUS
        <4> HIDE DEF v, n, p
        <4> QED BY <1>7, <3>1, <4>1
      <3>3. Len(g.amendments) = 0 /\ DOMAIN g.amendments = {} BY <2>1
      <3> HIDE DEF r, v, n
      <3> QED BY <3>2, <3>3 DEF Tells
    <2>2. CASE p \in DOMAIN s
      <3>0. ~(p = 0) BY <1>1, <2>2
      <3>1. PICK e \in Amendment : /\ g.amendments = Append(s[p].amendments, e)
                                   /\ Leads(e, p, s[p], g)
        BY <3>0 DEF Descends
      <3>2. /\ Tells(s, w[p], s[p].amendments) /\ w[p][Len(w[p])] = p
            /\ s[p].amendments \in Seq(Amendment)
        BY <2>2, GraphAt DEF Told
      <3>3. Tells(r, w[p], s[p].amendments) BY <3>2, TellsStill
      <3>4. p \in DOMAIN r /\ r[p] = s[p] BY <1>1, <2>2
      <3> HIDE DEF r, v, n, p
      <3>5. Tells(r, Append(w[p], n), Append(s[p].amendments, e))
        BY <1>1, <1>5, <3>1, <3>2, <3>3, <3>4, TellsOn
      <3> QED BY <1>6, <3>1, <3>5
    <2> QED BY <2>1, <2>2 DEF Descends
  <1>9. ASSUME NEW i \in DOMAIN r
        PROVE /\ r[i].parent \in 0 .. i - 1 /\ v[i][Len(v[i])] = i
              /\ Tells(r, v[i], r[i].amendments)
    <2>1. CASE i = n
      <3> HIDE DEF r, v, n
      <3> QED BY <1>1, <1>2, <1>7, <1>8, <2>1 DEF p
    <2>2. CASE i \in DOMAIN s
      <3>1. /\ s[i].parent \in 0 .. i - 1 /\ w[i][Len(w[i])] = i
            /\ Tells(s, w[i], s[i].amendments)
        BY <2>2 DEF Told
      <3>2. Tells(r, w[i], s[i].amendments) BY <3>1, TellsStill
      <3>3. v[i] = w[i] /\ r[i] = s[i] BY <1>1, <1>6, <2>2
      <3> HIDE DEF r, v, n
      <3> QED BY <3>1, <3>2, <3>3
    <2>3. i = n \/ i \in DOMAIN s
      <3> HIDE DEF r, n
      <3> QED BY <1>1
    <2> QED BY <2>1, <2>2, <2>3
  <1> HIDE DEF r, v, n
  <1>10. Told(r, v) BY <1>9 DEF Told
  <1> QED BY <1>10 DEF r, v

LEMMA OneMoreTold ==
  ASSUME sealed \in Seq(Graph), AllTold(sealed), NEW g \in Graph, SealGraph(g),
         Descends(g, sealed)
  PROVE AllTold(sealed')
  <1>1. CASE UNCHANGED sealed BY <1>1
  <1>2. CASE sealed' = Append(sealed, g)
    <2>1. PICK w : Ways(sealed, w) /\ Told(sealed, w) BY DEF AllTold
    <2>2. g.parent \in 0 .. Len(sealed) BY DEF Descends
    <2>3. /\ Ways(Append(sealed, g), WayOn(sealed, w, g.parent))
          /\ Told(Append(sealed, g), WayOn(sealed, w, g.parent))
      BY <2>1, <2>2, WayGoesOn, NextTold
    <2> QED BY <1>2, <2>3 DEF AllTold
  <1> QED BY <1>1, <1>2 DEF SealGraph

AllValid == Len(sealed) <= MaxGraphs /\ \A i \in DOMAIN sealed : ValidGraph(sealed[i])

GraphsHold == AllAccounted /\ AllTold(sealed) /\ AllValid

\* A graph that is sealed is one that was, or comes behind the others.
LEMMA OneMoreGraph ==
  ASSUME GraphTypes, GraphsHold, NEW g \in Graph, SealGraph(g), UNCHANGED receipts,
         Accounted(g), Descends(g, sealed)
  PROVE GraphTypes' /\ GraphsHold'
  <1>1. \A h : Accounted(h)' <=> Accounted(h)
    BY DEF Accounted
  <1>0. AllAccounted /\ AllTold(sealed) /\ AllValid BY DEF GraphsHold
  <1>2. CASE UNCHANGED sealed
    <2>1. GraphTypes' BY <1>2 DEF GraphTypes
    <2>2. AllAccounted' BY <1>0, <1>1, <1>2 DEF AllAccounted
    <2>3. AllTold(sealed)' BY <1>0, <1>2
    <2>4. AllValid' BY <1>0, <1>2 DEF AllValid
    <2> QED BY <2>1, <2>2, <2>3, <2>4 DEF GraphsHold
  <1>3. CASE sealed' = Append(sealed, g) /\ Len(sealed) < MaxGraphs
    <2>1. GraphTypes'
      <3>1. sealed' \in Seq(Graph) BY <1>3 DEF GraphTypes
      <3>2. receipts' \subseteq Receipt BY DEF GraphTypes
      <3> QED BY <3>1, <3>2 DEF GraphTypes
    <2>2. \A i \in DOMAIN sealed' :
            sealed'[i] = g \/ (i \in DOMAIN sealed /\ sealed'[i] = sealed[i])
      BY <1>3 DEF GraphTypes
    <2>3. \A i \in DOMAIN sealed' : Accounted(sealed'[i])
      BY <1>0, <2>2 DEF AllAccounted
    <2>4. AllAccounted' BY <1>1, <2>3 DEF AllAccounted, Accounted
    <2>5. AllTold(sealed') BY OneMoreTold DEF GraphsHold, GraphTypes
    <2>6. ValidGraph(g) BY DEF SealGraph
    <2>7. AllValid'
      <3>1. \A i \in DOMAIN sealed' : ValidGraph(sealed'[i]) BY <1>0, <2>2, <2>6 DEF AllValid
      <3>2. Len(sealed') <= MaxGraphs
        <4>1. Len(sealed') = Len(sealed) + 1 /\ Len(sealed) \in Nat BY <1>3 DEF GraphTypes
        <4> QED BY <1>3, <4>1, GraphAssumption
      <3> QED BY <3>1, <3>2 DEF AllValid
    <2> QED BY <2>1, <2>4, <2>5, <2>7 DEF GraphsHold
  <1> QED BY <1>2, <1>3 DEF SealGraph

LEMMA GraphsStart ==
  ASSUME GraphInit PROVE GraphTypes /\ GraphsHold
  <1>1. sealed = <<>> /\ DOMAIN sealed = {} /\ Len(sealed) = 0 BY DEF GraphInit
  <1>2. GraphTypes BY <1>1 DEF GraphInit, GraphTypes
  <1>3. AllAccounted BY <1>1 DEF AllAccounted
  <1> DEFINE w == [i \in {0} |-> <<>>]
  <1>5. w \in [0 .. 0 -> Seq(Nat)] /\ w[0] = <<>>
    <2>1. 0 .. 0 = {0} /\ <<>> \in Seq(Nat) OBVIOUS
    <2> QED BY <2>1
  <1> HIDE DEF w
  <1>6. AllTold(sealed) BY <1>1, <1>5 DEF AllTold, Ways, Told
  <1>4. AllValid BY <1>1, GraphAssumption DEF AllValid
  <1> QED BY <1>2, <1>3, <1>4, <1>6 DEF GraphsHold

LEMMA PlanApproved ==
  ASSUME GraphTypes, GraphsHold, NEW id \in ApprovalId, NEW spec \in Spec0,
         NEW bp \in Blueprints, Approve(id, spec, bp)
  PROVE GraphTypes' /\ GraphsHold'
  <1>0. AllAccounted /\ AllTold(sealed) /\ AllValid BY DEF GraphsHold
  <1>1. receipts \subseteq receipts' /\ UNCHANGED sealed BY DEF Approve
  <1>2. GraphTypes' BY DEF Approve, GraphTypes, Receipt
  <1>3. AllAccounted' BY <1>0, <1>1 DEF AllAccounted, Accounted
  <1>4. AllTold(sealed') BY <1>0, <1>1
  <1>5. AllValid' BY <1>0, <1>1 DEF AllValid
  <1> QED BY <1>2, <1>3, <1>4, <1>5 DEF GraphsHold

\* The graph of a plan, with nothing granted to it yet.
LEMMA NewGraph ==
  ASSUME GraphTypes, NEW spec \in Spec0, NEW bp \in Blueprints, NEW receipt \in receipts,
         Sealable(bp), Terminal \notin DOMAIN bp, Approves(receipt, spec, bp),
         NEW parent \in Nat, NEW a \in Seq(Amendment), \A t : Granted(a, t) = {},
         NEW g, g = PlanGraph(parent, spec, bp, receipt, a)
  PROVE g \in Graph /\ Accounted(g)
  <1> DEFINE nodes == NodesOf(bp)
             domain == DOMAIN bp \cup {Terminal}
  <1>1. PICK T \in SUBSET Node : bp \in [T -> Task0]
    BY GraphAssumption DEF Blueprint
  <1>2. /\ DOMAIN nodes = domain
        /\ nodes[Terminal] = [deps |-> Leaves(bp), resources |-> {}]
        /\ \A t \in DOMAIN bp : nodes[t] = bp[t]
        /\ nodes = [n \in domain |-> nodes[n]]
    BY DEF NodesOf
  <1> HIDE DEF nodes
  <1>3. [deps |-> Leaves(bp), resources |-> {}] \in Task0
    BY <1>1 DEF Task0, Leaves
  <1>4. \A n \in domain : nodes[n] \in Task0 BY <1>1, <1>2, <1>3
  <1>5. nodes \in [domain -> Task0] BY <1>2, <1>4
  <1>6. domain \in SUBSET (Node \cup {Terminal}) BY <1>1
  <1>7. nodes \in UNION {[S -> Task0] : S \in SUBSET (Node \cup {Terminal})}
    BY <1>5, <1>6
  <1>8. receipt \in Receipt BY DEF GraphTypes
  <1>9. g = [parent |-> parent, spec |-> spec, plan |-> bp, receipt |-> receipt,
             nodes |-> nodes, amendments |-> a]
    BY DEF PlanGraph, nodes
  <1>10. g \in Graph BY <1>7, <1>8, <1>9 DEF Graph
  <1>11. bp \in [DOMAIN bp -> Task0] BY <1>1
  <1>12. \A t \in DOMAIN bp : bp[t].resources = bp[t].resources \cup Granted(a, t)
    OBVIOUS
  <1>13. Accounted(g)
    BY <1>2, <1>9, <1>12 DEF Accounted, Sealable, Approves
  <1> QED BY <1>10, <1>13

Extended(i, task, additions) ==
  [sealed[i] EXCEPT !.parent = i,
                    !.nodes[task].resources = @ \cup additions,
                    !.amendments = Append(@, Grant(i, task, additions))]

\* A grant adds to one task what its amendment names.
LEMMA ExtendedGraph ==
  ASSUME GraphTypes, AllAccounted, NEW i \in DOMAIN sealed,
         NEW task \in DOMAIN sealed[i].nodes, task # Terminal,
         NEW additions \in SUBSET Resource
  PROVE Extended(i, task, additions) \in Graph /\ Accounted(Extended(i, task, additions))
  <1> DEFINE g == Extended(i, task, additions)
             h == sealed[i]
             e == Grant(i, task, additions)
             nodes == [h.nodes EXCEPT ![task].resources = @ \cup additions]
  <1>1. h \in Graph /\ i \in Nat BY DEF GraphTypes
  <1>2. Accounted(h) BY DEF AllAccounted
  <1>3. task \in DOMAIN h.nodes OBVIOUS
  <1>4. PICK S \in SUBSET (Node \cup {Terminal}) : h.nodes \in [S -> Task0]
    BY <1>1 DEF Graph
  <1>5. e \in Amendment /\ e.kind = "lease" /\ e.task = task /\ e.resources = additions
    BY <1>1, <1>3, <1>4 DEF Grant, Amendment, Graph
  <1>6. g = [h EXCEPT !.parent = i, !.nodes = nodes, !.amendments = Append(h.amendments, e)]
    BY DEF Extended
  <1> HIDE DEF g, h, e
  <1>7. nodes \in [S -> Task0]
    <2>1. h.nodes[task] \in Task0 BY <1>3, <1>4
    <2>2. [h.nodes[task] EXCEPT !.resources = @ \cup additions] \in Task0
      BY <2>1 DEF Task0
    <2> QED BY <1>4, <2>2
  <1>8. /\ nodes[task].deps = h.nodes[task].deps
        /\ nodes[task].resources = h.nodes[task].resources \cup additions
        /\ \A t \in S : t # task => nodes[t] = h.nodes[t]
        /\ DOMAIN nodes = DOMAIN h.nodes
    BY <1>3, <1>4 DEF Task0
  <1> HIDE DEF nodes
  <1>9. /\ g.parent = i /\ g.spec = h.spec /\ g.plan = h.plan /\ g.receipt = h.receipt
        /\ g.nodes = nodes /\ g.amendments = Append(h.amendments, e)
        /\ g \in Graph
    <2>1. Append(h.amendments, e) \in Seq(Amendment) BY <1>1, <1>5 DEF Graph
    <2>2. nodes \in UNION {[T -> Task0] : T \in SUBSET (Node \cup {Terminal})} BY <1>7
    <2> DEFINE b == Append(h.amendments, e)
    <2> HIDE DEF b
    <2>3. g = [h EXCEPT !.parent = i, !.nodes = nodes, !.amendments = b] BY <1>6 DEF b
    <2>4. b \in Seq(Amendment) BY <2>1 DEF b
    <2>5. /\ g.parent = i /\ g.spec = h.spec /\ g.plan = h.plan /\ g.receipt = h.receipt
          /\ g.nodes = nodes /\ g.amendments = b /\ g \in Graph
      BY <1>1, <2>2, <2>3, <2>4 DEF Graph
    <2> QED BY <2>5 DEF b
  <1>10. \A t : Granted(g.amendments, t) =
                  Granted(h.amendments, t) \cup (IF t = task THEN additions ELSE {})
    <2>1. h.amendments \in Seq(Amendment) BY <1>1 DEF Graph
    <2> DEFINE b == Append(h.amendments, e)
    <2>2. \A t : Granted(b, t) =
                   Granted(h.amendments, t) \cup (IF e.task = t THEN e.resources ELSE {})
      BY <1>5, <2>1, LeaseGrants
    <2>3. g.amendments = b BY <1>9
    <2> HIDE DEF b
    <2> QED BY <1>5, <2>2, <2>3
  <1>11. \A t \in DOMAIN g.plan :
           /\ g.nodes[t].deps = g.plan[t].deps
           /\ g.nodes[t].resources = g.plan[t].resources \cup Granted(g.amendments, t)
    <2> TAKE t \in DOMAIN g.plan
    <2>1. t \in S /\ h.nodes[t].deps = g.plan[t].deps
          /\ h.nodes[t].resources = g.plan[t].resources \cup Granted(h.amendments, t)
      BY <1>2, <1>4, <1>9 DEF Accounted
    <2>2. CASE t = task BY <1>8, <1>9, <1>10, <2>1, <2>2
    <2>3. CASE t # task
      <3>1. Granted(g.amendments, t) = Granted(h.amendments, t) BY <1>10, <2>3
      <3> QED BY <1>8, <1>9, <2>1, <2>3, <3>1
    <2> QED BY <2>2, <2>3
  <1>12. g.nodes[Terminal].deps = Leaves(g.plan)
    <2>1. Terminal \in S /\ h.nodes[Terminal].deps = Leaves(h.plan)
      BY <1>2, <1>4 DEF Accounted
    <2> QED BY <1>8, <1>9, <2>1
  <1>13. Accounted(g) BY <1>2, <1>8, <1>9, <1>11, <1>12 DEF Accounted
  <1> QED BY <1>9, <1>13 DEF g

LEMMA PlanSealed ==
  ASSUME GraphTypes, GraphsHold, NEW spec \in Spec0, NEW bp \in Blueprints,
         NEW receipt \in receipts, SealExecutionPlan(spec, bp, receipt)
  PROVE GraphTypes' /\ GraphsHold'
  <1>1. /\ Sealable(bp) /\ Terminal \notin DOMAIN bp /\ Approves(receipt, spec, bp)
        /\ SealGraph(PlanGraph(0, spec, bp, receipt, <<>>)) /\ UNCHANGED receipts
    BY DEF SealExecutionPlan
  <1>2. <<>> \in Seq(Amendment) OBVIOUS
  <1> DEFINE g == PlanGraph(0, spec, bp, receipt, <<>>)
  <1>3. g \in Graph /\ Accounted(g)
    BY <1>1, <1>2, NothingGranted, NewGraph
  <1>4. Descends(g, sealed) BY DEF PlanGraph, Descends
  <1> QED BY <1>1, <1>3, <1>4, OneMoreGraph

LEMMA RevisionSealed ==
  ASSUME GraphTypes, GraphsHold, NEW spec \in Spec0, NEW bp \in Blueprints,
         NEW receipt \in receipts, NEW i \in DOMAIN sealed,
         SealApprovedMaterialRevision(i, spec, bp, receipt)
  PROVE GraphTypes' /\ GraphsHold'
  <1> DEFINE a == Append(sealed[i].amendments, Material(i, receipt))
             g == PlanGraph(i, spec, bp, receipt, a)
  <1>1. /\ Sealable(bp) /\ Terminal \notin DOMAIN bp /\ Approves(receipt, spec, bp)
        /\ UNCHANGED receipts
    BY DEF SealApprovedMaterialRevision, Proposed
  <1>2. SealGraph(g) BY DEF SealApprovedMaterialRevision
  <1>3. sealed[i] \in Graph /\ i \in Nat BY DEF GraphTypes
  <1>4. Material(i, receipt) \in Amendment /\ Material(i, receipt).kind = "material"
    BY <1>3 DEF Material, Amendment, Graph, GraphTypes
  <1>5. a \in Seq(Amendment) /\ \A t : Granted(a, t) = {}
    BY <1>3, <1>4, MaterialGrantsNothing DEF Graph
  <1> DEFINE e == Material(i, receipt)
  <1>6. /\ e.parent = i /\ e.kind = "material" /\ e.prior = sealed[i].receipt
        /\ e.receipt = receipt /\ e \in Amendment
    BY <1>4 DEF Material
  <1>7. receipt.id # sealed[i].receipt.id
    BY DEF SealApprovedMaterialRevision, FreshApproval
  <1>8. g.parent = i /\ g.amendments = a /\ g.receipt = receipt BY DEF PlanGraph
  <1>9. a = Append(sealed[i].amendments, e) OBVIOUS
  <1> HIDE DEF a, e
  <1>10. g \in Graph /\ Accounted(g) BY <1>1, <1>3, <1>5, NewGraph
  <1> HIDE DEF g
  <1>11. Leads(e, i, sealed[i], g) BY <1>6, <1>7, <1>8 DEF Leads, RevisionTold
  <1>12. Descends(g, sealed) BY <1>6, <1>8, <1>9, <1>11 DEF Descends
  <1> QED BY <1>1, <1>2, <1>10, <1>12, OneMoreGraph

LEMMA LeaseExtended ==
  ASSUME GraphTypes, GraphsHold, NEW i \in DOMAIN sealed,
         NEW task \in DOMAIN sealed[i].nodes, NEW requested \in SUBSET Resource,
         RequestLeaseExtension(i, task, requested)
  PROVE GraphTypes' /\ GraphsHold'
  <1> DEFINE additions == requested \ sealed[i].nodes[task].resources
             g == Extended(i, task, additions)
  <1>1. task # Terminal /\ SealGraph(g) /\ UNCHANGED receipts
    BY DEF RequestLeaseExtension, Extended
  <1>2. additions \in SUBSET Resource OBVIOUS
  <1> DEFINE e == Grant(i, task, additions)
  <1>9. /\ additions # {}
        /\ additions \cap sealed[i].nodes[task].resources = {}
    BY DEF RequestLeaseExtension
  <1> HIDE DEF additions
  <1>3. g \in Graph /\ Accounted(g) BY <1>1, <1>2, ExtendedGraph DEF GraphsHold
  <1>4. sealed[i] \in Graph /\ i \in Nat BY GraphAt DEF GraphTypes
  <1>5. task \in Node \cup {Terminal}
    <2>1. PICK S \in SUBSET (Node \cup {Terminal}) : sealed[i].nodes \in [S -> Task0]
      BY <1>4 DEF Graph
    <2> QED BY <2>1
  <1>6. /\ e \in Amendment /\ e.kind = "lease" /\ e.task = task
        /\ e.resources = additions /\ e.receipt = sealed[i].receipt
    BY <1>2, <1>4, <1>5 DEF Grant, Amendment, Graph
  <1>7. /\ g.parent = i /\ g.amendments = Append(sealed[i].amendments, e)
        /\ g.receipt = sealed[i].receipt /\ g.spec = sealed[i].spec
        /\ g.plan = sealed[i].plan
        /\ g.nodes = [sealed[i].nodes EXCEPT ![task].resources = @ \cup additions]
    BY <1>4 DEF Extended, Graph
  <1> HIDE DEF g, e
  <1>8. GrantTold(e, sealed[i], g) BY <1>6, <1>7, <1>9 DEF GrantTold
  <1>10. Descends(g, sealed) BY <1>6, <1>7, <1>8 DEF Descends, Leads
  <1> QED BY <1>1, <1>3, <1>10, OneMoreGraph

LEMMA GraphsKept ==
  GraphTypes /\ GraphsHold /\ [GraphNext]_graphVars => GraphTypes' /\ GraphsHold'
  <1>1. ASSUME GraphTypes, GraphsHold, UNCHANGED graphVars PROVE GraphTypes' /\ GraphsHold'
    <2>1. UNCHANGED <<sealed, receipts>> BY <1>1 DEF graphVars
    <2>2. GraphTypes' /\ AllTold(sealed') BY <1>1, <2>1 DEF GraphTypes, GraphsHold
    <2>3. AllAccounted' BY <1>1, <2>1 DEF GraphsHold, AllAccounted, Accounted
    <2>4. AllValid' BY <1>1, <2>1 DEF GraphsHold, AllValid
    <2> QED BY <2>2, <2>3, <2>4 DEF GraphsHold
  <1> QED BY <1>1, PlanApproved, PlanSealed, RevisionSealed, LeaseExtended DEF GraphNext

\* Whatever line of revisions and extensions a graph comes from, its tasks may
\* lease what the plan that the user approved gives them and what the amendments
\* since name, and every task has the terminal verification behind it.
\* (sealExecutionPlan, requestLeaseExtension, sealApprovedMaterialRevision)
THEOREM GraphsAreApproved == GraphSpec => []ApprovedAndAccounted
  <1> DEFINE I == GraphTypes /\ GraphsHold
  <1>1. GraphInit => I BY GraphsStart
  <1>2. I /\ [GraphNext]_graphVars => I' BY GraphsKept
  <1>3. I => ApprovedAndAccounted BY AccountedExplains DEF GraphsHold
  <1> QED BY <1>1, <1>2, <1>3, PTL DEF GraphSpec

\* However a graph came about, it has an amendment for each step from the first
\* graph to it: that of a revision names the graph it revised and both approvals,
\* and that of an extension names what the step added under the approval it goes
\* on under.  (sealApprovedMaterialRevision, requestLeaseExtension)
THEOREM LineageIsTold == GraphSpec => []AmendmentsTellLineage
  <1> DEFINE I == GraphTypes /\ GraphsHold
  <1>1. GraphInit => I BY GraphsStart
  <1>2. I /\ [GraphNext]_graphVars => I' BY GraphsKept
  <1>3. I => AmendmentsTellLineage BY ToldExplains DEF GraphsHold, GraphTypes
  <1> QED BY <1>1, <1>2, <1>3, PTL DEF GraphSpec

LEMMA GraphsTyped ==
  ASSUME GraphTypes, GraphsHold PROVE GraphTypeOK
  <1>1. AllAccounted /\ AllTold(sealed) /\ AllValid BY DEF GraphsHold
  <1>2. \A i \in DOMAIN sealed : sealed[i].parent \in 0 .. i - 1 BY <1>1 DEF AllTold, Told
  <1>3. \A i \in DOMAIN sealed : sealed[i].receipt \in receipts
    BY <1>1 DEF AllAccounted, Accounted
  <1>4. \A i \in DOMAIN sealed : sealed[i].plan \in Blueprints
    <2>1. \A i \in DOMAIN sealed : sealed[i] \in Graph BY DEF GraphTypes
    <2> QED BY <2>1 DEF Graph
  <1> QED BY <1>1, <1>2, <1>3, <1>4 DEF AllValid, GraphTypeOK

-----------------------------------------------------------------------------
(* The quality closure. *)

ClosureTypes ==
  /\ input \in Input
  /\ snapshot \in Here
  /\ evidence \in Seq(Evidence)
  /\ repairs \in Seq([defect : Defect, on : Here])
  /\ opinion.defects \subseteq Defect
  /\ gaps \subseteq Need

\* Repairs are made one in a cycle.
Cycles ==
  /\ attempt \in Nat /\ attempt <= input.cycles
  /\ Len(repairs) <= attempt
  /\ stage = "fix" => attempt < input.cycles

\* At each stage the last review is about the present snapshot, and so is the last
\* verdict, which there is only where the review found nothing that blocks.
Current ==
  /\ stage \in {"verify", "fix", "judge", "acquire", "rejudge"} => opinion.on = snapshot
  /\ stage \in {"verify", "acquire", "rejudge"} => opinion.defects = {}
  /\ stage \in {"fix", "judge", "acquire", "rejudge"} /\ verdict # Skipped =>
       verdict.on = snapshot /\ opinion.defects = {} /\ verdict.answer \in Answers

Audited ==
  /\ stage # "returned" => outcome = "none"
  /\ PassAudited

ClosureHolds == ClosureTypes /\ Cycles /\ Current /\ Audited

LEMMA InputTyped ==
  ASSUME NEW i \in Input
  PROVE i.cycles \in Nat /\ i.snapshot \in Here /\ i.evidence \in Seq(Evidence)
        /\ i.needs \subseteq Need
  BY CyclesAssumption DEF Input

LEMMA AnswerTyped ==
  ASSUME NEW a \in Answers
  PROVE a.assessments \subseteq Assessment /\ a.defects \subseteq Defect
  BY AnswersAssumption DEF Answer

\* Assessing changes what is vouched for of the pieces, and adds or drops none.
LEMMA AssessedPieces ==
  ASSUME evidence \in Seq(Evidence), snapshot \in Here, NEW a \in Answers
  PROVE /\ Assessed(a) \in Seq(Evidence)
        /\ DOMAIN Assessed(a) = DOMAIN evidence
        /\ \A i \in DOMAIN evidence :
             evidence[i].acquired /\ ~evidence[i].verified /\ Assessed(a)[i].verified =>
               \E m \in a.assessments : m.verified /\ m.ids \cap evidence[i].ids # {}
  <1> DEFINE chosen(i) == CHOOSE m \in a.assessments : Concerns(m, evidence[i])
  <1>1. \A i \in DOMAIN evidence : evidence[i] \in Evidence
    OBVIOUS
  <1>2. \A i \in DOMAIN evidence : (\E m \in a.assessments : Concerns(m, evidence[i])) =>
          chosen(i) \in a.assessments /\ Concerns(chosen(i), evidence[i])
    OBVIOUS
  <1>3. \A m \in Assessment, e \in Evidence :
          Assess(m, e) \in Evidence /\ Assess(m, e).verified = m.verified
    <2> SUFFICES ASSUME NEW m \in Assessment, NEW e \in Evidence
                 PROVE Assess(m, e) \in Evidence /\ Assess(m, e).verified = m.verified
      OBVIOUS
    <2> DEFINE verified == [e EXCEPT !.verified = m.verified]
               independent == [verified EXCEPT !.independent = @ \/ m.independent]
               there == [independent EXCEPT
                          !.snapshot = IF snapshot = NoSnapshot THEN @ ELSE snapshot]
    <2>1. verified \in Evidence /\ verified.verified = m.verified
      BY DEF Assessment, Evidence
    <2> HIDE DEF verified
    <2>2. (verified.independent \/ m.independent) \in BOOLEAN
      OBVIOUS
    <2>3. independent \in Evidence /\ independent.verified = verified.verified
      BY <2>1, <2>2 DEF Evidence
    <2> HIDE DEF independent
    <2>4. there \in Evidence /\ there.verified = independent.verified
      BY <2>3 DEF Evidence, Here
    <2>5. Assess(m, e) = there
      BY DEF Assess, verified, independent
    <2> HIDE DEF there
    <2> QED BY <2>1, <2>3, <2>4, <2>5
  <1>4. \A m \in Assessment, e \in Evidence :
          Concerns(m, e) /\ e.acquired => m.ids \cap e.ids # {}
    BY DEF Concerns, Assessment, Evidence
  <1>5. a.assessments \subseteq Assessment
    BY AnswerTyped
  <1>6. \A i \in DOMAIN evidence :
          Assessed(a)[i] = IF \E m \in a.assessments : Concerns(m, evidence[i])
                           THEN Assess(chosen(i), evidence[i]) ELSE evidence[i]
    BY DEF Assessed
  <1> HIDE DEF chosen
  <1>7. \A i \in DOMAIN evidence : Assessed(a)[i] \in Evidence
    BY <1>1, <1>2, <1>3, <1>5, <1>6
  <1>8. DOMAIN Assessed(a) = DOMAIN evidence /\ DOMAIN evidence = 1 .. Len(evidence)
        /\ Len(evidence) \in Nat
    BY DEF Assessed
  <1>9. Assessed(a) \in Seq(Evidence)
    <2>1. Assessed(a) = [i \in 1 .. Len(evidence) |-> Assessed(a)[i]]
      BY <1>8 DEF Assessed
    <2>2. Assessed(a) \in [1 .. Len(evidence) -> Evidence]
      BY <1>7, <1>8, <2>1
    <2> QED BY <1>8, <2>2
  <1>10. ASSUME NEW i \in DOMAIN evidence,
                evidence[i].acquired, ~evidence[i].verified, Assessed(a)[i].verified
         PROVE \E m \in a.assessments : m.verified /\ m.ids \cap evidence[i].ids # {}
    <2>1. \E m \in a.assessments : Concerns(m, evidence[i])
      BY <1>6, <1>10
    <2>2. chosen(i) \in a.assessments /\ Concerns(chosen(i), evidence[i])
      BY <1>2, <2>1
    <2>3. Assessed(a)[i] = Assess(chosen(i), evidence[i])
      BY <1>6, <2>1
    <2> QED BY <1>1, <1>3, <1>4, <1>5, <1>10, <2>2, <2>3
  <1> QED BY <1>8, <1>9, <1>10

\* What the gate asks of a verdict is what a passing closure owes.
LEMMA GateAudits ==
  ASSUME Passes, NEW n \in input.needs, input.tier > 0, input.tier \in Nat,
         n.criterion \in verdict.answer.report.criteria \cup {Anything}
  PROVE \E e \in Pieces :
          /\ e.kind = n.kind /\ n.criterion \in {e.criterion, Anything}
          /\ e.success /\ e.verified
          /\ snapshot # NoSnapshot => e.snapshot = snapshot
  <1>1. n \notin Unproven(Report0)
    BY DEF Passes, Missing
  <1>2. PICK e \in Pieces : Proves(e, n)
    BY <1>1 DEF Unproven, Report0
  <1> QED BY <1>2 DEF Proves, Bound

LEMMA Returned ==
  ASSUME ClosureHolds, stage \in {"judge", "rejudge"}, Passes,
         UNCHANGED <<input, snapshot, evidence, opinion, verdict>>
  PROVE PassAudited'
  <1>1. input.tier \in Nat
    BY DEF ClosureHolds, ClosureTypes, Input
  <1>2. opinion.on = snapshot /\ opinion.defects = {} /\ verdict # Skipped
        /\ verdict.on = snapshot
    BY DEF ClosureHolds, Current, Passes
  <1>3. input.tier > 0 =>
          \A n \in input.needs :
            n.criterion \in verdict.answer.report.criteria \cup {Anything} =>
              \E e \in Pieces :
                /\ e.kind = n.kind /\ n.criterion \in {e.criterion, Anything}
                /\ e.success /\ e.verified
                /\ snapshot # NoSnapshot => e.snapshot = snapshot
    BY <1>1, GateAudits
  <1>4. Pieces' = Pieces
    BY DEF Pieces
  <1> QED BY <1>2, <1>3, <1>4 DEF PassAudited

LEMMA ClosureStarts == ClosureInit => ClosureHolds
  <1> SUFFICES ASSUME ClosureInit PROVE ClosureHolds
    OBVIOUS
  <1>1. ClosureTypes
    BY InputTyped, InputsAssumption DEF ClosureInit, ClosureTypes
  <1>2. Cycles
    BY InputTyped, InputsAssumption DEF ClosureInit, Cycles
  <1>3. Current /\ Audited
    BY DEF ClosureInit, Current, Audited, PassAudited
  <1> QED BY <1>1, <1>2, <1>3 DEF ClosureHolds

LEMMA ClosureKept ==
  ASSUME ClosureHolds, [ClosureNext]_closureVars PROVE ClosureHolds'
  <1> USE DEF ClosureHolds
  <1>1. input.cycles \in Nat
    BY InputTyped DEF ClosureTypes
  <1>2. CASE ReviewSnapshot
    <2>1. PICK o \in Opinions :
            /\ opinion' = [ok |-> o.ok, defects |-> o.defects, on |-> snapshot]
            /\ IF o.defects # {} THEN SkipVerifier /\ EndRound(FALSE)
               ELSE stage' = "verify" /\ UNCHANGED verdict
      BY <1>2 DEF ReviewSnapshot
    <2>2. UNCHANGED <<input, snapshot, attempt, evidence, gaps, repairs, outcome>>
          /\ stage = "review" /\ outcome = "none"
      BY <1>2 DEF ReviewSnapshot, Audited
    <2>3. o.defects \subseteq Defect
      BY AnswersAssumption DEF Opinion
    <2>4. ClosureTypes'
      BY <2>1, <2>2, <2>3 DEF ClosureTypes
    <2>5. Cycles'
      BY <1>1, <2>1, <2>2 DEF Cycles, EndRound
    <2>6. Current'
      BY <2>1, <2>2 DEF Current, SkipVerifier, EndRound
    <2>7. Audited'
      BY <2>2 DEF Audited, PassAudited
    <2> QED BY <2>4, <2>5, <2>6, <2>7
  <1>3. CASE VerifySnapshot
    <2>1. PICK a \in Answers : /\ evidence' = Assessed(a)
                               /\ verdict' = [answer |-> a, on |-> snapshot]
                               /\ EndRound(Clean(a))
      BY <1>3 DEF VerifySnapshot
    <2>2. UNCHANGED <<input, snapshot, attempt, opinion, gaps, repairs, outcome>>
          /\ stage = "verify" /\ outcome = "none"
      BY <1>3 DEF VerifySnapshot, Audited
    <2>3. ClosureTypes'
      BY <2>1, <2>2, AssessedPieces DEF ClosureTypes
    <2>4. stage' \in {"judge", "fix"} /\ (stage' = "fix" => attempt # input.cycles)
      BY <2>1 DEF EndRound
    <2>5. Cycles'
      BY <1>1, <2>2, <2>4 DEF Cycles
    <2>6. Current'
      BY <2>1, <2>2, <2>4 DEF Current
    <2>7. Audited'
      BY <2>2 DEF Audited, PassAudited
    <2> QED BY <2>3, <2>5, <2>6, <2>7
  <1>4. CASE Repair
    <2>1. PICK d \in Findings, s \in Snapshot \cup {snapshot} :
            /\ repairs' = Append(repairs, [defect |-> d, on |-> snapshot])
            /\ snapshot' = s
      BY <1>4 DEF Repair
    <2>2. UNCHANGED <<input, evidence, opinion, verdict, gaps, outcome>>
          /\ stage = "fix" /\ outcome = "none" /\ stage' = "review" /\ attempt' = attempt + 1
      BY <1>4 DEF Repair, Audited, NextRound
    <2>3. d \in Defect /\ s \in Here
      BY <2>2, AnswerTyped DEF Findings, ClosureTypes, Current, Here
    <2>4. ClosureTypes'
      BY <2>1, <2>2, <2>3 DEF ClosureTypes
    <2>5. Cycles'
      BY <1>1, <2>1, <2>2 DEF Cycles, ClosureTypes
    <2>6. Current' /\ Audited'
      BY <2>2 DEF Current, Audited, PassAudited
    <2> QED BY <2>4, <2>5, <2>6
  <1>5. CASE FixNothing
    <2>1. UNCHANGED <<input, snapshot, evidence, opinion, verdict, gaps, repairs, outcome>>
          /\ stage = "fix" /\ outcome = "none" /\ stage' = "review" /\ attempt' = attempt + 1
      BY <1>5 DEF FixNothing, Audited, NextRound
    <2>2. Cycles'
      BY <1>1, <2>1 DEF Cycles, ClosureTypes
    <2> QED BY <2>1, <2>2 DEF ClosureTypes, Current, Audited, PassAudited
  <1>6. CASE Judge
    <2>1. UNCHANGED <<input, snapshot, attempt, evidence, opinion, verdict, repairs>>
          /\ stage = "judge" /\ outcome = "none"
      BY <1>6 DEF Judge, Audited
    <2>2. CASE Passes
      <3>1. stage' = "returned" /\ gaps' = gaps
        BY <1>6, <2>2 DEF Judge, Finish
      <3>2. PassAudited'
        BY <2>1, <2>2, Returned
      <3> QED BY <2>1, <3>1, <3>2 DEF ClosureTypes, Cycles, Current, Audited
    <2>3. CASE ~Passes /\ Acquirable = {}
      <3>1. stage' = "returned" /\ outcome' = "fail" /\ gaps' = gaps
        BY <1>6, <2>3 DEF Judge, Finish
      <3> QED BY <2>1, <3>1 DEF ClosureTypes, Cycles, Current, Audited, PassAudited
    <2>4. CASE ~Passes /\ Acquirable # {}
      <3>1. stage' = "acquire" /\ gaps' = Acquirable /\ outcome' = outcome
        BY <1>6, <2>4 DEF Judge
      <3>2. verdict # Skipped
        BY <2>4 DEF Acquirable
      <3>3. Acquirable \subseteq Need
        <4>1. input.needs \subseteq Need
          BY InputTyped DEF ClosureTypes
        <4>2. evidence # <<>> => evidence[1] \in Evidence
          BY DEF ClosureTypes
        <4>3. LightGap(Report0) \in Need
          BY <4>2 DEF LightGap, Need, Evidence, Kind
        <4> QED BY <4>1, <4>3 DEF Acquirable, Missing, Unproven, Need, Kind
      <3> QED BY <2>1, <3>1, <3>2, <3>3 DEF ClosureTypes, Cycles, Current, Audited, PassAudited
    <2> QED BY <2>2, <2>3, <2>4
  <1>7. CASE Reassess
    <2>1. PICK a \in Answers : /\ evidence' = Assessed(a)
                               /\ verdict' = [answer |-> a, on |-> snapshot]
      BY <1>7 DEF Reassess
    <2>2. UNCHANGED <<input, snapshot, attempt, opinion, gaps, repairs, outcome>>
          /\ stage = "acquire" /\ stage' = "rejudge" /\ outcome = "none"
      BY <1>7 DEF Reassess, Audited
    <2>3. ClosureTypes'
      BY <2>1, <2>2, AssessedPieces DEF ClosureTypes
    <2> QED BY <2>1, <2>2, <2>3 DEF Cycles, Current, Audited, PassAudited
  <1>8. CASE Rejudge
    <2>1. UNCHANGED <<input, snapshot, attempt, evidence, opinion, verdict, gaps, repairs>>
          /\ stage = "rejudge" /\ stage' = "returned"
          /\ outcome' = IF Passes THEN "pass" ELSE "fail"
      BY <1>8 DEF Rejudge, Finish
    <2>2. PassAudited'
      <3>1. CASE Passes
        BY <2>1, <3>1, Returned
      <3>2. CASE ~Passes
        BY <2>1, <3>2 DEF PassAudited
      <3> QED BY <3>1, <3>2
    <2> QED BY <2>1, <2>2 DEF ClosureTypes, Cycles, Current, Audited
  <1>9. CASE Throw
    BY <1>9 DEF Throw, Finish, ClosureTypes, Cycles, Current, Audited, PassAudited
  <1>10. ASSUME NEW g \in gaps, Acquire(g) PROVE ClosureHolds'
    <2>1. UNCHANGED <<input, stage, snapshot, attempt, opinion, verdict, repairs, outcome>>
          /\ gaps' = gaps \ {g} /\ stage = "acquire" /\ outcome = "none"
      BY <1>10 DEF Acquire, Audited
    <2>2. \A ok \in BOOLEAN : Raw(g, ok) \in Evidence
      BY DEF ClosureTypes, Raw, Evidence, Need, Here
    <2>3. evidence' \in Seq(Evidence)
      BY <1>10, <2>2 DEF Acquire, ClosureTypes
    <2> QED BY <2>1, <2>3 DEF ClosureTypes, Cycles, Current, Audited, PassAudited
  <1>11. CASE UNCHANGED closureVars
    BY <1>11 DEF closureVars, ClosureTypes, Cycles, Current, Audited, PassAudited, Pieces
  <1> QED
    BY <1>2, <1>3, <1>4, <1>5, <1>6, <1>7, <1>8, <1>9, <1>10, <1>11
    DEF ClosureNext, Converge, Complete

\* What the callbacks have said so far, and what the caller gets.
Spoken ==
  /\ stage \in {"review", "verify", "fix", "judge", "acquire", "rejudge", "returned"}
  /\ opinion \in [ok : BOOLEAN, defects : SUBSET Defect, on : Here]
  /\ verdict = Skipped \/ verdict \in [answer : Answers, on : Here]
  /\ outcome \in {"none", "pass", "fail", "error"}

LEMMA SpokenStarts == ClosureInit => Spoken
  BY DEF ClosureInit, Spoken, Here

LEMMA SpokenKept ==
  ASSUME ClosureHolds, Spoken, [ClosureNext]_closureVars PROVE Spoken'
  <1>1. snapshot \in Here BY DEF ClosureHolds, ClosureTypes
  <1>2. CASE ReviewSnapshot
    <2>1. PICK o \in Opinions :
            /\ opinion' = [ok |-> o.ok, defects |-> o.defects, on |-> snapshot]
            /\ IF o.defects # {} THEN SkipVerifier /\ EndRound(FALSE)
               ELSE stage' = "verify" /\ UNCHANGED verdict
      BY <1>2 DEF ReviewSnapshot
    <2>2. o \in Opinion BY AnswersAssumption
    <2>3. UNCHANGED outcome BY <1>2 DEF ReviewSnapshot
    <2> QED BY <1>1, <2>1, <2>2, <2>3 DEF Spoken, Opinion, SkipVerifier, EndRound
  <1>3. CASE VerifySnapshot \/ Reassess
    BY <1>1, <1>3 DEF VerifySnapshot, Reassess, Spoken, EndRound
  <1>4. CASE Repair \/ FixNothing
    BY <1>4 DEF Repair, FixNothing, NextRound, Spoken
  <1>5. CASE Judge \/ Rejudge \/ Throw
    BY <1>5 DEF Judge, Rejudge, Throw, Finish, Spoken
  <1>6. ASSUME NEW g \in gaps, Acquire(g) PROVE Spoken'
    BY <1>6 DEF Acquire, Spoken
  <1>7. CASE UNCHANGED closureVars
    BY <1>7 DEF closureVars, Spoken
  <1> QED BY <1>2, <1>3, <1>4, <1>5, <1>6, <1>7 DEF ClosureNext, Converge, Complete

LEMMA ClosureTyped == ClosureHolds /\ Spoken => ClosureTypeOK
  <1> SUFFICES ASSUME ClosureHolds, Spoken PROVE ClosureTypeOK OBVIOUS
  <1>1. input.cycles \in Nat BY InputTyped DEF ClosureHolds, ClosureTypes
  <1> QED BY <1>1 DEF ClosureHolds, ClosureTypes, Cycles, Spoken, ClosureTypeOK

\* A closure that passes was reviewed, verified and proved on what it delivers.
THEOREM PassesAreAudited == ClosureSpec => []PassAudited
<1>1. ClosureHolds => PassAudited
  BY DEF ClosureHolds, Audited
<1> QED
  BY <1>1, ClosureStarts, ClosureKept, PTL DEF ClosureSpec

LEMMA RepairFound ==
  ASSUME ClosureHolds, [ClosureNext]_closureVars, repairs' # repairs
  PROVE  LET r == repairs'[Len(repairs')] IN
           /\ \/ r.defect \in opinion.defects /\ opinion.on = r.on
              \/ /\ verdict # Skipped /\ r.defect \in verdict.answer.defects
                 /\ verdict.on = r.on /\ opinion.on = r.on /\ opinion.defects = {}
           /\ r.on = snapshot
           /\ Len(repairs') <= input.cycles
<1>1. Repair
  BY DEF ClosureNext, Converge, Complete, ReviewSnapshot, VerifySnapshot, FixNothing,
         Judge, Reassess, Rejudge, Throw, Acquire, closureVars
<1>2. PICK d \in Findings : repairs' = Append(repairs, [defect |-> d, on |-> snapshot])
  BY <1>1 DEF Repair
<1>3. repairs \in Seq([defect : Defect, on : Here]) /\ stage = "fix"
  BY <1>1 DEF ClosureHolds, ClosureTypes, Repair
<1>4. Len(repairs') = Len(repairs) + 1
      /\ repairs'[Len(repairs')] = [defect |-> d, on |-> snapshot]
  BY <1>2, <1>3
<1>5. Len(repairs') <= input.cycles
  <2>1. input.cycles \in Nat /\ attempt \in Nat /\ Len(repairs) \in Nat
        /\ Len(repairs) <= attempt /\ attempt < input.cycles
    BY <1>3, InputTyped DEF ClosureHolds, ClosureTypes, Cycles
  <2> QED BY <1>4, <2>1
<1>6. d \in opinion.defects \/ (verdict # Skipped /\ d \in verdict.answer.defects)
  BY DEF Findings
<1>7. opinion.on = snapshot
      /\ (verdict # Skipped => verdict.on = snapshot /\ opinion.defects = {})
  BY <1>3 DEF ClosureHolds, Current
<1> QED BY <1>4, <1>5, <1>6, <1>7

\* Every repair is of something found on the snapshot that is repaired.
THEOREM RepairsAreFound == ClosureSpec => RepairsFound
<1> QED
  BY RepairFound, ClosureStarts, ClosureKept, PTL DEF ClosureSpec, RepairsFound

LEMMA PieceNamed ==
  ASSUME ClosureHolds, [ClosureNext]_closureVars, NEW i \in DOMAIN evidence,
         evidence[i].acquired, ~evidence[i].verified, evidence'[i].verified
  PROVE  \E m \in verdict'.answer.assessments :
           m.verified /\ m.ids \cap evidence[i].ids # {}
<1>1. evidence \in Seq(Evidence) /\ snapshot \in Here
  BY DEF ClosureHolds, ClosureTypes
<1>2. evidence' # evidence
  OBVIOUS
<1>3. (\E g \in gaps : Acquire(g)) \/ VerifySnapshot \/ Reassess
  BY <1>2 DEF ClosureNext, Converge, Complete, ReviewSnapshot, Repair, FixNothing,
              Judge, Rejudge, Throw, closureVars
<1>4. ASSUME NEW g \in gaps, Acquire(g) PROVE FALSE
  <2>1. PICK ok \in BOOLEAN : evidence' = Append(evidence, Raw(g, ok))
    BY <1>2, <1>4 DEF Acquire
  <2>2. evidence'[i] = evidence[i]
    BY <1>1, <2>1
  <2> QED BY <2>2
<1>5. PICK a \in Answers : evidence' = Assessed(a) /\ verdict'.answer = a
  BY <1>3, <1>4 DEF VerifySnapshot, Reassess
<1> QED BY <1>1, <1>5, AssessedPieces

\* Acquired evidence is verified only by an assessment that names it.
THEOREM AcquiredIsNamed == ClosureSpec => NamedProofOnly
<1>1. ClosureHolds /\ [ClosureNext]_closureVars =>
        [\A i \in DOMAIN evidence :
          evidence[i].acquired /\ ~evidence[i].verified /\ evidence'[i].verified =>
            \E m \in verdict'.answer.assessments :
              m.verified /\ m.ids \cap evidence[i].ids # {}]_closureVars
  BY PieceNamed
<1> QED
  BY <1>1, ClosureStarts, ClosureKept, PTL DEF ClosureSpec, NamedProofOnly

-----------------------------------------------------------------------------
(* The browser check. *)

\* What runs at each await, and what the closing leaves.
Held ==
  /\ qa \in Request
  /\ opened \subseteq {"server", "browser", "context", "page"}
  /\ opened \cap {"context", "page"} # {} => "browser" \in opened
  /\ at \in {"context", "page"} => "browser" \in opened
  /\ at = "stop" => opened \subseteq {"server"} \/ "browser" \in stuck
  /\ NothingLeftOpen

LEMMA HeldStarts == BrowserInit => Held
  BY RequestsAssumption DEF BrowserInit, Held, NothingLeftOpen

LEMMA HeldKept ==
  ASSUME Held, [BrowserNext]_browserVars PROVE Held'
  <1> USE DEF Held, NothingLeftOpen
  <1>0. CASE UNCHANGED browserVars
    BY <1>0 DEF browserVars, endVars
  <1>1. CASE UNCHANGED <<qa, opened, stuck>> /\ at' \notin {"context", "page", "stop", "returned"}
    BY <1>1
  <1>2. CASE PageChanges \/ PageReports
    <2>1. UNCHANGED <<qa, at, opened, stuck>>
      BY <1>2 DEF PageChanges, PageReports, endVars
    <2> QED BY <2>1
  <1>3. CASE ServerExits
    BY <1>3 DEF ServerExits, endVars
  <1>4. CASE CallBrowserQa
    <2>1. qa' = qa /\ stuck' = stuck /\ at' \in {"returned", "load", "wait", "dead"}
      BY <1>4 DEF CallBrowserQa, endVars, Request
    <2>2. opened' = IF at' = "wait" THEN {"server"} ELSE {}
      BY <1>4 DEF CallBrowserQa
    <2>3. CASE at' = "wait" BY <2>1, <2>2, <2>3
    <2>4. CASE at' # "wait" BY <2>1, <2>2, <2>4
    <2> QED BY <2>3, <2>4
  <1>5. CASE Open("browser", "launch", "context") \/ Open("context", "context", "page")
               \/ Open("page", "page", "goto")
    BY <1>5 DEF Open, endVars
  <1>6. CASE TargetAnswers \/ LoadPlaywright \/ GotoTarget \/ Throws
    <2>1. UNCHANGED <<qa, opened, stuck>> /\ at' \notin {"context", "page", "stop", "returned"}
      BY <1>6 DEF TargetAnswers, LoadPlaywright, GotoTarget, Throws, endVars
    <2> QED BY <1>1, <2>1
  <1>7. CASE ExecuteAction \/ ReadControls \/ StopProbing \/ SkipCandidate
               \/ LookAtCandidate \/ CandidateHidden
    <2>1. UNCHANGED <<qa, opened, stuck>> /\ at' \notin {"context", "page", "stop", "returned"}
      BY <1>7 DEF ExecuteAction, ReadControls, StopProbing, SkipCandidate,
                  LookAtCandidate, CandidateHidden, endVars
    <2> QED BY <1>1, <2>1
  <1>8. CASE TryCandidate \/ Reload \/ TryAgain \/ TryFails \/ Reset \/ JudgeProbes
               \/ ReportTitle
    <2>1. UNCHANGED <<qa, opened, stuck>> /\ at' \notin {"context", "page", "stop", "returned"}
      BY <1>8 DEF TryCandidate, Reload, TryAgain, TryFails, Reset, JudgeProbes,
                  ReportTitle, endVars
    <2> QED BY <1>1, <2>1
  <1>9. CASE \/ Close("page", "closePage", "closeContext")
             \/ Close("context", "closeContext", "closeBrowser")
    BY <1>9 DEF Close, Within, AfterClose
  <1>10. CASE Close("browser", "closeBrowser", "stop")
    BY <1>10 DEF Close, Within, AfterClose
  <1>11. CASE StopServer
    BY <1>11 DEF StopServer, endVars
  <1> QED
    BY <1>0, <1>2, <1>3, <1>4, <1>5, <1>6, <1>7, <1>8, <1>9, <1>10, <1>11 DEF BrowserNext

\* Whatever fails, the server ends, and the browser unless it cannot be closed.
THEOREM NothingIsLeftOpen == BrowserSpec => []NothingLeftOpen
<1>1. BrowserInit => Held
  BY HeldStarts
<1>2. Held /\ [BrowserNext]_browserVars => Held'
  BY HeldKept
<1>3. Held => NothingLeftOpen
  BY DEF Held
<1> QED
  BY <1>1, <1>2, <1>3, PTL DEF BrowserSpec

\* How far the check has come at each await.
Tested ==
  [at : Nat, kind : {"action", "press", "repeat", "reset"},
   status : {"passed", "failed", "skipped"}]

Visited(n, controls, ps) ==
  \A i \in DOMAIN controls : i < n => \E j \in DOMAIN ps : ps[j].at = i
Flawed(ps) == \E j \in DOMAIN ps : ps[j].status = "failed"
GoneThrough ==
  IF qa.actions # <<>>
  THEN Len(probes) = Len(qa.actions)
  ELSE \/ \A i \in DOMAIN found : \E j \in DOMAIN probes : probes[j].at = i
       \/ Cardinality(Tried) >= qa.max

Starting == {"called", "wait", "load", "launch", "context", "page", "goto", "read"}
Visiting == {"candidate", "press"}
Leaving == {"reload", "lookAgain", "pressAgain", "reset"}
Ending == {"title", "closePage", "closeContext", "closeBrowser", "stop", "returned"}

BrowserTypes ==
  /\ qa \in Request /\ probes \in Seq(Tested) /\ place \in Nat
  /\ shown \in Seq(Control) /\ found \in Seq(Control)

HowFar ==
  /\ at \in Starting => probes = <<>>
  /\ at = "read" => place = 1
  /\ at \in Visiting \cup Leaving \cup {"read"} => qa.actions = <<>>
  /\ at = "act" => /\ qa.actions # <<>> /\ place \in 1 .. Len(qa.actions)
                   /\ Len(probes) = place - 1
  /\ at \in Visiting => Visited(place, found, probes)
  /\ at \in Leaving => Visited(place + 1, found, probes)
  /\ at = "screenshot" => Flawed(probes) \/ GoneThrough

Deserved ==
  answered.success =>
    /\ at \in Ending /\ ~Flawed(probes) /\ GoneThrough
    /\ telemetry \cap Fatal \subseteq late

Tallied == BrowserTypes /\ HowFar /\ Deserved

LEMMA ProbeAdded ==
  ASSUME NEW ps \in Seq(Tested), NEW p \in Tested, NEW controls \in Seq(Control),
         NEW n \in Nat, Visited(n, controls, ps)
  PROVE /\ Append(ps, p) \in Seq(Tested) /\ Len(Append(ps, p)) = Len(ps) + 1
        /\ Visited(n, controls, Append(ps, p))
        /\ p.at = n => Visited(n + 1, controls, Append(ps, p))
        /\ p.status = "failed" => Flawed(Append(ps, p))
  <1> DEFINE qs == Append(ps, p)
  <1>1. /\ qs \in Seq(Tested) /\ Len(qs) = Len(ps) + 1 /\ qs[Len(ps) + 1] = p
        /\ \A j \in 1 .. Len(ps) : qs[j] = ps[j]
    OBVIOUS
  <1>2. DOMAIN ps = 1 .. Len(ps) /\ DOMAIN qs = 1 .. Len(ps) + 1 /\ Len(ps) \in Nat
    BY <1>1
  <1>3. DOMAIN controls \subseteq Nat
    OBVIOUS
  <1> HIDE DEF qs
  <1>4. Visited(n, controls, qs)
    BY <1>1, <1>2 DEF Visited
  <1>5. p.at = n => Visited(n + 1, controls, qs)
    BY <1>1, <1>2, <1>3, <1>4 DEF Visited
  <1>6. p.status = "failed" => Flawed(qs)
    BY <1>1, <1>2 DEF Flawed
  <1> QED
    BY <1>1, <1>4, <1>5, <1>6 DEF qs

LEMMA FirstOfThem ==
  ASSUME NEW S, NEW s \in Seq(S), NEW m \in 1 .. 50
  PROVE (IF Len(s) < 4 * m THEN Len(s) ELSE 4 * m) \in 0 .. Len(s)
  <1>1. Len(s) \in Nat
    OBVIOUS
  <1>2. \A k \in Nat : (IF k < 4 * m THEN k ELSE 4 * m) \in 0 .. k
    OBVIOUS
  <1> QED BY <1>1, <1>2

\* The page, the server, and the steps before the first probe.
LEMMA TalliedBefore ==
  ASSUME Tallied,
         \/ PageChanges \/ PageReports \/ ServerExits
         \/ CallBrowserQa \/ TargetAnswers \/ LoadPlaywright
         \/ Open("browser", "launch", "context") \/ Open("context", "context", "page")
         \/ Open("page", "page", "goto") \/ GotoTarget \/ Throws \/ ReadControls
  PROVE Tallied'
  <1> USE DEF Tallied, Starting, Visiting, Leaving, Ending
  <1>1. CASE PageChanges \/ PageReports \/ ServerExits
    <2>1. /\ UNCHANGED <<qa, at, found, place, probes, answered>>
          /\ shown' \in Seq(Control)
      BY <1>1, PagesAssumption
         DEF PageChanges, PageReports, ServerExits, pageVars, probeVars, endVars, BrowserTypes
    <2>2. answered.success /\ telemetry \cap Fatal \subseteq late
            => telemetry' \cap Fatal \subseteq late'
      BY <1>1 DEF PageChanges, PageReports, ServerExits, pageVars, Judged, NoAnswer
    <2> QED
      BY <2>1, <2>2 DEF BrowserTypes, HowFar, Deserved, GoneThrough, Tried, Fatal
  <1>2. CASE \/ CallBrowserQa \/ TargetAnswers \/ LoadPlaywright
             \/ Open("browser", "launch", "context") \/ Open("context", "context", "page")
             \/ Open("page", "page", "goto")
    <2>1. /\ UNCHANGED <<qa, shown, found, place, probes, answered>>
          /\ at \in Starting \ {"goto", "read"}
      BY <1>2 DEF CallBrowserQa, TargetAnswers, LoadPlaywright, Open,
                  pageVars, probeVars, endVars
    <2>2. at' \in (Starting \ {"read"}) \cup {"closePage", "returned", "dead"}
      BY <1>2 DEF CallBrowserQa, TargetAnswers, LoadPlaywright, Open, BrowserTypes, Request
    <2> QED
      BY <2>1, <2>2 DEF BrowserTypes, HowFar, Deserved
  <1>3. CASE GotoTarget
    <2>1. /\ UNCHANGED <<qa, found, probes, answered>> /\ shown' \in Seq(Control)
          /\ at = "goto" /\ place' = 1 /\ at' = IF qa.actions = <<>> THEN "read" ELSE "act"
      BY <1>3, PagesAssumption DEF GotoTarget, endVars
    <2>2. probes = <<>> /\ ~answered.success
      BY <2>1 DEF HowFar, Deserved
    <2>3. qa.actions # <<>> => 1 \in 1 .. Len(qa.actions)
      BY DEF BrowserTypes, Request
    <2> QED
      BY <2>1, <2>2, <2>3 DEF BrowserTypes, HowFar, Deserved
  <1>4. CASE Throws
    BY <1>4 DEF Throws, FailedAnswer, pageVars, probeVars, BrowserTypes, HowFar, Deserved
  <1>5. CASE ReadControls
    <2>1. /\ UNCHANGED <<qa, shown, place, probes, answered>>
          /\ at = "read" /\ at' = "candidate" /\ place = 1 /\ ~answered.success
      BY <1>5 DEF ReadControls, pageVars, endVars, HowFar, Deserved
    <2>2. PICK n \in 0 .. Len(shown) : found' = SubSeq(shown, 1, n)
      <3>1. qa.max \in 1 .. 50 /\ shown \in Seq(Control)
        BY DEF BrowserTypes, Request
      <3> QED BY <1>5, <3>1, FirstOfThem DEF ReadControls
    <2>3. found' \in Seq(Control) /\ DOMAIN found' \subseteq Nat \ {0}
      BY <2>2 DEF BrowserTypes
    <2>4. Visited(1, found', probes)
      BY <2>3 DEF Visited
    <2> QED
      BY <2>1, <2>3, <2>4 DEF BrowserTypes, HowFar, Deserved
  <1> QED BY <1>1, <1>2, <1>3, <1>4, <1>5

\* What is done with one control or one explicit action.
LEMMA TalliedProbing ==
  ASSUME Tallied,
         \/ ExecuteAction \/ SkipCandidate \/ LookAtCandidate \/ CandidateHidden
         \/ TryCandidate \/ Reload \/ TryAgain \/ TryFails \/ Reset \/ StopProbing
  PROVE Tallied'
  <1> USE DEF Tallied, Starting, Visiting, Leaving, Ending
  <1>a. /\ qa \in Request /\ probes \in Seq(Tested) /\ place \in Nat
        /\ found \in Seq(Control) /\ shown \in Seq(Control)
    BY DEF BrowserTypes
  <1>b. \A kind \in {"action", "press", "repeat", "reset"},
           status \in {"passed", "failed", "skipped"} :
          /\ Probe(kind, status) \in Tested /\ Probe(kind, status).at = place
          /\ Probe(kind, status).status = status
    BY <1>a DEF Probe, Tested
  <1>c. ~answered.success
    BY DEF ExecuteAction, SkipCandidate, LookAtCandidate, CandidateHidden, TryCandidate,
           Reload, TryAgain, TryFails, Reset, StopProbing, Deserved
  <1>1. CASE ExecuteAction
    <2>1. PICK status \in {"passed", "failed"} :
            /\ probes' = Append(probes, Probe("action", status))
            /\ IF (status = "passed" \/ qa.actions[place]) /\ place < Len(qa.actions)
               THEN at' = at /\ place' = place + 1
               ELSE at' = "screenshot" /\ place' = place
      BY <1>1 DEF ExecuteAction
    <2>2. /\ at = "act" /\ qa.actions # <<>> /\ place \in 1 .. Len(qa.actions)
          /\ Len(probes) = place - 1
          /\ UNCHANGED <<qa, shown, found, answered>>
      BY <1>1 DEF ExecuteAction, HowFar, pageVars, endVars
    <2>3. Visited(0, found, probes)
      BY <1>a DEF Visited
    <2>4. /\ probes' \in Seq(Tested) /\ Len(probes') = place
          /\ status = "failed" => Flawed(probes')
      BY <1>a, <1>b, <2>1, <2>2, <2>3, ProbeAdded
    <2>5. Len(qa.actions) \in Nat
      BY <1>a DEF Request
    <2>6. CASE at' = at /\ place' = place + 1 /\ place < Len(qa.actions)
      BY <1>a, <1>c, <2>2, <2>4, <2>5, <2>6 DEF BrowserTypes, HowFar, Deserved
    <2>7. CASE at' = "screenshot" /\ place' = place
               /\ (status = "failed" \/ place = Len(qa.actions))
      <3>1. Flawed(probes') \/ GoneThrough'
        BY <2>2, <2>4, <2>7 DEF GoneThrough
      <3> QED
        BY <1>a, <1>c, <2>2, <2>4, <2>7, <3>1 DEF BrowserTypes, HowFar, Deserved
    <2> QED
      BY <2>1, <2>2, <2>5, <2>6, <2>7
  <1>2. CASE SkipCandidate
    <2>1. /\ UNCHANGED <<qa, at, shown, found, answered>> /\ place' = place + 1
          /\ at = "candidate" /\ qa.actions = <<>>
          /\ Visited(place, found, probes)
          /\ probes' = Append(probes, Probe("press", "skipped"))
      BY <1>2 DEF SkipCandidate, HowFar, pageVars, endVars
    <2>2. probes' \in Seq(Tested) /\ Visited(place + 1, found, probes')
      BY <1>a, <1>b, <2>1, ProbeAdded
    <2> QED
      BY <1>a, <1>c, <2>1, <2>2 DEF BrowserTypes, HowFar, Deserved
  <1>3. CASE CandidateHidden \/ TryCandidate \/ TryAgain \/ TryFails
    <2>1. /\ UNCHANGED <<qa, found, place, answered>> /\ shown' \in Seq(Control)
          /\ at \in Visiting \cup Leaving /\ at' \in Leaving
      BY <1>3, <1>a, PagesAssumption
         DEF CandidateHidden, TryCandidate, TryAgain, TryFails, pageVars, endVars
    <2>2. PICK kind \in {"press", "repeat"}, status \in {"passed", "failed", "skipped"} :
            /\ probes' = Append(probes, Probe(kind, status))
      BY <1>3 DEF CandidateHidden, TryCandidate, TryAgain, TryFails
    <2>3. CASE at \in Visiting
      <3>1. probes' \in Seq(Tested) /\ Visited(place + 1, found, probes')
        BY <1>a, <1>b, <2>1, <2>2, <2>3, ProbeAdded DEF HowFar
      <3> QED
        BY <1>a, <1>c, <2>1, <2>3, <3>1 DEF BrowserTypes, HowFar, Deserved
    <2>4. CASE at \in Leaving
      <3>1. Visited(place + 1, found, probes) /\ place + 1 \in Nat
        BY <1>a, <2>4 DEF HowFar
      <3>2. probes' \in Seq(Tested) /\ Visited(place + 1, found, probes')
        BY <1>a, <1>b, <2>2, <3>1, ProbeAdded
      <3> QED
        BY <1>a, <1>c, <2>1, <2>4, <3>2 DEF BrowserTypes, HowFar, Deserved
    <2> QED BY <2>1, <2>3, <2>4
  <1>4. CASE LookAtCandidate \/ Reload
    <2>1. /\ UNCHANGED <<qa, found, place, probes, answered>> /\ shown' \in Seq(Control)
          /\ \/ at \in Visiting /\ at' \in Visiting
             \/ at \in Leaving /\ at' \in Leaving
      BY <1>4, <1>a, PagesAssumption DEF LookAtCandidate, Reload, pageVars, probeVars, endVars
    <2> QED
      BY <1>a, <1>c, <2>1 DEF BrowserTypes, HowFar, Deserved
  <1>5. CASE Reset
    <2>1. /\ at = "reset" /\ UNCHANGED <<qa, found, answered>>
          /\ qa.actions = <<>> /\ Visited(place + 1, found, probes)
      BY <1>5 DEF Reset, HowFar, endVars
    <2>2. CASE /\ at' = "candidate" /\ place' = place + 1 /\ shown' \in Pages
               /\ UNCHANGED probes
      BY <1>a, <1>c, <2>1, <2>2, PagesAssumption DEF BrowserTypes, HowFar, Deserved
    <2>3. CASE /\ at' = "screenshot" /\ probes' = Append(probes, Probe("reset", "failed"))
               /\ UNCHANGED <<place, shown>>
      <3>1. probes' \in Seq(Tested) /\ Flawed(probes')
        BY <1>a, <1>b, <2>1, <2>3, ProbeAdded
      <3> QED
        BY <1>a, <1>c, <2>1, <2>3, <3>1 DEF BrowserTypes, HowFar, Deserved
    <2> QED BY <1>5, <2>2, <2>3 DEF Reset
  <1>6. CASE StopProbing
    <2>1. /\ UNCHANGED <<qa, shown, found, place, probes, answered>>
          /\ at = "candidate" /\ at' = "screenshot" /\ qa.actions = <<>>
          /\ Visited(place, found, probes) /\ Enough
      BY <1>6 DEF StopProbing, HowFar, pageVars, probeVars, endVars
    <2>2. GoneThrough
      <3>1. CASE place > Len(found)
        BY <1>a, <2>1, <3>1 DEF Visited, GoneThrough
      <3>2. CASE Cardinality(Tried) >= qa.max
        BY <2>1, <3>2 DEF GoneThrough
      <3> QED BY <2>1, <3>1, <3>2 DEF Enough
    <2>3. GoneThrough'
      BY <2>1, <2>2 DEF GoneThrough, Tried
    <2> QED
      BY <1>a, <1>c, <2>1, <2>3 DEF BrowserTypes, HowFar, Deserved
  <1> QED BY <1>1, <1>2, <1>3, <1>4, <1>5, <1>6

\* The judgement, and what comes after it.
LEMMA TalliedAfter ==
  ASSUME Tallied,
         \/ JudgeProbes \/ ReportTitle \/ StopServer
         \/ Close("page", "closePage", "closeContext")
         \/ Close("context", "closeContext", "closeBrowser")
         \/ Close("browser", "closeBrowser", "stop")
  PROVE Tallied'
  <1> USE DEF Tallied, Starting, Visiting, Leaving, Ending
  <1>1. UNCHANGED <<qa, shown, found, place, probes, telemetry, late>>
    BY DEF JudgeProbes, ReportTitle, StopServer, Close, pageVars, probeVars
  <1>2. BrowserTypes' /\ (GoneThrough' <=> GoneThrough) /\ Fatal' = Fatal
    BY <1>1 DEF BrowserTypes, GoneThrough, Tried, Fatal
  <1>3. at' \in Ending
    BY DEF JudgeProbes, ReportTitle, StopServer, Close, AfterClose
  <1>4. HowFar'
    BY <1>3 DEF HowFar
  <1>5. CASE JudgeProbes
    <2>1. answered'.success => ~Flawed(probes) /\ telemetry \cap Fatal = {}
      BY <1>5 DEF JudgeProbes, Spotless, Flawed
    <2>2. Flawed(probes) \/ GoneThrough
      BY <1>5 DEF JudgeProbes, HowFar
    <2> QED BY <1>1, <1>2, <1>3, <1>4, <2>1, <2>2 DEF Deserved
  <1>6. CASE ~JudgeProbes
    <2>1. answered' = answered
      BY <1>6 DEF ReportTitle, StopServer, Close, endVars
    <2> QED BY <1>1, <1>2, <1>3, <1>4, <2>1 DEF Deserved
  <1> QED BY <1>5, <1>6

LEMMA TalliedStarts == BrowserInit => Tallied
  BY RequestsAssumption
     DEF BrowserInit, Tallied, BrowserTypes, HowFar, Deserved, NoAnswer,
         Starting, Visiting, Leaving

LEMMA TalliedKept == Tallied /\ [BrowserNext]_browserVars => Tallied'
  <1>1. Tallied /\ UNCHANGED browserVars => Tallied'
    BY DEF browserVars, pageVars, probeVars, endVars, Tallied, BrowserTypes, HowFar,
           Deserved, GoneThrough, Tried, Fatal
  <1> QED BY <1>1, TalliedBefore, TalliedProbing, TalliedAfter DEF BrowserNext

LEMMA TalliedPasses == Tallied => PassExercised
  BY DEF Tallied, Deserved, PassExercised, Flawed, GoneThrough

\* A check that succeeds has tried what it was asked to try, on every page.
THEOREM PassesAreExercised == BrowserSpec => []PassExercised
<1> QED
  BY TalliedPasses, TalliedStarts, TalliedKept, PTL DEF BrowserSpec

\* What is clicked, and how many controls are tried, at each await.
Spared(c) == ~c.foreign /\ (c.harmful => qa.allowed)
Again == {"reload", "lookAgain", "pressAgain"}
Margin ==
  IF at = "press" THEN -1 ELSE IF at \in Again THEN 0
  ELSE IF at \in {"candidate", "reset"} THEN 1 ELSE 2

Clicked ==
  /\ at \in Again \cup {"press"} => Spared(found[place])
  /\ at \in Again => \E q \in pressed : q.at = place /\ ~q.twice
  /\ \A p \in pressed : Spared(p.seen)
  /\ \A p \in pressed : p.twice => \E q \in pressed : q.at = p.at /\ ~q.twice

Counted == qa.actions = <<>> => Cardinality(Tried) <= qa.max + Margin

TriedIn(ps) == {i \in DOMAIN ps : ps[i].status # "skipped"}

LEMMA TriedFinite ==
  ASSUME NEW ps \in Seq(Tested)
  PROVE IsFiniteSet(TriedIn(ps)) /\ Cardinality(TriedIn(ps)) \in Nat
  <1>1. IsFiniteSet(1 .. Len(ps))
    BY FS_Interval
  <1> QED BY <1>1, FS_Subset, FS_CardinalityType DEF TriedIn

LEMMA TriedAdded ==
  ASSUME NEW ps \in Seq(Tested), NEW p \in Tested
  PROVE /\ Cardinality(TriedIn(Append(ps, p))) \in Nat
        /\ Cardinality(TriedIn(Append(ps, p))) <= Cardinality(TriedIn(ps)) + 1
        /\ p.status = "skipped" => TriedIn(Append(ps, p)) = TriedIn(ps)
  <1> DEFINE qs == Append(ps, p)
  <1>1. /\ Len(qs) = Len(ps) + 1 /\ qs[Len(ps) + 1] = p /\ Len(ps) \in Nat
        /\ \A j \in 1 .. Len(ps) : qs[j] = ps[j]
        /\ DOMAIN ps = 1 .. Len(ps) /\ DOMAIN qs = 1 .. Len(ps) + 1
    OBVIOUS
  <1> HIDE DEF qs
  <1>3. IsFiniteSet(TriedIn(ps)) /\ Cardinality(TriedIn(ps)) \in Nat
    BY TriedFinite
  <1>4. IsFiniteSet(TriedIn(ps) \cup {Len(ps) + 1})
    BY <1>3, FS_AddElement
  <1>5. Cardinality(TriedIn(ps) \cup {Len(ps) + 1}) <= Cardinality(TriedIn(ps)) + 1
    <2>1. \/ Cardinality(TriedIn(ps) \cup {Len(ps) + 1}) = Cardinality(TriedIn(ps))
          \/ Cardinality(TriedIn(ps) \cup {Len(ps) + 1}) = Cardinality(TriedIn(ps)) + 1
      BY <1>3, FS_AddElement
    <2> QED BY <1>3, <2>1
  <1>6. TriedIn(qs) \subseteq TriedIn(ps) \cup {Len(ps) + 1}
    BY <1>1 DEF TriedIn
  <1>7. /\ Cardinality(TriedIn(qs)) \in Nat
        /\ Cardinality(TriedIn(qs)) <= Cardinality(TriedIn(ps) \cup {Len(ps) + 1})
    BY <1>4, <1>6, FS_Subset, FS_CardinalityType
  <1>8. p.status = "skipped" => TriedIn(qs) = TriedIn(ps)
    BY <1>1 DEF TriedIn
  <1>9. Cardinality(TriedIn(ps) \cup {Len(ps) + 1}) \in Nat
    BY <1>4, FS_CardinalityType
  <1> QED
    BY <1>3, <1>5, <1>7, <1>8, <1>9 DEF qs

LEMMA ClickedKept ==
  ASSUME Tallied, Clicked, BrowserNext PROVE Clicked'
  <1> USE DEF Again
  <1>1. CASE /\ UNCHANGED <<qa, found, place, pressed>>
             /\ \/ at' \notin Again \cup {"press"}
                \/ at \in Again /\ at' \in Again
                \/ at' = at
    BY <1>1 DEF Clicked, Spared
  <1>2. CASE PageChanges \/ PageReports \/ ServerExits
    BY <1>1, <1>2 DEF PageChanges, PageReports, ServerExits, probeVars
  <1>3. CASE \/ CallBrowserQa \/ TargetAnswers \/ LoadPlaywright
             \/ Open("browser", "launch", "context") \/ Open("context", "context", "page")
             \/ Open("page", "page", "goto")
    <2>1. UNCHANGED <<qa, found, place, pressed>> /\ at' \notin Again \cup {"press"}
      BY <1>3 DEF CallBrowserQa, TargetAnswers, LoadPlaywright, Open, probeVars,
                  Tallied, BrowserTypes, Request
    <2> QED BY <1>1, <2>1
  <1>4. CASE GotoTarget \/ Throws \/ ExecuteAction \/ ReadControls \/ SkipCandidate \/ Reset
    <2>1. UNCHANGED <<qa, pressed>> /\ at' \notin Again \cup {"press"}
      BY <1>4 DEF GotoTarget, Throws, ExecuteAction, ReadControls, SkipCandidate, Reset,
                  probeVars
    <2> QED BY <2>1 DEF Clicked, Spared
  <1>5. CASE StopProbing \/ CandidateHidden \/ TryFails \/ JudgeProbes \/ ReportTitle \/ StopServer
    BY <1>1, <1>5
       DEF StopProbing, CandidateHidden, TryFails, JudgeProbes, ReportTitle, StopServer,
           probeVars
  <1>6. CASE \/ Close("page", "closePage", "closeContext")
             \/ Close("context", "closeContext", "closeBrowser")
             \/ Close("browser", "closeBrowser", "stop")
    BY <1>1, <1>6 DEF Close, AfterClose, probeVars
  <1>7. CASE Reload
    BY <1>1, <1>7 DEF Reload, probeVars
  <1>8. CASE LookAtCandidate
    <2>1. CASE at = "lookAgain" /\ at' = "pressAgain"
      BY <1>1, <1>8, <2>1 DEF LookAtCandidate, probeVars
    <2>2. CASE at' = "press" /\ ~Barred(found[place])
      <3>1. UNCHANGED <<qa, found, place, pressed>> /\ Spared(found[place])
        BY <1>8, <2>2 DEF LookAtCandidate, probeVars, Barred, Spared
      <3> QED BY <2>2, <3>1 DEF Clicked, Spared
    <2> QED BY <1>8, <2>1, <2>2 DEF LookAtCandidate
  <1>9. CASE TryCandidate
    <2> DEFINE click == [at |-> place, seen |-> found[place], now |-> shown[place],
                         twice |-> FALSE]
    <2>1. /\ at = "press" /\ UNCHANGED <<qa, found, place>>
          /\ at' = IF Repeats(found[place]) THEN "reload" ELSE "reset"
          /\ Spared(found[place])
          /\ pressed' = IF Clicks(found[place]) THEN pressed \cup {click} ELSE pressed
      BY <1>9 DEF TryCandidate, Press, Clicked
    <2>2. Repeats(found[place]) => Clicks(found[place])
      BY DEF Repeats, Clicks, Fills
    <2>3. click.at = place /\ ~click.twice /\ click.seen = found[place]
      OBVIOUS
    <2> HIDE DEF click
    <2> QED BY <2>1, <2>2, <2>3 DEF Clicked, Spared
  <1>10. CASE TryAgain
    <2> DEFINE click == [at |-> place, seen |-> found[place], now |-> shown[place],
                         twice |-> TRUE]
    <2>1. /\ at = "pressAgain" /\ UNCHANGED <<qa, found, place>> /\ at' = "reset"
          /\ Spared(found[place]) /\ pressed' = pressed \cup {click}
      BY <1>10 DEF TryAgain, Press, Clicked
    <2>2. click.at = place /\ click.twice /\ click.seen = found[place]
      OBVIOUS
    <2> HIDE DEF click
    <2> QED BY <2>1, <2>2 DEF Clicked, Spared
  <1> QED
    BY <1>2, <1>3, <1>4, <1>5, <1>6, <1>7, <1>8, <1>9, <1>10 DEF BrowserNext

LEMMA CountedKept ==
  ASSUME Tallied, Counted, BrowserNext PROVE Counted'
  <1> USE DEF Again
  <1>a. /\ qa \in Request /\ probes \in Seq(Tested) /\ place \in Nat /\ qa.max \in Nat
        /\ Tried = TriedIn(probes) /\ Tried' = TriedIn(probes')
    <2>1. qa \in Request /\ probes \in Seq(Tested) /\ place \in Nat
      BY DEF Tallied, BrowserTypes
    <2>2. qa.max \in 1 .. 50
      BY <2>1 DEF Request
    <2>3. qa.max \in Nat
      BY <2>2
    <2> QED BY <2>1, <2>3 DEF Tried, TriedIn
  <1>b. \A kind \in {"action", "press", "repeat", "reset"},
           status \in {"passed", "failed", "skipped"} :
          Probe(kind, status) \in Tested /\ Probe(kind, status).status = status
    BY <1>a DEF Probe, Tested
  <1>c. Cardinality(Tried) \in Nat /\ Margin \in -1 .. 2 /\ Margin' \in -1 .. 2
    BY <1>a, TriedFinite DEF Margin
  <1>d. qa' = qa
    BY DEF BrowserNext, PageChanges, PageReports, ServerExits, CallBrowserQa, TargetAnswers,
           LoadPlaywright, Open, GotoTarget, Throws, ExecuteAction, ReadControls, StopProbing,
           SkipCandidate, LookAtCandidate, CandidateHidden, TryCandidate, Reload, TryAgain,
           TryFails, Reset, JudgeProbes, ReportTitle, Close, StopServer
  <1>1. CASE probes' = probes /\ Margin <= Margin'
    BY <1>1, <1>a, <1>c, <1>d DEF Counted
  <1>2. CASE PageChanges \/ PageReports \/ ServerExits
    BY <1>1, <1>2, <1>c DEF PageChanges, PageReports, ServerExits, probeVars, Margin
  <1>3. CASE at \in Starting
    <2>1. probes = <<>> /\ at' # "press" /\ at' \notin Again
      BY <1>3, <1>a DEF Tallied, HowFar, BrowserNext, Starting, PageChanges, PageReports,
           ServerExits, CallBrowserQa, TargetAnswers, LoadPlaywright, Open, GotoTarget, Throws,
           ExecuteAction, ReadControls, StopProbing, SkipCandidate, LookAtCandidate,
           CandidateHidden, TryCandidate, Reload, TryAgain, TryFails, Reset, JudgeProbes,
           ReportTitle, Close, StopServer, Request
    <2>2. probes' = probes
      BY <1>3 DEF BrowserNext, Starting, PageChanges, PageReports,
           ServerExits, CallBrowserQa, TargetAnswers, LoadPlaywright, Open, GotoTarget, Throws,
           ExecuteAction, ReadControls, StopProbing, SkipCandidate, LookAtCandidate,
           CandidateHidden, TryCandidate, Reload, TryAgain, TryFails, Reset, JudgeProbes,
           ReportTitle, Close, StopServer, probeVars
    <2>3. Tried' = {}
      BY <2>1, <2>2 DEF Tried
    <2>4. Margin' >= 0
      BY <2>1 DEF Margin
    <2> QED BY <1>a, <1>d, <2>3, <2>4, FS_EmptySet, <1>c DEF Counted
  <1>4. CASE ExecuteAction
    BY <1>4, <1>d DEF ExecuteAction, Tallied, HowFar, Counted
  <1>5. CASE SkipCandidate
    BY <1>5, <1>1, <1>a, <1>b, <1>c, <1>d, TriedAdded DEF SkipCandidate, Counted, Margin
  <1>6. CASE LookAtCandidate
    <2>1. probes' = probes /\ \/ at = "lookAgain" /\ at' = "pressAgain"
                              \/ at' = "press" /\ ~(Cardinality(Tried) >= qa.max)
      BY <1>6 DEF LookAtCandidate, probeVars, Enough
    <2> QED BY <1>1, <2>1, <1>a, <1>c, <1>d DEF Counted, Margin
  <1>7. CASE CandidateHidden \/ TryCandidate \/ TryAgain \/ TryFails
    <2>1. PICK kind \in {"press", "repeat"}, status \in {"passed", "failed", "skipped"} :
            probes' = Append(probes, Probe(kind, status))
      BY <1>7 DEF CandidateHidden, TryCandidate, TryAgain, TryFails
    <2>2. Cardinality(Tried') \in Nat /\ Cardinality(Tried') <= Cardinality(Tried) + 1
      BY <1>a, <1>b, <2>1, TriedAdded
    <2>3. CASE at = "candidate" /\ at' = "reset" /\ ~(Cardinality(Tried) >= qa.max)
      BY <2>2, <2>3, <1>a, <1>c, <1>d DEF Counted, Margin
    <2>4. CASE at = "press" /\ at' \in {"reload", "reset"}
      BY <2>2, <2>4, <1>a, <1>c, <1>d DEF Counted, Margin
    <2>5. CASE at \in Again /\ at' = "reset"
      BY <2>2, <2>5, <1>a, <1>c, <1>d DEF Counted, Margin
    <2> QED
      BY <1>7, <2>3, <2>4, <2>5
         DEF CandidateHidden, TryCandidate, TryAgain, TryFails, Enough
  <1>8. CASE Reload \/ StopProbing
    BY <1>1, <1>8 DEF Reload, StopProbing, probeVars, Margin
  <1>9. CASE Reset
    <2>1. CASE at = "reset" /\ at' = "candidate" /\ UNCHANGED probes
      BY <1>1, <2>1 DEF Margin
    <2>2. CASE at = "reset" /\ at' = "screenshot"
               /\ probes' = Append(probes, Probe("reset", "failed"))
      <3>1. Cardinality(Tried') \in Nat /\ Cardinality(Tried') <= Cardinality(Tried) + 1
        BY <1>a, <1>b, <2>2, TriedAdded
      <3> QED BY <2>2, <3>1, <1>a, <1>c, <1>d DEF Counted, Margin
    <2> QED BY <1>9, <2>1, <2>2 DEF Reset
  <1>10. CASE Throws \/ JudgeProbes \/ ReportTitle \/ StopServer
              \/ Close("page", "closePage", "closeContext")
              \/ Close("context", "closeContext", "closeBrowser")
              \/ Close("browser", "closeBrowser", "stop")
    <2>1. probes' = probes /\ at' \in Ending
      BY <1>10 DEF Throws, JudgeProbes, ReportTitle, StopServer, Close, AfterClose, probeVars,
                   Ending
    <2> QED BY <1>1, <2>1 DEF Margin, Ending
  <1>11. CASE CallBrowserQa \/ TargetAnswers \/ LoadPlaywright \/ GotoTarget \/ ReadControls
              \/ Open("browser", "launch", "context") \/ Open("context", "context", "page")
              \/ Open("page", "page", "goto")
    <2>1. at \in Starting
      BY <1>11 DEF CallBrowserQa, TargetAnswers, LoadPlaywright, GotoTarget, ReadControls, Open,
                   Starting
    <2> QED BY <1>3, <2>1
  <1> QED
    BY <1>2, <1>4, <1>5, <1>6, <1>7, <1>8, <1>9, <1>10, <1>11 DEF BrowserNext

LEMMA ProbingStarts == BrowserInit => Tallied /\ Clicked /\ Counted
<1>1. BrowserInit => Tried = {}
  BY DEF BrowserInit, Tried
<1>2. BrowserInit => Counted
  <2> SUFFICES ASSUME BrowserInit PROVE Counted
    OBVIOUS
  <2>1. qa.max \in 1 .. 50
    BY RequestsAssumption DEF BrowserInit, Request
  <2>2. Margin = 2
    BY DEF BrowserInit, Margin, Again
  <2>3. Cardinality(Tried) = 0
    BY <1>1, FS_EmptySet
  <2>4. 0 <= qa.max + 2
    BY <2>1
  <2> QED BY <2>2, <2>3, <2>4 DEF Counted
<1>3. BrowserInit => Clicked
  BY DEF BrowserInit, Clicked, Again
<1>4. BrowserInit => Tallied
  BY TalliedStarts
<1> QED BY <1>2, <1>3, <1>4

LEMMA ProbingKept ==
  Tallied /\ Clicked /\ Counted /\ [BrowserNext]_browserVars
    => (Tallied /\ Clicked /\ Counted)'
<1>1. Clicked /\ Counted /\ UNCHANGED browserVars => Clicked' /\ Counted'
  BY DEF browserVars, pageVars, probeVars, endVars, Clicked, Spared, Counted, Tried, Margin
<1> QED BY <1>1, TalliedKept, ClickedKept, CountedKept

LEMMA ProbingSpares == Tallied /\ Clicked /\ Counted => ControlsSpared
<1> SUFFICES ASSUME Tallied, Clicked, Counted PROVE ControlsSpared
  OBVIOUS
<1>1. qa.max \in 1 .. 50 /\ probes \in Seq(Tested)
  BY DEF Tallied, BrowserTypes, Request
<1>2. Cardinality(Tried) \in Nat
  BY <1>1, TriedFinite DEF Tried, TriedIn
<1>3. Margin \in -1 .. 2
  BY DEF Margin
<1>4. qa.actions = <<>> => Cardinality(Tried) <= qa.max + 2
  <2>1. \A n, m \in Nat : \A g \in -1 .. 2 : n <= m + g => n <= m + 2
    OBVIOUS
  <2>2. \A m \in 1 .. 50 : m \in Nat
    OBVIOUS
  <2>3. qa.max \in Nat
    BY <1>1, <2>2
  <2> QED BY <1>2, <1>3, <2>1, <2>3 DEF Counted
<1> QED BY <1>4 DEF Clicked, Spared, ControlsSpared

\* Exploration spares what looks destructive, and is bounded, on every page.
THEOREM ControlsAreSpared == BrowserSpec => []ControlsSpared
<1> QED
  BY ProbingStarts, ProbingKept, ProbingSpares, PTL DEF BrowserSpec

\* What the page shows and reports, and what the caller gets.
Reported ==
  /\ qa \in Requests /\ shown \in Pages \cup {<<>>}
  /\ telemetry \subseteq Noise /\ late \subseteq telemetry
  /\ answered \in [available : BOOLEAN, success : BOOLEAN]
  /\ stuck \subseteq {"page", "context", "browser"}

LEMMA ReportedStarts == BrowserInit => Reported
  BY DEF BrowserInit, Reported, NoAnswer

LEMMA ReportedKept ==
  ASSUME Reported, [BrowserNext]_browserVars PROVE Reported'
  <1>1. CASE UNCHANGED <<qa, telemetry, late, answered, stuck>> /\ shown' \in Pages \cup {shown}
    BY <1>1 DEF Reported
  <1>2. CASE PageReports
    BY <1>2 DEF PageReports, Reported, endVars
  <1>3. CASE Throws \/ JudgeProbes
    <2>1. UNCHANGED <<qa, shown, telemetry, late, stuck>>
      BY <1>3 DEF Throws, JudgeProbes, pageVars
    <2>2. Spotless \in BOOLEAN BY DEF Spotless
    <2>3. \A b \in BOOLEAN :
            [available |-> TRUE, success |-> b] \in [available : BOOLEAN, success : BOOLEAN]
      OBVIOUS
    <2>4. answered' = [available |-> TRUE, success |-> FALSE]
          \/ answered' = [available |-> TRUE, success |-> Spotless]
      BY <1>3 DEF Throws, JudgeProbes, FailedAnswer
    <2>5. FALSE \in BOOLEAN OBVIOUS
    <2> DEFINE T == [available : BOOLEAN, success : BOOLEAN]
               clean == Spotless
    <2>6. clean \in BOOLEAN /\ \A b \in BOOLEAN : [available |-> TRUE, success |-> b] \in T
      BY <2>2, <2>3
    <2>7. answered' = [available |-> TRUE, success |-> FALSE]
          \/ answered' = [available |-> TRUE, success |-> clean]
      BY <2>4
    <2> HIDE DEF clean, T
    <2>8. answered' \in T BY <2>5, <2>6, <2>7, Zenon
    <2>9. answered' \in [available : BOOLEAN, success : BOOLEAN] BY <2>8 DEF T
    <2> QED BY <2>1, <2>9 DEF Reported
  <1>4. CASE \/ Close("page", "closePage", "closeContext")
             \/ Close("context", "closeContext", "closeBrowser")
             \/ Close("browser", "closeBrowser", "stop")
    BY <1>4 DEF Close, Reported, pageVars
  <1>5. CASE PageChanges \/ ServerExits \/ CallBrowserQa \/ TargetAnswers \/ LoadPlaywright
    BY <1>1, <1>5 DEF PageChanges, ServerExits, CallBrowserQa, TargetAnswers, LoadPlaywright,
                      pageVars, endVars
  <1>6. CASE Open("browser", "launch", "context") \/ Open("context", "context", "page")
               \/ Open("page", "page", "goto")
    BY <1>1, <1>6 DEF Open, pageVars, endVars
  <1>7. CASE GotoTarget \/ ExecuteAction \/ ReadControls \/ StopProbing \/ SkipCandidate
    BY <1>1, <1>7 DEF GotoTarget, ExecuteAction, ReadControls, StopProbing, SkipCandidate,
                      pageVars, endVars
  <1>8. CASE LookAtCandidate \/ CandidateHidden \/ TryCandidate \/ Reload \/ TryAgain
    BY <1>1, <1>8 DEF LookAtCandidate, CandidateHidden, TryCandidate, Reload, TryAgain,
                      pageVars, endVars
  <1>9. CASE TryFails \/ Reset \/ ReportTitle \/ StopServer
    BY <1>1, <1>9 DEF TryFails, Reset, ReportTitle, StopServer, pageVars, endVars
  <1>10. CASE UNCHANGED browserVars
    BY <1>1, <1>10 DEF browserVars, pageVars, endVars
  <1> QED
    BY <1>2, <1>3, <1>4, <1>5, <1>6, <1>7, <1>8, <1>9, <1>10 DEF BrowserNext

LEMMA BrowserTyped == Held /\ Tallied /\ Reported => BrowserTypeOK
  <1> SUFFICES ASSUME Held, Tallied, Reported PROVE BrowserTypeOK OBVIOUS
  <1>1. \A i \in DOMAIN probes : probes[i] \in Tested BY DEF Tallied, BrowserTypes
  <1>2. \A i \in DOMAIN probes :
          /\ probes[i].at \in Nat /\ probes[i].kind \in {"action", "press", "repeat", "reset"}
          /\ probes[i].status \in {"passed", "failed", "skipped"}
    BY <1>1 DEF Tested
  <1> QED BY <1>2 DEF Held, Tallied, BrowserTypes, Reported, BrowserTypeOK

-----------------------------------------------------------------------------
(* The state store. *)

CallerRecord ==
  [pc : {"away", "open", "write", "rename"}, draft : Document, save : Nat,
   name : Caller \cup {0}, file : Inode \cup {NoFile}, shared : BOOLEAN]

StoreTypes ==
  /\ stateMd \in Inode \cup {NoFile}
  /\ temp \in [Caller -> Inode \cup {NoFile}]
  /\ text \in [Inode -> Document]
  /\ caller \in [Caller -> CallerRecord]
  /\ begun \in 0 .. MaxSaves
  /\ \A c \in Caller : Writing(c) => caller[c].name \in Caller /\ caller[c].file \in Inode

\* What no other call was near to, and a state that is made of all of it.
Settled == saved \ (raced \cup clashed)

WholeAt(doc, n, settled) ==
  /\ doc.saves \subseteq 1 .. n
  /\ doc.revision = Cardinality(doc.saves)
  /\ settled \subseteq doc.saves

Whole(doc) == WholeAt(doc, begun, Settled)

TempFile(c) == temp[caller[c].name]

DraftsWhole ==
  \A c \in Caller : caller[c].pc # "away" =>
    Whole(caller[c].draft) /\ caller[c].save \in caller[c].draft.saves

\* A caller that shares its temporary name with nobody has the file to itself.
OwnTemp ==
  \A c \in Caller : Writing(c) /\ ~caller[c].shared =>
    /\ TempFile(c) = caller[c].file
    /\ caller[c].pc = "rename" => text[caller[c].file] = caller[c].draft
    /\ caller[c].file # stateMd
    /\ \A d \in Caller \ {c} : Writing(d) =>
         /\ caller[d].name # caller[c].name
         /\ caller[d].file # caller[c].file
         /\ TempFile(d) # caller[c].file

NamesApart ==
  \A c, d \in Caller :
    /\ Writing(c) /\ Writing(d) /\ caller[c].name # caller[d].name
    /\ TempFile(c) # NoFile
    => TempFile(c) # TempFile(d)

TempsWhole ==
  \A c \in Caller : Writing(c) /\ TempFile(c) # NoFile =>
    /\ TempFile(c) # stateMd
    /\ text[TempFile(c)] = Empty \/ Whole(text[TempFile(c)])

StateWhole ==
  /\ stateMd = NoFile => saved = {}
  /\ stateMd # NoFile =>
       IF text[stateMd] = Empty THEN clashed # {} ELSE Whole(text[stateMd])

StoreWhole ==
  /\ StoreTypes /\ DraftsWhole /\ OwnTemp /\ NamesApart /\ TempsWhole /\ StateWhole

\* A state begun on top of a whole one is whole.
LEMMA DraftWhole ==
  ASSUME NEW n \in Nat, n < MaxSaves, NEW settled,
         NEW saves \in SUBSET (1 .. n), settled \subseteq saves, NEW marked \in BOOLEAN
  PROVE /\ Cardinality(saves) \in Nat
        /\ LET doc == [revision |-> Cardinality(saves) + 1, saves |-> saves \cup {n + 1},
                       marked |-> marked]
           IN  doc \in Document /\ WholeAt(doc, n + 1, settled)
  <1>1. IsFiniteSet(saves)
    <2>1. 1 \in Int /\ n \in Int
      OBVIOUS
    <2>2. IsFiniteSet(1 .. n)
      BY <2>1, FS_Interval
    <2> QED BY <2>2, FS_Subset
  <1>2. n + 1 \notin saves
    OBVIOUS
  <1>3. Cardinality(saves \cup {n + 1}) = Cardinality(saves) + 1
    BY <1>1, <1>2, FS_AddElement
  <1>4. Cardinality(saves) \in Nat
    BY <1>1, FS_CardinalityType
  <1>5. saves \cup {n + 1} \subseteq 1 .. n + 1
    OBVIOUS
  <1>6. 1 .. n + 1 \subseteq Save
    BY StateAssumption DEF Save
  <1> QED BY <1>3, <1>4, <1>5, <1>6 DEF WholeAt, Document

\* What is whole stays so while more is begun and nothing more settled.
LEMMA WholeKept ==
  ASSUME NEW n \in Nat, NEW m \in Nat, n <= m, NEW settled, NEW fewer,
         fewer \subseteq settled, NEW doc, WholeAt(doc, n, settled)
  PROVE WholeAt(doc, m, fewer)
  BY DEF WholeAt

\* Callers that only go away, or begin to open, disturb nobody who writes.
LEMMA OthersKept ==
  ASSUME StoreWhole, caller' \in [Caller -> CallerRecord],
         \A c \in Caller : \/ caller'[c] = caller[c]
                           \/ ~Writing(c)',
         begun' \in begun .. MaxSaves,
         UNCHANGED <<stateMd, temp, text, saved, raced, clashed>>,
         DraftsWhole'
  PROVE StoreWhole'
  <1>1. begun \in Nat /\ begun' \in Nat /\ begun <= begun' /\ begun' \in 0 .. MaxSaves
    BY StateAssumption DEF StoreWhole, StoreTypes
  <1>2. \A c \in Caller : Writing(c)' => Writing(c) /\ caller'[c] = caller[c]
    BY DEF Writing
  <1>3. Settled' = Settled
    BY DEF Settled
  <1>4. \A doc : Whole(doc) => WholeAt(doc, begun', Settled')
    BY <1>1, <1>3, WholeKept DEF Whole
  <1>5. StoreTypes'
    BY <1>1, <1>2 DEF StoreWhole, StoreTypes
  <1>6. OwnTemp'
    BY <1>2 DEF StoreWhole, OwnTemp, TempFile
  <1>7. NamesApart'
    BY <1>2 DEF StoreWhole, NamesApart, TempFile
  <1>8. TempsWhole'
    BY <1>2, <1>4 DEF StoreWhole, TempsWhole, TempFile, Whole
  <1>9. StateWhole'
    BY <1>4 DEF StoreWhole, StateWhole, Whole
  <1> QED BY <1>5, <1>6, <1>7, <1>8, <1>9 DEF StoreWhole

LEMMA BeginsWhole ==
  ASSUME StoreWhole, NEW c \in Caller, NEW saves \in SUBSET (1 .. begun),
         Settled \subseteq saves, Drafts(c, Cardinality(saves) + 1, saves)
  PROVE StoreWhole'
  <1>1. begun \in Nat /\ MaxSaves \in Nat /\ begun < MaxSaves /\ begun' = begun + 1
    BY StateAssumption DEF StoreWhole, StoreTypes, Drafts
  <1>2. PICK marked \in BOOLEAN :
          LET draft == [revision |-> Cardinality(saves) + 1,
                        saves |-> saves \cup {begun + 1}, marked |-> marked]
          IN  caller' = [caller EXCEPT ![c] = NotWriting("open", draft, begun + 1)]
    BY DEF Drafts
  <1> DEFINE doc == [revision |-> Cardinality(saves) + 1, saves |-> saves \cup {begun + 1},
                     marked |-> marked]
  <1>3. doc \in Document /\ WholeAt(doc, begun + 1, Settled)
    BY <1>1, DraftWhole
  <1>4. caller \in [Caller -> CallerRecord]
    BY DEF StoreWhole, StoreTypes
  <1>5. caller' = [caller EXCEPT ![c] =
          [pc |-> "open", draft |-> doc, save |-> begun + 1, name |-> 0, file |-> NoFile,
           shared |-> FALSE]]
    BY <1>2 DEF NotWriting
  <1>6. UNCHANGED <<stateMd, temp, text, saved, raced, clashed>>
    BY DEF Drafts
  <1>7. Settled' = Settled
    BY <1>6 DEF Settled
  <1>8. \A d : Whole(d) => WholeAt(d, begun', Settled')
    BY <1>1, <1>7, WholeKept DEF Whole
  <1> HIDE DEF doc
  <1>9. caller' \in [Caller -> CallerRecord]
    BY <1>1, <1>3, <1>4, <1>5 DEF CallerRecord
  <1>10. caller'[c].pc = "open" /\ caller'[c].draft = doc /\ caller'[c].save = begun + 1
         /\ \A d \in Caller \ {c} : caller'[d] = caller[d]
    BY <1>4, <1>5
  <1>11. begun + 1 \in doc.saves
    BY DEF doc
  <1>12. DraftsWhole'
    <2> SUFFICES ASSUME NEW d \in Caller, caller'[d].pc # "away"
                 PROVE /\ WholeAt(caller'[d].draft, begun', Settled')
                       /\ caller'[d].save \in caller'[d].draft.saves
      BY DEF DraftsWhole, Whole
    <2>1. CASE d = c
      BY <1>1, <1>3, <1>7, <1>10, <1>11, <2>1
    <2>2. CASE d # c
      BY <1>8, <1>10, <2>2 DEF StoreWhole, DraftsWhole
    <2> QED BY <2>1, <2>2
  <1> QED
    <2>1. \A d \in Caller : caller'[d] = caller[d] \/ ~Writing(d)'
      BY <1>10 DEF Writing
    <2>2. begun' \in begun .. MaxSaves
      BY <1>1
    <2> QED BY <1>6, <1>9, <1>12, <2>1, <2>2, OthersKept

LEMMA StateBegun ==
  ASSUME StoreWhole, NEW c \in Caller, InitState(c) \/ UpdateState(c) PROVE StoreWhole'
  <1>1. CASE InitState(c)
    <2>1. Settled = {}
      BY <1>1 DEF InitState, MayInit, StoreWhole, StateWhole, Settled
    <2>2. Cardinality({}) + 1 = 1
      BY FS_EmptySet
    <2>3. Drafts(c, Cardinality({}) + 1, {})
      BY <1>1, <2>2 DEF InitState
    <2> QED BY <2>1, <2>3, BeginsWhole
  <1>2. CASE UpdateState(c)
    <2>1. Whole(text[stateMd])
      BY <1>2 DEF UpdateState, Readable, StoreWhole, StateWhole
    <2>2. Drafts(c, Cardinality(text[stateMd].saves) + 1, text[stateMd].saves)
      BY <1>2, <2>1 DEF UpdateState, Whole, WholeAt
    <2>3. text[stateMd].saves \in SUBSET (1 .. begun) /\ Settled \subseteq text[stateMd].saves
      BY <2>1 DEF Whole, WholeAt
    <2> QED BY <2>2, <2>3, BeginsWhole
  <1> QED BY <1>1, <1>2

LEMMA GoneAway ==
  ASSUME StoreWhole, (\E c \in Caller : ThrowState(c)) \/ (\E p \in Process : StopProcess(p))
  PROVE StoreWhole'
  <1>1. \A c \in Caller : caller'[c] = caller[c] \/ caller'[c] = Away
    BY DEF StoreWhole, StoreTypes, ThrowState, StopProcess
  <1>2. DOMAIN caller' = Caller /\ caller' = [c \in Caller |-> caller'[c]]
    BY DEF StoreWhole, StoreTypes, ThrowState, StopProcess
  <1>3. Away \in CallerRecord
    BY DEF Away, NotWriting, CallerRecord, Document, Empty
  <1>4. caller' \in [Caller -> CallerRecord]
    BY <1>1, <1>2, <1>3 DEF StoreWhole, StoreTypes
  <1>5. UNCHANGED <<stateMd, temp, text, begun, saved, raced, clashed>>
    BY DEF ThrowState, StopProcess
  <1>6. begun' \in begun .. MaxSaves
    BY <1>5, StateAssumption DEF StoreWhole, StoreTypes
  <1>7. \A c \in Caller : caller'[c] = caller[c] \/ ~Writing(c)'
    BY <1>1 DEF Writing, Away, NotWriting
  <1>8. DraftsWhole'
    <2> SUFFICES ASSUME NEW c \in Caller, caller'[c].pc # "away"
                 PROVE /\ WholeAt(caller'[c].draft, begun', Settled')
                       /\ caller'[c].save \in caller'[c].draft.saves
      BY DEF DraftsWhole, Whole
    <2>1. caller'[c] = caller[c]
      BY <1>1 DEF Away, NotWriting
    <2>2. begun' = begun /\ Settled' = Settled
      BY <1>5 DEF Settled
    <2> QED BY <2>1, <2>2 DEF StoreWhole, DraftsWhole, Whole
  <1> QED BY <1>4, <1>5, <1>6, <1>7, <1>8, OthersKept

\* A temporary file is created or emptied: it is no other caller's own, and
\* STATE.md does not lead to it.
LEMMA OpensWhole ==
  ASSUME StoreWhole, NEW c \in Caller, caller[c].pc = "open",
         NEW name \in Caller, NEW file \in Inode, NEW shared \in BOOLEAN,
         Opens(c, name, file, shared), file # stateMd,
         \A d \in Caller : Writing(d) /\ caller[d].name # name =>
           TempFile(d) # file /\ (caller[d].shared \/ caller[d].file # file),
         shared \/ \A d \in Caller : Writing(d) =>
                     caller[d].name # name /\ caller[d].file # file
  PROVE StoreWhole'
  <1>1. caller \in [Caller -> CallerRecord] /\ temp \in [Caller -> Inode \cup {NoFile}]
        /\ text \in [Inode -> Document] /\ Empty \in Document
    BY DEF StoreWhole, StoreTypes, Document, Empty
  <1>2. UNCHANGED <<stateMd, begun, saved, raced, clashed>> /\ Settled' = Settled
    BY DEF Opens, Settled
  <1>3. temp' = [temp EXCEPT ![name] = file] /\ text' = [text EXCEPT ![file] = Empty]
    BY DEF Opens
  <1>4. /\ caller'[c].pc = "write" /\ caller'[c].name = name /\ caller'[c].file = file
        /\ caller'[c].shared = shared
        /\ caller'[c].draft = caller[c].draft /\ caller'[c].save = caller[c].save
        /\ caller'[c] \in CallerRecord
    BY <1>1 DEF Opens, CallerRecord
  <1>5. \A d \in Caller \ {c} :
          /\ caller'[d].pc = caller[d].pc /\ caller'[d].name = caller[d].name
          /\ caller'[d].file = caller[d].file /\ caller'[d].draft = caller[d].draft
          /\ caller'[d].save = caller[d].save /\ caller'[d] \in CallerRecord
          /\ ~caller'[d].shared =>
               ~caller[d].shared /\ (Writing(d) => caller[d].name # name)
    BY <1>1 DEF Opens, CallerRecord
  <1>6. \A d \in Caller \ {c} : Writing(d)' <=> Writing(d)
    BY <1>5 DEF Writing
  <1>7. StoreTypes'
    <2>1. caller' = [d \in Caller |-> caller'[d]]
      BY DEF Opens
    <2>2. caller' \in [Caller -> CallerRecord]
      BY <1>4, <1>5, <2>1
    <2> QED BY <1>1, <1>2, <1>3, <1>4, <1>5, <1>6, <2>2 DEF StoreWhole, StoreTypes
  <1>8. DraftsWhole'
    <2> SUFFICES ASSUME NEW d \in Caller, caller'[d].pc # "away"
                 PROVE Whole(caller[d].draft) /\ caller[d].save \in caller[d].draft.saves
      BY <1>2, <1>4, <1>5 DEF DraftsWhole, Whole
    <2> QED BY <1>5 DEF StoreWhole, DraftsWhole
  <1>9. \A d \in Caller : Writing(d)' =>
          TempFile(d)' = IF caller'[d].name = name THEN file ELSE TempFile(d)
    BY <1>1, <1>3, <1>4, <1>5, <1>6 DEF StoreWhole, StoreTypes, TempFile
  <1>10. OwnTemp'
    <2> SUFFICES ASSUME NEW d \in Caller, Writing(d)', ~caller'[d].shared
                 PROVE /\ TempFile(d)' = caller'[d].file
                       /\ caller'[d].pc = "rename" => text'[caller'[d].file] = caller'[d].draft
                       /\ caller'[d].file # stateMd
                       /\ \A e \in Caller \ {d} : Writing(e)' =>
                            /\ caller'[e].name # caller'[d].name
                            /\ caller'[e].file # caller'[d].file
                            /\ TempFile(e)' # caller'[d].file
      BY <1>2 DEF OwnTemp
    <2>1. CASE d = c
      BY <1>4, <1>5, <1>6, <1>9, <2>1
    <2>2. CASE d # c
      <3>1. Writing(d) /\ ~caller[d].shared /\ caller[d].name # name
            /\ caller[d].file # file
        BY <1>5, <1>6, <2>2
      <3>2. /\ TempFile(d) = caller[d].file
            /\ caller[d].pc = "rename" => text[caller[d].file] = caller[d].draft
            /\ caller[d].file # stateMd
            /\ \A e \in Caller \ {d} : Writing(e) =>
                 /\ caller[e].name # caller[d].name
                 /\ caller[e].file # caller[d].file
                 /\ TempFile(e) # caller[d].file
        BY <3>1 DEF StoreWhole, OwnTemp
      <3>3. text'[caller[d].file] = text[caller[d].file]
        BY <1>1, <1>3, <3>1
      <3> QED BY <1>4, <1>5, <1>6, <1>9, <2>2, <3>1, <3>2, <3>3
    <2> QED BY <2>1, <2>2
  <1>11. NamesApart'
    <2> SUFFICES ASSUME NEW d \in Caller, NEW e \in Caller, Writing(d)', Writing(e)',
                        caller'[d].name # caller'[e].name, TempFile(d)' # NoFile
                 PROVE TempFile(d)' # TempFile(e)'
      BY DEF NamesApart
    <2>1. caller'[d].name # name => d # c /\ Writing(d) /\ TempFile(d) # file
                                    /\ TempFile(d)' = TempFile(d)
      BY <1>4, <1>5, <1>6, <1>9
    <2>2. caller'[e].name # name => e # c /\ Writing(e) /\ TempFile(e) # file
                                    /\ TempFile(e)' = TempFile(e)
      BY <1>4, <1>5, <1>6, <1>9
    <2>3. CASE caller'[d].name = name \/ caller'[e].name = name
      BY <1>9, <2>1, <2>2, <2>3
    <2>4. CASE caller'[d].name # name /\ caller'[e].name # name
      BY <1>5, <2>1, <2>2, <2>4 DEF StoreWhole, NamesApart
    <2> QED BY <2>3, <2>4
  <1>12. TempsWhole'
    <2> SUFFICES ASSUME NEW d \in Caller, Writing(d)', TempFile(d)' # NoFile
                 PROVE /\ TempFile(d)' # stateMd
                       /\ text'[TempFile(d)'] = Empty \/ Whole(text'[TempFile(d)'])
      BY <1>2 DEF TempsWhole, Whole
    <2>1. CASE caller'[d].name = name
      BY <1>1, <1>3, <1>9, <2>1
    <2>2. CASE caller'[d].name # name
      <3>1. d # c /\ Writing(d) /\ TempFile(d) # file /\ TempFile(d)' = TempFile(d)
        BY <1>4, <1>5, <1>6, <1>9, <2>2
      <3>2. TempFile(d) \in Inode
        BY <1>1, <3>1 DEF StoreWhole, StoreTypes, TempFile
      <3> QED BY <1>1, <1>3, <3>1, <3>2 DEF StoreWhole, TempsWhole
    <2> QED BY <2>1, <2>2
  <1>13. StateWhole'
    <2>1. stateMd # NoFile => text'[stateMd] = text[stateMd]
      BY <1>1, <1>3 DEF StoreWhole, StoreTypes
    <2> QED BY <1>2, <2>1 DEF StoreWhole, StateWhole, Whole
  <1> QED BY <1>7, <1>8, <1>10, <1>11, <1>12, <1>13 DEF StoreWhole

LEMMA TempOpened ==
  ASSUME StoreWhole, NEW c \in Caller, OpenTemp(c) \/ OpenSameTemp(c) PROVE StoreWhole'
  <1>1. Unused \in Spare
    BY DEF OpenTemp, OpenSameTemp, Unused
  <1>2. /\ Unused \in Inode /\ Unused # stateMd
        /\ \A d \in Caller : Writing(d) => Unused # caller[d].file /\ Unused # TempFile(d)
    BY <1>1 DEF Spare, TempFile
  <1>3. CASE OpenTemp(c)
    <2>1. PICK name \in NewNames : Opens(c, name, Unused, FALSE)
      BY <1>3 DEF OpenTemp
    <2>2. name \in Caller /\ \A d \in Caller : Writing(d) => caller[d].name # name
      BY DEF NewNames
    <2>3. caller[c].pc = "open"
      BY <1>3 DEF OpenTemp
    <2>4. \A d \in Caller : Writing(d) /\ caller[d].name # name =>
            TempFile(d) # Unused /\ (caller[d].shared \/ caller[d].file # Unused)
      BY <1>2
    <2>5. \A d \in Caller : Writing(d) => caller[d].name # name /\ caller[d].file # Unused
      BY <1>2, <2>2
    <2>6. FALSE \in BOOLEAN /\ Unused \in Inode /\ Unused # stateMd /\ name \in Caller
      BY <1>2, <2>2
    <2> QED BY <2>1, <2>3, <2>4, <2>5, <2>6, OpensWhole, Zenon
  <1>4. CASE OpenSameTemp(c)
    <2>1. PICK d \in Caller \ {c} :
            /\ Writing(d)
            /\ Opens(c, caller[d].name,
                     IF TempFile(d) = NoFile THEN Unused ELSE TempFile(d), TRUE)
      BY <1>4 DEF OpenSameTemp, TempFile
    <2>2. caller[d].name \in Caller /\ caller[c].pc = "open"
      BY <1>4, <2>1 DEF OpenSameTemp, StoreWhole, StoreTypes
    <2>3. CASE TempFile(d) = NoFile
      <3>1. PICK name \in Caller, file \in Inode, shared \in BOOLEAN :
              name = caller[d].name /\ file = Unused /\ shared = TRUE
        BY <1>2, <2>2
      <3>2. Opens(c, name, file, shared) /\ file # stateMd
        BY <1>2, <2>1, <2>3, <3>1
      <3>3. \A e \in Caller : Writing(e) /\ caller[e].name # name =>
              TempFile(e) # file /\ (caller[e].shared \/ caller[e].file # file)
        BY <1>2, <3>1
      <3>4. shared \/ \A e \in Caller : Writing(e) =>
                        caller[e].name # name /\ caller[e].file # file
        BY <3>1
      <3> QED BY <2>2, <3>2, <3>3, <3>4, OpensWhole
    <2>4. CASE TempFile(d) # NoFile
      <3>1. TempFile(d) \in Inode /\ TempFile(d) # stateMd
        BY <2>1, <2>2, <2>4 DEF StoreWhole, StoreTypes, TempsWhole, TempFile
      <3>2. PICK name \in Caller, file \in Inode, shared \in BOOLEAN :
              name = caller[d].name /\ file = TempFile(d) /\ shared = TRUE
        BY <2>2, <3>1
      <3>3. Opens(c, name, file, shared) /\ file # stateMd
        BY <2>1, <2>4, <3>1, <3>2
      <3>4. \A e \in Caller : Writing(e) /\ caller[e].name # name =>
              TempFile(e) # file /\ (caller[e].shared \/ caller[e].file # file)
        BY <2>1, <2>4, <3>2 DEF StoreWhole, NamesApart, OwnTemp
      <3>5. shared \/ \A e \in Caller : Writing(e) =>
                        caller[e].name # name /\ caller[e].file # file
        BY <3>2
      <3> QED BY <2>2, <3>3, <3>4, <3>5, OpensWhole
    <2> QED BY <2>3, <2>4
  <1> QED BY <1>3, <1>4

LEMMA TempWritten ==
  ASSUME StoreWhole, NEW c \in Caller, WriteTemp(c) PROVE StoreWhole'
  <1>1. caller \in [Caller -> CallerRecord] /\ temp \in [Caller -> Inode \cup {NoFile}]
        /\ text \in [Inode -> Document] /\ caller[c].file \in Inode
        /\ caller[c].pc = "write" /\ Writing(c)
    BY DEF StoreWhole, StoreTypes, WriteTemp, Writing
  <1>2. UNCHANGED <<stateMd, temp, begun, saved, raced, clashed>> /\ Settled' = Settled
    BY DEF WriteTemp, Settled
  <1>3. text' = [text EXCEPT ![caller[c].file] = caller[c].draft]
    BY DEF WriteTemp
  <1>4. caller' = [caller EXCEPT ![c].pc = "rename"]
    BY DEF WriteTemp
  <1>5. \A d \in Caller :
          /\ caller'[d].pc = IF d = c THEN "rename" ELSE caller[d].pc
          /\ caller'[d].name = caller[d].name /\ caller'[d].file = caller[d].file
          /\ caller'[d].draft = caller[d].draft /\ caller'[d].save = caller[d].save
          /\ caller'[d].shared = caller[d].shared
    BY <1>1, <1>4 DEF CallerRecord
  <1>6. \A d \in Caller : Writing(d)' <=> Writing(d)
    BY <1>1, <1>5 DEF Writing
  <1>7. \A d \in Caller : TempFile(d)' = TempFile(d)
    BY <1>2, <1>5 DEF TempFile
  <1>8. /\ Whole(caller[c].draft) /\ caller[c].draft # Empty
        /\ caller[c].draft \in Document
    BY <1>1 DEF StoreWhole, DraftsWhole, Empty, CallerRecord
  <1>9. StoreTypes'
    <2>1. caller' \in [Caller -> CallerRecord]
      BY <1>1, <1>4 DEF CallerRecord
    <2>2. text' \in [Inode -> Document]
      BY <1>1, <1>3, <1>8
    <2> QED BY <1>2, <1>5, <1>6, <2>1, <2>2 DEF StoreWhole, StoreTypes
  <1>10. DraftsWhole'
    <2> SUFFICES ASSUME NEW d \in Caller, caller'[d].pc # "away"
                 PROVE Whole(caller[d].draft) /\ caller[d].save \in caller[d].draft.saves
      BY <1>2, <1>5 DEF DraftsWhole, Whole
    <2>1. caller[d].pc # "away"
      BY <1>1, <1>5
    <2> QED BY <2>1 DEF StoreWhole, DraftsWhole
  <1>11. OwnTemp'
    <2> SUFFICES ASSUME NEW d \in Caller, Writing(d), ~caller[d].shared,
                        caller'[d].pc = "rename"
                 PROVE text'[caller[d].file] = caller[d].draft
      BY <1>2, <1>5, <1>6, <1>7 DEF StoreWhole, OwnTemp
    <2>1. CASE d = c
      BY <1>1, <1>3, <2>1
    <2>2. CASE d # c
      <3>1. caller[d].pc = "rename" /\ caller[c].file # caller[d].file
            /\ text[caller[d].file] = caller[d].draft /\ caller[d].file \in Inode
        BY <1>1, <1>5, <2>2 DEF StoreWhole, OwnTemp, StoreTypes
      <3> QED BY <1>1, <1>3, <3>1
    <2> QED BY <2>1, <2>2
  <1>12. NamesApart'
    BY <1>5, <1>6, <1>7 DEF StoreWhole, NamesApart
  <1>13. \A file \in Inode :
           text'[file] = text[file] \/ (Whole(text'[file]) /\ text'[file] # Empty)
    <2> TAKE file \in Inode
    <2>1. CASE file = caller[c].file
      BY <1>1, <1>3, <1>8, <2>1
    <2>2. CASE file # caller[c].file
      BY <1>1, <1>3, <2>2
    <2> QED BY <2>1, <2>2
  <1>14. TempsWhole'
    <2> SUFFICES ASSUME NEW d \in Caller, Writing(d), TempFile(d) # NoFile
                 PROVE /\ TempFile(d) # stateMd
                       /\ text'[TempFile(d)] = Empty \/ Whole(text'[TempFile(d)])
      BY <1>2, <1>6, <1>7 DEF TempsWhole, Whole
    <2>1. TempFile(d) \in Inode
      BY <1>1 DEF StoreWhole, StoreTypes, TempFile
    <2> QED BY <1>13, <2>1 DEF StoreWhole, TempsWhole
  <1>15. StateWhole'
    <2>1. stateMd # NoFile => stateMd \in Inode
      BY DEF StoreWhole, StoreTypes
    <2> QED BY <1>2, <1>13, <2>1 DEF StoreWhole, StateWhole, Whole
  <1> QED BY <1>9, <1>10, <1>11, <1>12, <1>14, <1>15 DEF StoreWhole

LEMMA TempRenamed ==
  ASSUME StoreWhole, NEW c \in Caller, Rename(c) PROVE StoreWhole'
  <1>1. caller \in [Caller -> CallerRecord] /\ temp \in [Caller -> Inode \cup {NoFile}]
        /\ text \in [Inode -> Document] /\ caller[c].file \in Inode
        /\ caller[c].name \in Caller /\ caller[c].pc = "rename" /\ Writing(c)
        /\ begun \in Nat
    BY StateAssumption DEF StoreWhole, StoreTypes, Rename, Writing
  <1>2. /\ stateMd' = TempFile(c) /\ TempFile(c) # NoFile /\ TempFile(c) \in Inode
        /\ UNCHANGED <<text, begun>>
        /\ temp' = [temp EXCEPT ![caller[c].name] = NoFile]
        /\ caller' = [caller EXCEPT ![c] = Away]
    BY <1>1 DEF Rename, TempFile
  <1>3. /\ caller'[c] = Away /\ ~Writing(c)' /\ caller'[c].pc = "away"
        /\ \A d \in Caller \ {c} : caller'[d] = caller[d] /\ (Writing(d)' <=> Writing(d))
    BY <1>1, <1>2 DEF Writing, Away, NotWriting
  <1>4. \A d \in Caller \ {c} :
          TempFile(d)' = IF caller[d].name = caller[c].name THEN NoFile ELSE
                         IF caller[d].name \in Caller THEN TempFile(d) ELSE TempFile(d)'
    BY <1>1, <1>2, <1>3 DEF TempFile
  <1>5. StoreTypes'
    <2>1. Away \in CallerRecord
      BY DEF Away, NotWriting, CallerRecord, Document, Empty
    <2>2. caller' \in [Caller -> CallerRecord]
      BY <1>1, <1>2, <2>1
    <2>3. temp' \in [Caller -> Inode \cup {NoFile}]
      BY <1>1, <1>2
    <2> QED BY <1>1, <1>2, <1>3, <2>2, <2>3 DEF StoreWhole, StoreTypes
  <1>6. /\ Settled' \subseteq Settled \cup {caller[c].save}
        /\ caller[c].save \in Settled' =>
              caller[c].save \in Settled \/ \A d \in Caller \ {c} : caller[d] = Away
        /\ caller[c].shared => clashed' # {}
    BY DEF Settled, Rename
  <1>7. \A doc : Whole(doc) /\ caller[c].save \in doc.saves => WholeAt(doc, begun', Settled')
    BY <1>2, <1>6 DEF Whole, WholeAt
  <1>8. \A doc : Whole(doc) /\ (\E d \in Caller \ {c} : caller[d] # Away) =>
          WholeAt(doc, begun', Settled')
    BY <1>2, <1>6 DEF Whole, WholeAt
  <1>9. Whole(caller[c].draft) /\ caller[c].save \in caller[c].draft.saves
    BY <1>1 DEF StoreWhole, DraftsWhole
  <1>10. DraftsWhole'
    <2> SUFFICES ASSUME NEW d \in Caller, caller'[d].pc # "away"
                 PROVE /\ WholeAt(caller'[d].draft, begun', Settled')
                       /\ caller'[d].save \in caller'[d].draft.saves
      BY DEF DraftsWhole, Whole
    <2>1. d # c /\ caller'[d] = caller[d] /\ caller[d] # Away
      BY <1>3 DEF Away, NotWriting
    <2> QED BY <1>8, <2>1 DEF StoreWhole, DraftsWhole
  <1>11. \A d \in Caller \ {c} : Writing(d) /\ caller[d].name # caller[c].name =>
           TempFile(d)' = TempFile(d) /\ TempFile(d) # TempFile(c)
    BY <1>1, <1>2, <1>4 DEF StoreWhole, StoreTypes, NamesApart
  <1>12. OwnTemp'
    <2> SUFFICES ASSUME NEW d \in Caller, Writing(d)', ~caller'[d].shared
                 PROVE /\ TempFile(d)' = caller'[d].file
                       /\ caller'[d].pc = "rename" => text'[caller'[d].file] = caller'[d].draft
                       /\ caller'[d].file # stateMd'
                       /\ \A e \in Caller \ {d} : Writing(e)' =>
                            /\ caller'[e].name # caller'[d].name
                            /\ caller'[e].file # caller'[d].file
                            /\ TempFile(e)' # caller'[d].file
      BY DEF OwnTemp
    <2>1. d # c /\ Writing(d) /\ caller'[d] = caller[d] /\ ~caller[d].shared
      BY <1>3
    <2>2. /\ TempFile(d) = caller[d].file /\ caller[d].file \in Inode
          /\ caller[d].pc = "rename" => text[caller[d].file] = caller[d].draft
          /\ \A e \in Caller \ {d} : Writing(e) =>
               /\ caller[e].name # caller[d].name
               /\ caller[e].file # caller[d].file
               /\ TempFile(e) # caller[d].file
      BY <2>1 DEF StoreWhole, OwnTemp, StoreTypes
    <2>3. caller[d].name # caller[c].name /\ TempFile(c) # caller[d].file
      BY <1>1, <2>1, <2>2
    <2>4. NoFile \notin Inode
      BY StateAssumption DEF NoFile
    <2>5. \A e \in Caller \ {d} : Writing(e)' => TempFile(e)' # caller[d].file
      BY <1>3, <1>4, <1>11, <2>2, <2>4
    <2> QED BY <1>2, <1>3, <1>11, <2>1, <2>2, <2>3, <2>5
  <1>13. NamesApart'
    <2> SUFFICES ASSUME NEW d \in Caller, NEW e \in Caller, Writing(d)', Writing(e)',
                        caller'[d].name # caller'[e].name, TempFile(d)' # NoFile
                 PROVE TempFile(d)' # TempFile(e)'
      BY DEF NamesApart
    <2>1. d # c /\ e # c /\ Writing(d) /\ Writing(e) /\ caller[d].name # caller[e].name
      BY <1>3
    <2>2. caller[d].name # caller[c].name /\ TempFile(d)' = TempFile(d)
      BY <1>4, <1>11, <2>1
    <2>3. CASE caller[e].name = caller[c].name
      BY <1>4, <2>1, <2>3
    <2>4. CASE caller[e].name # caller[c].name
      BY <1>11, <2>1, <2>2, <2>4 DEF StoreWhole, NamesApart
    <2> QED BY <2>3, <2>4
  <1>14. TempsWhole'
    <2> SUFFICES ASSUME NEW d \in Caller, Writing(d)', TempFile(d)' # NoFile
                 PROVE /\ TempFile(d)' # stateMd'
                       /\ \/ text'[TempFile(d)'] = Empty
                          \/ WholeAt(text'[TempFile(d)'], begun', Settled')
      BY DEF TempsWhole, Whole
    <2>1. d # c /\ Writing(d) /\ caller[d] # Away
      BY <1>3 DEF Writing, Away, NotWriting
    <2>2. TempFile(d)' = TempFile(d) /\ TempFile(d) # TempFile(c) /\ TempFile(d) # NoFile
      BY <1>4, <1>11, <2>1
    <2> QED BY <1>2, <1>8, <2>1, <2>2 DEF StoreWhole, TempsWhole
  <1>15. StateWhole'
    <2>1. CASE ~caller[c].shared
      <3>1. text[TempFile(c)] = caller[c].draft /\ caller[c].draft # Empty
        BY <1>1, <1>9, <2>1 DEF StoreWhole, OwnTemp, Empty
      <3>2. WholeAt(text[TempFile(c)], begun', Settled')
        BY <1>7, <1>9, <3>1
      <3> QED BY <1>2, <3>1, <3>2 DEF StateWhole, Whole
    <2>2. CASE caller[c].shared
      <3>1. clashed' # {} /\ Settled' \subseteq Settled
        BY <2>2 DEF Settled, Rename
      <3>2. text[TempFile(c)] = Empty \/ Whole(text[TempFile(c)])
        BY <1>1, <1>2 DEF StoreWhole, TempsWhole
      <3>3. Whole(text[TempFile(c)]) => WholeAt(text[TempFile(c)], begun', Settled')
        BY <1>2, <3>1 DEF Whole, WholeAt
      <3> QED BY <1>2, <3>1, <3>2, <3>3 DEF StateWhole, Whole
    <2> QED BY <2>1, <2>2
  <1> QED BY <1>5, <1>10, <1>12, <1>13, <1>14, <1>15 DEF StoreWhole

LEMMA StoreStarts == StateInit => StoreWhole
<1> SUFFICES ASSUME StateInit PROVE StoreWhole
  OBVIOUS
<1>1. \A c \in Caller : caller[c] = Away /\ ~Writing(c)
  BY DEF StateInit, Writing, Away, NotWriting
<1>2. Away \in CallerRecord /\ Empty \in Document /\ 0 \in 0 .. MaxSaves
  BY StateAssumption DEF Away, NotWriting, CallerRecord, Document, Empty
<1>3. StoreTypes
  BY <1>1, <1>2 DEF StateInit, StoreTypes
<1>4. DraftsWhole /\ OwnTemp /\ NamesApart /\ TempsWhole
  BY <1>1 DEF DraftsWhole, OwnTemp, NamesApart, TempsWhole, Away, NotWriting
<1>5. StateWhole
  BY DEF StateInit, StateWhole
<1> QED BY <1>3, <1>4, <1>5 DEF StoreWhole

LEMMA StoreKept == StoreWhole /\ [StateNext]_stateVars => StoreWhole'
<1>1. ASSUME StoreWhole, StateNext PROVE StoreWhole'
  BY <1>1, StateBegun, TempOpened, TempWritten, TempRenamed, GoneAway DEF StateNext
<1>2. ASSUME StoreWhole, UNCHANGED stateVars PROVE StoreWhole'
  <2>1. \A c \in Caller : (Writing(c)' <=> Writing(c)) /\ TempFile(c)' = TempFile(c)
    BY <1>2 DEF stateVars, Writing, TempFile
  <2>2. \A doc : WholeAt(doc, begun', Settled') <=> Whole(doc)
    BY <1>2 DEF stateVars, Whole, Settled
  <2>3. StoreTypes' /\ DraftsWhole'
    BY <1>2, <2>1, <2>2 DEF stateVars, StoreWhole, StoreTypes, DraftsWhole, Whole
  <2>4. OwnTemp' /\ NamesApart'
    BY <1>2, <2>1 DEF stateVars, StoreWhole, OwnTemp, NamesApart
  <2>5. TempsWhole' /\ StateWhole'
    BY <1>2, <2>1, <2>2 DEF stateVars, StoreWhole, TempsWhole, StateWhole, Whole
  <2> QED BY <2>3, <2>4, <2>5 DEF StoreWhole
<1> QED BY <1>1, <1>2

LEMMA StoreKeepsSaves == StoreWhole => SavesKept
  BY DEF StoreWhole, StateWhole, SavesKept, Whole, WholeAt, Settled

LEMMA StoreTyped == StoreWhole => StateTypeOK
  BY DEF StoreWhole, StoreTypes, StateTypeOK

\* Whoever calls the store, and from how many processes, a save is in the state
\* for all that is saved later unless a call overlapped it or shared its
\* temporary file.
THEOREM SavesAreKept == StateSpec => []SavesKept
<1> QED
  BY StoreKeepsSaves, StoreStarts, StoreKept, PTL DEF StateSpec

-----------------------------------------------------------------------------
(* All the sessions: what is not the Lead's session is as if it had never   *)
(* been called, and satisfies what its own specification keeps.             *)

ProbingHolds == Held /\ Reported /\ Tallied /\ Clicked /\ Counted

SessionsHold ==
  /\ session \in Sessions
  /\ InterviewHolds /\ ConsensusHolds
  /\ GraphTypes /\ GraphsHold
  /\ IInv /\ RouteHolds
  /\ ClosureHolds /\ Spoken
  /\ ProbingHolds /\ StoreWhole

LEMMA NoInterview == NotInterviewing => InterviewHolds
  <1> SUFFICES ASSUME NotInterviewing PROVE InterviewHolds OBVIOUS
  <1>1. interview =
       [type |-> "greenfield", threshold |-> 0, context |-> {},
        status |-> "interview-active", expected |-> "round-0-topology", exit |-> "none",
        confirmed |-> FALSE, active |-> {}, last |-> None, roundCount |-> 0,
        recent |-> <<>>, misnumbered |-> FALSE, used |-> {}, warned |-> FALSE,
        ontology |-> NoSnapshots] /\ asked = NoQuestion
    BY DEF NotInterviewing
  <1>2. /\ RoundBound \in Nat /\ MaxRounds \in Nat /\ SoftWarningRound \in Nat
        /\ SoftWarningRound > 0
    BY InterviewAssumption DEF InterviewAssumption
  <1>3. InterviewTypes BY <1>1 DEF InterviewTypes, Recorded
  <1>4. InTurn BY <1>1, <1>2 DEF InTurn
  <1>5. "interview-active" \in {StatusOf[k] : k \in DOMAIN StatusOf}
    <2>1. "continue" \in DOMAIN StatusOf /\ StatusOf["continue"] = "interview-active"
      BY DEF StatusOf
    <2> QED BY <2>1
  <1>6. <<>> \in Seq(0 .. Points) /\ Len(<<>>) <= 3 /\ 0 \in 0 .. Points
    BY EmptySeq DEF Points
  <1>7. InterviewFields
    <2>1. /\ interview.type = "greenfield" /\ interview.threshold = 0
          /\ interview.active = {} /\ interview.last = None /\ interview.roundCount = 0
          /\ interview.recent = <<>> /\ interview.used = {}
          /\ interview.status = "interview-active"
      BY <1>1
    <2> QED BY <2>1, <1>2, <1>5, <1>6 DEF InterviewFields
  <1>8. QuestionFields BY <1>1, <1>2 DEF QuestionFields, NoQuestion
  <1>9. EntitiesCount
    <2>1. interview.ontology = NoSnapshots BY <1>1
    <2> QED BY <2>1, NoneCounted DEF EntitiesCount
  <1> QED BY <1>3, <1>4, <1>7, <1>8, <1>9 DEF InterviewHolds, Noted

LEMMA NoConsensus == NotDebating => ConsensusHolds
  BY EmptySeq DEF NotDebating, ConsensusHolds, ConsensusTypes, Underway, ConsensusEarned, Status

LEMMA NoRoute == NotRouting => RouteHolds
  <1> SUFFICES ASSUME NotRouting PROVE RouteHolds OBVIOUS
  <1>1. (CHOOSE role \in Stage : TRUE) \in Stage
    BY RoutingAssumption DEF RoutingAssumption
  <1> QED
    BY <1>1, RoutingAssumption
       DEF NotRouting, RouteHolds, RouteTypes, Routes, RungsEarned, RoutingAssumption

LEMMA NoPlan == NotPlanning => IInv
  <1> SUFFICES ASSUME NotPlanning PROVE IInv OBVIOUS
  <1>1. /\ plan = <<>> /\ options = [worktrees |-> FALSE, forced |-> FALSE]
        /\ pc = "done" /\ waves = <<>> /\ wave = {} /\ ready = {} /\ isolated = <<>>
    BY DEF NotPlanning
  <1>2. plan \in [{} -> Contract] /\ DOMAIN plan = {} BY <1>1
  <1>3. plan \in Plan BY <1>2 DEF Plan
  <1>4. TypeOK BY <1>1, <1>3 DEF TypeOK
  <1>5. Sorted /\ Filling /\ Grounded BY <1>1, <1>2 DEF Sorted, Filling, Grounded, Valid
  <1>6. Acyclic BY <1>1, <1>2 DEF Acyclic, Scheduled
  <1>7. Placed
    <2>1. Remaining = {} /\ Unplanned = {} BY <1>1, <1>2 DEF Remaining, Unplanned
    <2> QED BY <1>1, <2>1 DEF Placed
  <1>8. DependenciesFirst /\ OneMutator BY <1>1 DEF DependenciesFirst, OneMutator
  <1> QED BY <1>4, <1>5, <1>6, <1>7, <1>8 DEF IInv

LEMMA NoClosure == NotClosing => ClosureHolds /\ Spoken
  <1> SUFFICES ASSUME NotClosing PROVE ClosureHolds /\ Spoken OBVIOUS
  <1>1. /\ NoSnapshot \in Here /\ <<>> \in Seq(Evidence)
        /\ <<>> \in Seq([defect : Defect, on : Here]) /\ Len(<<>>) = 0
    BY EmptySeq DEF Here
  <1>2. input \in Input BY <1>1, CyclesAssumption DEF NotClosing, Input
  <1>3. ClosureTypes BY <1>1, <1>2 DEF NotClosing, ClosureTypes
  <1>4. Cycles BY <1>1 DEF NotClosing, Cycles
  <1>5. Current /\ Audited BY DEF NotClosing, Current, Audited, PassAudited
  <1>6. Spoken BY <1>1 DEF NotClosing, Spoken
  <1> QED BY <1>3, <1>4, <1>5, <1>6 DEF ClosureHolds

LEMMA NoProbing == NotBrowsing => ProbingHolds
  <1> SUFFICES ASSUME NotBrowsing PROVE ProbingHolds OBVIOUS
  <1>1. qa \in Requests /\ qa \in Request BY RequestsAssumption DEF NotBrowsing
  <1>2. Held BY <1>1 DEF NotBrowsing, Held, NothingLeftOpen
  <1>3. Reported BY <1>1 DEF NotBrowsing, Reported, NoAnswer
  <1>4. Tallied
    BY <1>1 DEF NotBrowsing, Tallied, BrowserTypes, HowFar, Deserved, NoAnswer, Starting,
                Visiting, Leaving
  <1>5. Clicked BY DEF NotBrowsing, Clicked, Again
  <1>6. Counted
    <2>1. qa.max \in 1 .. 50 BY <1>1 DEF Request
    <2>2. Margin = 2 BY DEF NotBrowsing, Margin, Again
    <2>3. Tried = {} BY DEF NotBrowsing, Tried
    <2>4. Cardinality(Tried) = 0 BY <2>3, FS_EmptySet
    <2>5. 0 <= qa.max + 2 BY <2>1
    <2> QED BY <2>2, <2>4, <2>5 DEF Counted
  <1> QED BY <1>2, <1>3, <1>4, <1>5, <1>6 DEF ProbingHolds

LEMMA SessionsStart == CallInit => SessionsHold
  <1> SUFFICES ASSUME CallInit PROVE SessionsHold OBVIOUS
  <1>1. session \in Sessions /\ GraphInit BY DEF CallInit
  <1>2. InterviewHolds BY InterviewBegins, NoInterview DEF CallInit
  <1>3. ConsensusHolds BY ConsensusStarts, NoConsensus DEF CallInit
  <1>4. GraphTypes /\ GraphsHold BY <1>1, GraphsStart
  <1>5. IInv BY Begins, NoPlan DEF CallInit
  <1>6. RouteHolds BY RouteStarts, NoRoute DEF CallInit
  <1>7. ClosureHolds /\ Spoken BY ClosureStarts, SpokenStarts, NoClosure DEF CallInit
  <1>8. ProbingHolds
    BY HeldStarts, ReportedStarts, ProbingStarts, NoProbing DEF CallInit, ProbingHolds
  <1>9. StoreWhole BY StoreStarts DEF CallInit, NotStoring
  <1> QED
    BY <1>1, <1>2, <1>3, <1>4, <1>5, <1>6, <1>7, <1>8, <1>9 DEF SessionsHold

\* A step of the Lead is one of its session, and leaves the others as they are.
LEMMA OwnSteps ==
  ASSUME [CallNext]_callVars
  PROVE  /\ session' = session
         /\ [InterviewNext]_interviewVars /\ [ConsensusNext]_consensus
         /\ [GraphNext]_graphVars /\ [Next]_vars /\ [RoutingNext]_routing
         /\ [ClosureNext]_closureVars /\ [BrowserNext]_browserVars /\ [StateNext]_stateVars
  <1>1. CASE UNCHANGED callVars
    <2>1. UNCHANGED <<interviewVars, consensus, graphVars, vars, routing, closureVars,
                      browserVars, stateVars, session>>
      BY <1>1 DEF callVars
    <2> QED BY <2>1
  <1>2. CASE CallNext
    BY <1>2 DEF CallNext, DeepInterview, PlanConsensus, SealGraphs, PrepareExecution, RouteStage,
                RunQualityClosure, CheckInBrowser, KeepState
  <1> QED BY <1>1, <1>2

LEMMA SessionsKept == SessionsHold /\ [CallNext]_callVars => SessionsHold'
  <1> SUFFICES ASSUME SessionsHold, [CallNext]_callVars PROVE SessionsHold' OBVIOUS
  <1>1. /\ session' = session
        /\ [InterviewNext]_interviewVars /\ [ConsensusNext]_consensus
        /\ [GraphNext]_graphVars /\ [Next]_vars /\ [RoutingNext]_routing
        /\ [ClosureNext]_closureVars /\ [BrowserNext]_browserVars /\ [StateNext]_stateVars
    BY OwnSteps
  <1>2. InterviewHolds' BY <1>1, InterviewKept DEF SessionsHold
  <1>3. ConsensusHolds' BY <1>1, ConsensusKept DEF SessionsHold
  <1>4. GraphTypes' /\ GraphsHold' BY <1>1, GraphsKept DEF SessionsHold
  <1>5. IInv' BY <1>1, InvariantKept DEF SessionsHold
  <1>6. RouteHolds' BY <1>1, RouteKept DEF SessionsHold
  <1>7. ClosureHolds' /\ Spoken' BY <1>1, ClosureKept, SpokenKept DEF SessionsHold
  <1>8. ProbingHolds'
    BY <1>1, HeldKept, ReportedKept, ProbingKept DEF SessionsHold, ProbingHolds
  <1>9. StoreWhole' BY <1>1, StoreKept DEF SessionsHold
  <1>10. (session \in Sessions)' BY <1>1 DEF SessionsHold
  <1> QED
    BY <1>2, <1>3, <1>4, <1>5, <1>6, <1>7, <1>8, <1>9, <1>10 DEF SessionsHold

THEOREM SessionsInvariant == CallSpec => []SessionsHold
  BY SessionsStart, SessionsKept, PTL DEF CallSpec

LEMMA SessionsWithin == SessionsHold => CallTypeOK
  <1> SUFFICES ASSUME SessionsHold PROVE CallTypeOK OBVIOUS
  <1> USE DEF SessionsHold
  <1>1. InterviewTypeOK BY NotedTypes DEF InterviewHolds
  <1>2. ConsensusTypeOK BY ConsensusTyped
  <1>3. GraphTypeOK BY GraphsTyped
  <1>4. TypeOK BY DEF IInv
  <1>5. RoutingTypeOK BY RouteTyped
  <1>6. ClosureTypeOK BY ClosureTyped
  <1>7. BrowserTypeOK BY BrowserTyped DEF ProbingHolds
  <1>8. StateTypeOK BY StoreTyped
  <1> QED
    BY <1>1, <1>2, <1>3, <1>4, <1>5, <1>6, <1>7, <1>8 DEF CallTypeOK

\* Whatever a Lead asks of the modules that keep nothing, and of the store: each
\* session keeps what its type says, also where the type counts (the entities
\* of the ontology, the rounds of the consensus, the cycles of the closure).
THEOREM SessionsAreTyped == CallSpec => []CallTypeOK
  BY SessionsInvariant, SessionsWithin, PTL

\* What is promised of a session with one of them holds of the Lead's sessions
\* with all of them: one never takes back what another promised.
THEOREM SessionsAreSound ==
  CallSpec =>
    /\ []RoundsExplained /\ []ConsensusEarned
    /\ []ApprovedAndAccounted /\ []AmendmentsTellLineage
    /\ []WavesSound /\ []RungsEarned /\ []PassAudited
    /\ []NothingLeftOpen /\ []PassExercised /\ []ControlsSpared /\ []SavesKept
  <1>1. SessionsHold => RoundsExplained
    BY InTurnExplains DEF SessionsHold, InterviewHolds
  <1>2. SessionsHold => ConsensusEarned
    BY DEF SessionsHold, ConsensusHolds
  <1>3. SessionsHold => ApprovedAndAccounted
    BY AccountedExplains DEF SessionsHold, GraphsHold
  <1>4. SessionsHold => AmendmentsTellLineage
    BY ToldExplains DEF SessionsHold, GraphsHold, GraphTypes
  <1>5. SessionsHold => WavesSound
    BY PeersWithin, AllWithin DEF SessionsHold, IInv, WavesSound
  <1>6. SessionsHold => RungsEarned
    BY DEF SessionsHold, RouteHolds
  <1>7. SessionsHold => PassAudited
    BY DEF SessionsHold, ClosureHolds, Audited
  <1>8. SessionsHold => NothingLeftOpen
    BY DEF SessionsHold, ProbingHolds, Held
  <1>9. SessionsHold => PassExercised
    BY TalliedPasses DEF SessionsHold, ProbingHolds
  <1>10. SessionsHold => ControlsSpared
    BY ProbingSpares DEF SessionsHold, ProbingHolds
  <1>11. SessionsHold => SavesKept
    BY StoreKeepsSaves DEF SessionsHold
  <1> QED
    BY <1>1, <1>2, <1>3, <1>4, <1>5, <1>6, <1>7, <1>8, <1>9, <1>10, <1>11,
       SessionsInvariant, PTL

\* The same for what a step of the closure may not do: in no session of the Lead
\* is a repair spent on what was not found, or a proof verified that was not named.
THEOREM SessionsAreAudited == CallSpec => RepairsFound /\ NamedProofOnly
  <1>1. [CallNext]_callVars => [ClosureNext]_closureVars BY OwnSteps
  <1>2. SessionsHold /\ [CallNext]_callVars =>
          [repairs' # repairs =>
             LET r == repairs'[Len(repairs')] IN
               /\ \/ r.defect \in opinion.defects /\ opinion.on = r.on
                  \/ /\ verdict # Skipped /\ r.defect \in verdict.answer.defects
                     /\ verdict.on = r.on /\ opinion.on = r.on /\ opinion.defects = {}
               /\ r.on = snapshot
               /\ Len(repairs') <= input.cycles]_closureVars
    BY <1>1, RepairFound DEF SessionsHold
  <1>3. SessionsHold /\ [CallNext]_callVars =>
          [\A i \in DOMAIN evidence :
             evidence[i].acquired /\ ~evidence[i].verified /\ evidence'[i].verified =>
               \E m \in verdict'.answer.assessments :
                 m.verified /\ m.ids \cap evidence[i].ids # {}]_closureVars
    BY <1>1, PieceNamed DEF SessionsHold
  <1> QED
    BY <1>2, <1>3, SessionsInvariant, PTL DEF CallSpec, RepairsFound, NamedProofOnly

=============================================================================
