----------------------------- MODULE Interview -----------------------------
(***************************************************************************)
(* The requirements interview (core/requirements/index.mjs).  The state of *)
(* an interview is a value: every function takes it and returns the next   *)
(* one, and the Lead keeps it, together with the question it was last told *)
(* to ask.  The spec is not part of it: the Lead writes the spec and hands *)
(* it in with every call.                                                  *)
(*                                                                         *)
(* Components are numbers, compared as localeCompare compares their ids.   *)
(* Scores are hundredths, ambiguities ten-thousandths.                     *)
(***************************************************************************)
EXTENDS Integers, Sequences, FiniteSets, FiniteSetsExt, SequencesExt

CONSTANTS
  Component,   \* the ids of components
  Briefs,      \* the specs the Lead may hand in, which are of Brief
  Ideas,       \* what createInterviewState may be given, a subset of Idea
  EntityName, EntityType, Field,
  Topologies,  \* what the user may confirm: components, and which are deferred
  Contexts,    \* repository facts: the components they speak of
  MaxRounds, SoftWarningRound, MinRoundsBeforeExit,  \* DEEP_INTERVIEW_POLICY
  MinRound,    \* CHALLENGE_MODES: the first round of each mode
  RoundBound   \* rounds a Lead records at most: a bound of the model

None == 0          \* no component
WholeSpec == -1    \* what a spec without topology is scored as
DefaultThreshold == 2000

Challenge == {"contrarian", "simplifier", "ontologist"}
Dimension == {"constraints", "context", "criteria", "goal"}
Clarity == [Dimension -> 0 .. 100]
Entity == [name : EntityName, type : EntityType, fields : SUBSET Field]

\* A spec: the clarity of its components that are not deferred, its own, whether
\* it or one of them states a goal and an acceptance criterion, and the list or
\* none of the entities that the Lead found when it wrote it.
Brief(topology) ==
  [topology : {topology}, own : Clarity, goal : BOOLEAN, accepted : BOOLEAN,
   entities : SUBSET Seq(Entity)]

\* `context' are the components the repository facts speak of.
Idea ==
  [type : {"greenfield", "brownfield"}, project : Int, user : Int,
   context : SUBSET (Component \cup {WholeSpec})]

ASSUME InterviewAssumption ==
  /\ Component \subseteq Nat \ {None} /\ IsFiniteSet(Component) /\ IsFiniteSet(Field)
  /\ {MaxRounds, SoftWarningRound, MinRoundsBeforeExit, RoundBound} \subseteq Nat
  /\ SoftWarningRound > 0
  /\ MinRound \in [Challenge -> Nat]
  /\ \A b \in Briefs : /\ [b EXCEPT !.entities = {}] \in Brief(b.topology)
                       /\ Cardinality(b.entities) <= 1 /\ b.entities \subseteq Seq(Entity)
                       /\ DOMAIN b.topology \subseteq Component
                       /\ b.topology \in [DOMAIN b.topology -> Clarity]
  /\ Topologies \subseteq [components : SUBSET Component, deferred : SUBSET Component]
  /\ Contexts \subseteq SUBSET (Component \cup {WholeSpec})
  /\ Ideas \subseteq Idea

VARIABLES
  interview,  \* the state of the interview
  asked       \* the clarity question the Lead holds

interviewVars == <<interview, asked>>

-----------------------------------------------------------------------------
(* Scoring a spec: evaluateRequirements. *)

ResolveThreshold(project, user) ==
  IF project \in 0 .. 10000 THEN project
  ELSE IF user \in 0 .. 10000 THEN user ELSE DefaultThreshold

Weight(type) ==
  IF type = "brownfield"
  THEN [goal |-> 35, constraints |-> 25, criteria |-> 25, context |-> 15]
  ELSE [goal |-> 40, constraints |-> 30, criteria |-> 30, context |-> 0]

ComputeAmbiguity(clarity, type) ==
  10000 - MapThenSumSet(LAMBDA d : Weight(type)[d] * clarity[d], Dimension)

\* Without topology the spec is scored as if it were its only component.
Scores(spec) ==
  IF spec.topology = <<>> THEN [c \in {WholeSpec} |-> spec.own] ELSE spec.topology

Ambiguities(spec, type) ==
  {ComputeAmbiguity(Scores(spec)[c], type) : c \in DOMAIN Scores(spec)}

Ambiguity(spec, type) == Max(Ambiguities(spec, type))

\* The interview always requires a topology.
Missing0(spec) ==
  (IF spec.topology = <<>> THEN {"topology"} ELSE {}) \cup
  (IF spec.goal THEN {} ELSE {"goal"}) \cup
  (IF spec.accepted THEN {} ELSE {"acceptanceCriteria"})

ClearEnough(spec, s) ==
  Ambiguity(spec, s.type) <= s.threshold /\ Missing0(spec) = {}

\* chooseWeakestComponentDimension: the lowest score, by component and then
\* by dimension, of another component than the last one if that is no more
\* than 0.05 better.
Pairs(spec, type) ==
  {[score |-> Scores(spec)[c][d], component |-> c, dimension |-> d] :
     c \in DOMAIN Scores(spec),
     d \in IF type = "brownfield" THEN Dimension ELSE Dimension \ {"context"}}

Ordinal(d) ==
  [constraints |-> 1, context |-> 2, criteria |-> 3, goal |-> 4][d]

Sooner(p, q) ==
  \/ p.score < q.score
  \/ p.score = q.score /\ p.component < q.component
  \/ p.score = q.score /\ p.component = q.component
     /\ Ordinal(p.dimension) < Ordinal(q.dimension)

Soonest(pairs) == CHOOSE p \in pairs : \A q \in pairs \ {p} : Sooner(p, q)

Weakest(spec, s) ==
  LET pairs == Pairs(spec, s.type)
      first == Soonest(pairs)
      others == {p \in pairs : p.score <= first.score + 5 /\ p.component # s.last}
  IN  IF s.last # None /\ others # {} THEN Soonest(others) ELSE first

-----------------------------------------------------------------------------
(* What becomes of an interview: interviewProgress.  The pattern of a stop  *)
(* and of an early exit is all that is kept of what the user says.          *)

Intent == {"none", "stop", "proceed"}

StatusOf ==
  [paused |-> "interview-paused",
   ready |-> "clarity-passed-pending-approval",
   early |-> "clarification-early-exit",
   cap |-> "clarification-hard-cap",
   warning |-> "interview-active",
   continue |-> "interview-active"]

ExpectedAfter ==
  [paused |-> "resume-interview",
   ready |-> "crystallize-spec",
   early |-> "crystallize-warning-spec",
   cap |-> "crystallize-warning-spec",
   warning |-> "ask-continue-or-early-exit",
   continue |-> "ask-next-question"]

\* Mutant of Progress: the cap lets one more round through.
ProgressLate(s, clear, intent) ==
  CASE intent = "stop" -> "paused"
    [] intent # "stop" /\ clear -> "ready"
    [] intent = "proceed" /\ ~clear /\ s.roundCount >= MinRoundsBeforeExit -> "early"
    [] OTHER -> IF s.roundCount > MaxRounds THEN "cap"
                ELSE IF s.roundCount = SoftWarningRound /\ ~s.warned
                     THEN "warning" ELSE "continue"

Progress(s, clear, intent) ==
  CASE intent = "stop" -> "paused"
    [] intent # "stop" /\ clear -> "ready"
    [] intent = "proceed" /\ ~clear /\ s.roundCount >= MinRoundsBeforeExit -> "early"
    [] OTHER -> IF s.roundCount >= MaxRounds THEN "cap"
                ELSE IF s.roundCount = SoftWarningRound /\ ~s.warned
                     THEN "warning" ELSE "continue"

\* selectChallengeMode: each mode once, the ontologist early when the last
\* three rounds left the ambiguity within 0.05 of the first of them.
Stalled(recent) ==
  Len(recent) = 3 /\ \A i \in 1 .. 3 : recent[i] \in recent[1] - 500 .. recent[1] + 500

SelectChallengeMode(s, ambiguity) ==
  LET due(m) == s.roundCount + 1 >= MinRound[m] /\ m \notin s.used
  IN  IF Stalled(s.recent) /\ "ontologist" \notin s.used THEN "ontologist"
      ELSE IF due("contrarian") THEN "contrarian"
      ELSE IF due("simplifier") THEN "simplifier"
      ELSE IF due("ontologist") /\ ambiguity > 3000 THEN "ontologist" ELSE "none"

-----------------------------------------------------------------------------
(* computeOntologySnapshot: an entity stands for the first one of its name  *)
(* in the list before that none stands for yet, or else for the one of its  *)
(* type that shares the most fields, if more than half of them.             *)

NoSnapshots == [some |-> FALSE, entities |-> <<>>, settled |-> FALSE, stable |-> 0,
                changed |-> 0, new |-> 0, removed |-> 0]

Shared(e, f) == Cardinality(e.fields \cap f.fields)
Widest(e, f) == Max({Cardinality(e.fields), Cardinality(f.fields), 1})

MatchEntity(previous, m, e) ==
  LET free == DOMAIN previous \ m.taken
      named == {i \in free : previous[i].name = e.name}
      kin == {i \in free : /\ previous[i].type = e.type
                           /\ 2 * Shared(previous[i], e) > Widest(previous[i], e)}
      closest == {i \in kin : \A j \in kin :
                    Shared(previous[i], e) * Widest(previous[j], e)
                      >= Shared(previous[j], e) * Widest(previous[i], e)}
  IN  IF named # {}
      THEN [m EXCEPT !.taken = @ \cup {Min(named)}, !.stable = @ + 1]
      ELSE IF kin # {}
           THEN [m EXCEPT !.taken = @ \cup {Min(closest)}, !.changed = @ + 1]
           ELSE [m EXCEPT !.new = @ + 1]

ComputeOntologySnapshot(before, current) ==
  LET previous == before.entities
      m == FoldLeft(LAMBDA acc, e : MatchEntity(previous, acc, e),
                    [taken |-> {}, stable |-> 0, changed |-> 0, new |-> 0], current)
  IN  [some |-> TRUE, entities |-> current,
       settled |-> before.some /\ current # <<>>, stable |-> m.stable,
       changed |-> m.changed, new |-> m.new,
       removed |-> Len(previous) - Cardinality(m.taken)]

\* ontologyNeedsStabilization; fewer than three in four matched implies one new.
Shifting(o) == o.settled /\ (o.new > 0 \/ o.changed > 0)

-----------------------------------------------------------------------------
(* The calls. *)

NoQuestion == [kind |-> "none", round |-> 0, component |-> None, mode |-> "none"]

\* createInterviewState
InterviewInit ==
  /\ \E idea \in Ideas :
       interview =
         [type |-> idea.type, threshold |-> ResolveThreshold(idea.project, idea.user),
          context |-> idea.context, status |-> "interview-active",
          expected |-> IF idea.type = "brownfield" /\ idea.context = {}
                       THEN "scout-repository" ELSE "round-0-topology",
          exit |-> "none", confirmed |-> FALSE, active |-> {}, last |-> None,
          roundCount |-> 0, recent |-> <<>>, misnumbered |-> FALSE,
          used |-> {}, warned |-> FALSE, ontology |-> NoSnapshots]
  /\ asked = NoQuestion

\* applyScoutEvidence
ApplyScoutEvidence(context) ==
  /\ interview' = [interview EXCEPT
       !.context = context,
       !.expected = IF interview.type = "brownfield" /\ context = {}
                    THEN "scout-repository"
                    ELSE IF interview.confirmed THEN @ ELSE "round-0-topology"]
  /\ UNCHANGED asked

\* confirmInterviewTopology: of at most six components some are deferred.
ConfirmTopology(components, deferred) ==
  /\ ~interview.confirmed
  /\ Cardinality(components) \in 1 .. 6
  /\ interview' = [interview EXCEPT
       !.confirmed = TRUE, !.active = components \ deferred, !.last = None,
       !.expected = "score-and-question"]
  /\ UNCHANGED asked

\* nextInterviewQuestion: what the Lead is told to do next.
NextQuestion(spec, intent, evidence) ==
  LET weakest == Weakest(spec, interview)
      progress == Progress(interview, ClearEnough(spec, interview), intent)
      unscouted == interview.type = "brownfield" /\ interview.context = {} /\ evidence = {}
      factsMissing == /\ interview.type = "brownfield" /\ weakest.dimension = "context"
                      /\ weakest.component \notin interview.context \cup evidence
  IN  IF unscouted THEN [kind |-> "scout-required"]
      ELSE IF ~interview.confirmed THEN [kind |-> "topology"]
      ELSE IF progress # "continue" THEN [kind |-> progress]
      ELSE IF factsMissing THEN [kind |-> "scout-required"]
      ELSE [kind |-> "clarity",
            strategy |-> IF Shifting(interview.ontology)
                         THEN "ontology-stabilization" ELSE "weakest-dimension",
            round |-> interview.roundCount + 1, component |-> weakest.component,
            mode |-> SelectChallengeMode(interview, Ambiguity(spec, interview.type))]

\* The state stays as it is, whatever the Lead is told: the Lead only keeps the
\* question.
Ask(spec, intent, evidence) ==
  LET next == NextQuestion(spec, intent, evidence)
  IN  /\ next.kind = "clarity"
      /\ asked' = next
      /\ UNCHANGED interview

\* recordInterviewRound: of the question that is handed in, whatever became of
\* the interview since it was asked.
NextRoundState(spec) ==
  [interview EXCEPT
     !.roundCount = @ + 1,
     !.recent = SubSeq(Append(@, Ambiguity(spec, interview.type)),
                       IF Len(@) = 3 THEN 2 ELSE 1, Len(@) + 1),
     !.misnumbered = @ \/ asked.round # interview.roundCount + 1,
     !.ontology = IF spec.entities = {} THEN @
                  ELSE ComputeOntologySnapshot(@, CHOOSE e \in spec.entities : TRUE),
     !.last = asked.component,
     !.used = @ \cup ({asked.mode} \ {"none"})]

RecordRound(spec, intent) ==
  /\ asked # NoQuestion /\ interview.roundCount < RoundBound
  /\ LET next == NextRoundState(spec)
         progress == Progress(next, ClearEnough(spec, interview), intent)
     IN  interview' = [next EXCEPT
           !.status = StatusOf[progress],
           !.warned = @ \/ progress = "warning",
           !.exit = IF progress \in {"paused", "early", "cap"} THEN progress ELSE @,
           !.expected = ExpectedAfter[progress]]
  /\ UNCHANGED asked

InterviewNext ==
  \/ \E context \in Contexts : ApplyScoutEvidence(context)
  \/ \E t \in Topologies : ConfirmTopology(t.components, t.deferred)
  \/ \E spec \in Briefs, intent \in Intent :
       \/ \E evidence \in {{}, Component} : Ask(spec, intent, evidence)
       \/ RecordRound(spec, intent)

InterviewSpec == InterviewInit /\ [][InterviewNext]_interviewVars

-----------------------------------------------------------------------------
InterviewTypeOK ==
  /\ interview.status \in {StatusOf[k] : k \in DOMAIN StatusOf}
  /\ interview.threshold \in 0 .. 10000
  /\ interview.active \subseteq Component
  /\ interview.last \in Component \cup {None, WholeSpec}
  /\ interview.roundCount \in 0 .. RoundBound
  /\ Len(interview.recent) <= 3 /\ interview.recent \in Seq(0 .. 10000)
  /\ interview.used \subseteq Challenge
  /\ asked.round \in 0 .. MaxRounds
  /\ LET o == interview.ontology
     IN  o.stable + o.changed + o.new = Len(o.entities) /\ o.removed >= 0

\* The interview is as long as its policy says, and says so once.  There are
\* more rounds than the cap only if a question was recorded twice or late, and
\* asking comes back with the warning of the tenth round, which recording that
\* round has already given, only if the round ended in a pause, with a clear
\* spec or with an early exit, which swallow the warning.
\* (recordInterviewRound, interviewProgress)
RoundsExplained ==
  /\ interview.roundCount > MaxRounds => interview.misnumbered
  /\ (\E spec \in Briefs, evidence \in {{}, Component} :
         NextQuestion(spec, "none", evidence).kind = "warning") =>
       interview.status # "interview-active"

=============================================================================
