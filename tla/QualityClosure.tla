--------------------------- MODULE QualityClosure ---------------------------
(***************************************************************************)
(* runQualityClosure (core/orchestrator/quality-closure.mjs) with the      *)
(* repair loop it runs (core/repair, runFixLoop of core/verification) and  *)
(* the completion gate that judges its outcome (core/verification).        *)
(*                                                                         *)
(* QA, the verifier, the repairing worker and the proof commands are       *)
(* callbacks: what they answer is an input.  Between two of them the       *)
(* closure computes without a pause, so there is one action per callback   *)
(* and one per judgement.                                                  *)
(***************************************************************************)
EXTENDS Naturals, Sequences

CONSTANTS
  MaxCriteria,  \* acceptance criteria that a report lists at most
  Snapshot,     \* what the workspace may look like
  NoSnapshot,   \* the caller does not say
  Skipped,      \* stands for the verification that a blocking review saves
  Defect,       \* blocking findings, by fingerprint
  MaxCycles,    \* repair cycles allowed at most: MAX_REPAIR_CYCLES
  Proof, Review, \* kinds of evidence: one that a command may acquire, and one
                \* that only a reviewer gives
  Inputs,       \* what closures are called with, a subset of Input
  Opinions,     \* what QA may answer, a subset of Opinion
  Answers       \* what the verifier may answer, a subset of Answer

\* A criterion goes by its place in the report: buildAcceptanceTrace.
Criterion == 1 .. MaxCriteria
Listed == {1 .. n : n \in 0 .. MaxCriteria}
Anything == 0
Kind == {Proof, Review}
Here == Snapshot \cup {NoSnapshot}

\* A proof the caller requires: one kind for a criterion, and the required
\* kinds for any of them.
Need == [criterion : Criterion \cup {Anything}, kind : Kind]

\* `ids': what names the piece, nothing for most of what the caller brings;
\* the name of acquired evidence is a hash of what it was acquired for.
Evidence ==
  [ids : SUBSET Need, kind : Kind, criterion : Criterion \cup {Anything},
   fresh : BOOLEAN, success : BOOLEAN, acquired : BOOLEAN, verified : BOOLEAN,
   independent : BOOLEAN, snapshot : Here]

Input ==
  [tier : 0 .. 3, snapshot : Here, cycles : 0 .. MaxCycles,
   needs : SUBSET Need, evidence : Seq(Evidence)]

\* hasRepairableFindings, shouldTriggerRepair: of all findings only those that
\* block matter.
Opinion == [ok : BOOLEAN, defects : SUBSET Defect]

\* An assessment names pieces of evidence, or a criterion and perhaps a kind.
Assessment ==
  [ids : SUBSET Need, criterion : Criterion, kinds : SUBSET Kind,
   verified : BOOLEAN, independent : BOOLEAN]

\* The report lists criteria and says which of them it traced to evidence.
\* `broken': build, types, lint or the goal fail.  `coverage': what the
\* verifier vouches for, on which snapshot.  `light': the lightweight evidence
\* of a trivial task, if any.
Report ==
  [criteria : Listed, traced : SUBSET Criterion, tested : BOOLEAN,
   broken : BOOLEAN, light : {"none", "pass", "fail"},
   coverage : [criteria : SUBSET Criterion, snapshot : Here]]

\* `gap': the verifier says that proof is missing.  Of the assessments of one
\* answer no two are about the same piece of evidence.
Answer ==
  [ok : BOOLEAN, defects : SUBSET Defect, gap : BOOLEAN,
   assessments : SUBSET Assessment, report : Report]

ASSUME CyclesAssumption == MaxCycles \in Nat /\ MaxCriteria \in Nat
ASSUME KindAssumption == Proof # Review
ASSUME InputsAssumption == Inputs \subseteq Input
ASSUME OneKindAssumption ==
  \A i \in Inputs : \A n, m \in i.needs :
    n.criterion = m.criterion => n = m \/ n.criterion = Anything
ASSUME AnswersAssumption == Opinions \subseteq Opinion /\ Answers \subseteq Answer

VARIABLES
  input,        \* what the closure was called with
  stage,        \* whose turn it is
  snapshot,     \* currentSnapshot
  attempt,      \* of the fix loop
  evidence,     \* runtimeEvidence
  opinion,      \* the last answer of QA and the snapshot it was about
  verdict,      \* the verifier's last answer likewise, or Skipped
  gaps,         \* acquisitionGaps still to be tried
  repairs,      \* repairHistory
  outcome       \* what the caller gets

closureVars == <<input, stage, snapshot, attempt, evidence, opinion, verdict, gaps,
                 repairs, outcome>>

-----------------------------------------------------------------------------
(* The completion gate. *)

Bound(s) == snapshot = NoSnapshot \/ s = snapshot

\* Mutant of Proves: evidence for another snapshot counts as well.
ProvesAnywhere(e, n) ==
  /\ e.criterion = n.criterion \/ n.criterion = Anything
  /\ e.kind = n.kind
  /\ e.success /\ e.verified /\ e.fresh

Proves(e, n) ==
  /\ e.criterion = n.criterion \/ n.criterion = Anything
  /\ e.kind = n.kind
  /\ e.success /\ e.verified /\ e.fresh
  /\ Bound(e.snapshot)

Pieces == {evidence[i] : i \in DOMAIN evidence}

\* findProofGaps: only of criteria that the report lists.
Unproven(r) ==
  {n \in input.needs :
    /\ n.criterion \in r.criteria \cup {Anything}
    /\ ~ \E e \in Pieces : Proves(e, n)}

\* evaluateIndependentCoverage
Vouched(r) ==
  /\ r.criteria \subseteq r.coverage.criteria
  /\ Bound(r.coverage.snapshot)

Witnessed(c) ==
  \E e \in Pieces :
    /\ e.criterion = c /\ e.independent /\ e.verified /\ e.fresh
    /\ Bound(e.snapshot)

Independent(r) ==
  \/ input.tier < 2
  \/ r.criteria # {} /\ (Vouched(r) \/ \A c \in r.criteria : Witnessed(c))

\* evaluateVerificationReport
Accepted(r) ==
  /\ r.criteria # {} /\ r.criteria \subseteq r.traced
  /\ r.tested /\ ~r.broken

\* A trivial task: the report's lightweight evidence, or else the first piece.
Light(r) ==
  \/ r.light = "pass"
  \/ r.light = "none" /\ evidence # <<>> /\ evidence[1].fresh /\ evidence[1].success

LightGap(r) ==
  [criterion |-> Anything,
   kind |-> IF r.light = "none" /\ evidence # <<>> THEN evidence[1].kind ELSE Proof]

\* evaluateCompletionGate, when there is a report to judge.
Report0 == verdict.answer.report
Missing ==
  IF input.tier = 0
  THEN {LightGap(Report0)}
  ELSE Unproven(Report0) \cup
         (IF Independent(Report0)
          THEN {} ELSE {[criterion |-> Anything, kind |-> Review]})

Passes ==
  /\ verdict # Skipped
  /\ IF input.tier = 0 THEN Light(Report0)
     ELSE Accepted(Report0) /\ Missing = {}

\* The reason PROOF_GAP, or the verifier's own word for it.
GapReason ==
  \/ input.tier = 0
  \/ Missing # {} /\ ~Report0.broken
  \/ verdict.answer.gap

Acquirable ==
  IF verdict # Skipped /\ GapReason
  THEN {n \in Missing : n.kind # Review} ELSE {}

-----------------------------------------------------------------------------
(* assessEvidence *)

\* Mutant of Concerns: acquired evidence is assessed by its criterion too.
ConcernsAcquired(m, e) ==
  IF m.ids # {} THEN e.ids \cap m.ids # {}
  ELSE /\ e.criterion = m.criterion
       /\ m.kinds = {} \/ e.kind \in m.kinds

Concerns(m, e) ==
  IF m.ids # {} THEN e.ids \cap m.ids # {}
  ELSE /\ ~e.acquired
       /\ e.criterion = m.criterion
       /\ m.kinds = {} \/ e.kind \in m.kinds

Assess(m, e) ==
  [e EXCEPT !.verified = m.verified,
            !.independent = @ \/ m.independent,
            !.snapshot = IF snapshot = NoSnapshot THEN @ ELSE snapshot]

\* callVerifier: the answer's assessments, bound to the present snapshot (they
\* name none of their own).
Assessed(a) ==
  [i \in DOMAIN evidence |->
    IF \E m \in a.assessments : Concerns(m, evidence[i])
    THEN Assess(CHOOSE m \in a.assessments : Concerns(m, evidence[i]), evidence[i])
    ELSE evidence[i]]

-----------------------------------------------------------------------------
(* The repair loop: review, verify, and repair while there is something to    *)
(* repair and a cycle left.                                                   *)

ClosureInit ==
  /\ input \in Inputs
  /\ stage = "review"
  /\ snapshot = input.snapshot
  /\ attempt = 0
  /\ evidence = input.evidence
  /\ opinion = [ok |-> TRUE, defects |-> {}, on |-> NoSnapshot]
  /\ verdict = Skipped
  /\ gaps = {}
  /\ repairs = <<>>
  /\ outcome = "none"

\* Mutant of EndRound: one round too many.
EndRoundLate(ok) ==
  stage' = IF ok \/ attempt > input.cycles THEN "judge" ELSE "fix"

\* runFixLoop, after verify.
EndRound(ok) ==
  stage' = IF ok \/ attempt = input.cycles THEN "judge" ELSE "fix"

\* Mutant of SkipVerifier: the verdict of the round before stays.
SkipVerifierKeep == UNCHANGED verdict

SkipVerifier == verdict' = Skipped

\* reviewSnapshot: a blocking finding saves the verification.
ReviewSnapshot ==
  /\ stage = "review"
  /\ \E o \in Opinions :
       /\ opinion' = [ok |-> o.ok, defects |-> o.defects, on |-> snapshot]
       /\ IF o.defects # {}
          THEN SkipVerifier /\ EndRound(FALSE)
          ELSE stage' = "verify" /\ UNCHANGED verdict
  /\ UNCHANGED <<input, snapshot, attempt, evidence, gaps, repairs, outcome>>

\* verifySnapshot: a round is clean as well when only proof is missing.
Clean(a) == opinion.ok /\ (a.ok \/ a.gap) /\ a.defects = {}

VerifySnapshot ==
  /\ stage = "verify"
  /\ \E a \in Answers :
       /\ evidence' = Assessed(a)
       /\ verdict' = [answer |-> a, on |-> snapshot]
       /\ EndRound(Clean(a))
  /\ UNCHANGED <<input, snapshot, attempt, opinion, gaps, repairs, outcome>>

Findings ==
  opinion.defects \cup (IF verdict = Skipped THEN {} ELSE verdict.answer.defects)

\* Mutant of NextRound: only a repair counts as a cycle.
NextRoundRepairsOnly ==
  attempt' = (IF Findings = {} THEN attempt ELSE attempt + 1) /\ stage' = "review"

NextRound == attempt' = attempt + 1 /\ stage' = "review"

\* One finding is repaired at a time; the worker may name a new snapshot, and
\* may as well report that it changed nothing.
Repair ==
  /\ stage = "fix"
  /\ \E d \in Findings, s \in Snapshot \cup {snapshot} :
       /\ repairs' = Append(repairs, [defect |-> d, on |-> snapshot])
       /\ snapshot' = s
  /\ NextRound
  /\ UNCHANGED <<input, evidence, opinion, verdict, gaps, outcome>>

\* Nothing to repair although the round was not clean: the loop asks again.
FixNothing ==
  /\ stage = "fix" /\ Findings = {}
  /\ NextRound
  /\ UNCHANGED <<input, snapshot, evidence, opinion, verdict, gaps, repairs, outcome>>

-----------------------------------------------------------------------------
(* Completion, with one acquisition of the missing proofs. *)

Finish(o) == stage' = "returned" /\ outcome' = o

Judge ==
  /\ stage = "judge"
  /\ IF Passes THEN Finish("pass") /\ UNCHANGED gaps
     ELSE IF Acquirable = {} THEN Finish("fail") /\ UNCHANGED gaps
     ELSE gaps' = Acquirable /\ stage' = "acquire" /\ UNCHANGED outcome
  /\ UNCHANGED <<input, snapshot, attempt, evidence, opinion, verdict, repairs>>

Raw(g, ok) ==
  [ids |-> {g}, kind |-> g.kind, criterion |-> g.criterion, fresh |-> TRUE,
   success |-> ok, acquired |-> TRUE, verified |-> FALSE,
   independent |-> FALSE, snapshot |-> NoSnapshot]

\* acquireProof: the command ran, well or not, or there is none.
Acquire(g) ==
  /\ stage = "acquire"
  /\ gaps' = gaps \ {g}
  /\ \/ \E ok \in BOOLEAN : evidence' = Append(evidence, Raw(g, ok))
     \/ UNCHANGED evidence
  /\ UNCHANGED <<input, stage, snapshot, attempt, opinion, verdict, repairs, outcome>>

\* The second and last assessment.
Reassess ==
  /\ stage = "acquire" /\ gaps = {}
  /\ \E a \in Answers :
       /\ evidence' = Assessed(a)
       /\ verdict' = [answer |-> a, on |-> snapshot]
  /\ stage' = "rejudge"
  /\ UNCHANGED <<input, snapshot, attempt, opinion, gaps, repairs, outcome>>

Rejudge ==
  /\ stage = "rejudge"
  /\ Finish(IF Passes THEN "pass" ELSE "fail")
  /\ UNCHANGED <<input, snapshot, attempt, evidence, opinion, verdict, gaps, repairs>>

\* A callback throws, or in strict mode the log cannot be written.
Throw ==
  /\ stage # "returned"
  /\ Finish("error")
  /\ UNCHANGED <<input, snapshot, attempt, evidence, opinion, verdict, gaps, repairs>>

Converge == ReviewSnapshot \/ VerifySnapshot \/ Repair \/ FixNothing

Complete ==
  \/ Judge \/ Reassess \/ Rejudge \/ Throw
  \/ \E g \in gaps : Acquire(g)

ClosureNext == Converge \/ Complete

ClosureSpec == ClosureInit /\ [][ClosureNext]_closureVars

-----------------------------------------------------------------------------
ClosureTypeOK ==
  /\ input \in Input
  /\ stage \in {"review", "verify", "fix", "judge", "acquire", "rejudge", "returned"}
  /\ snapshot \in Here
  /\ attempt \in 0 .. input.cycles
  /\ evidence \in Seq(Evidence)
  /\ opinion \in [ok : BOOLEAN, defects : SUBSET Defect, on : Here]
  /\ verdict = Skipped \/ verdict \in [answer : Answers, on : Here]
  /\ gaps \subseteq Need
  /\ repairs \in Seq([defect : Defect, on : Here])
  /\ outcome \in {"none", "pass", "fail", "error"}

\* What PASS says of the snapshot it delivers: the last review and the last
\* verification were about it, the review found nothing blocking, and every
\* required proof of a listed criterion succeeded and was verified on it.
PassAudited ==
  outcome = "pass" =>
    /\ opinion.on = snapshot /\ opinion.defects = {}
    /\ verdict # Skipped /\ verdict.on = snapshot
    /\ input.tier > 0 =>
         \A n \in input.needs :
           n.criterion \in verdict.answer.report.criteria \cup {Anything} =>
             \E e \in Pieces :
               /\ e.kind = n.kind /\ n.criterion \in {e.criterion, Anything}
               /\ e.success /\ e.verified
               /\ snapshot # NoSnapshot => e.snapshot = snapshot

\* A repair is spent on what was found on the very snapshot that is repaired,
\* and on nothing that an earlier round found; no more than the cycles allow.
RepairsFound ==
  [][repairs' # repairs =>
      LET r == repairs'[Len(repairs')] IN
        /\ \/ r.defect \in opinion.defects /\ opinion.on = r.on
           \/ /\ verdict # Skipped /\ r.defect \in verdict.answer.defects
              /\ verdict.on = r.on /\ opinion.on = r.on /\ opinion.defects = {}
        /\ r.on = snapshot
        /\ Len(repairs') <= input.cycles]_closureVars

\* What a command turned out becomes proof only when the verifier names that
\* very piece, however well its criterion and kind fit.
NamedProofOnly ==
  [][\A i \in DOMAIN evidence :
      evidence[i].acquired /\ ~evidence[i].verified /\ evidence'[i].verified =>
        \E m \in verdict'.answer.assessments :
          m.verified /\ m.ids \cap evidence[i].ids # {}]_closureVars

=============================================================================
