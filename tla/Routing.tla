------------------------------ MODULE Routing ------------------------------
(***************************************************************************)
(* Which model and effort a stage runs with (core/routing/index.mjs,       *)
(* core/routing/failure-envelope.mjs).  Nothing is stored: the Lead        *)
(* resolves the route of a role whenever it prepares the stage, from what  *)
(* it then knows of the task and from the last failure it was told of.     *)
(*                                                                         *)
(* The seven levels of the ladder are its rungs: luna at four efforts and  *)
(* sol at three.  What of the context decides a profile is left to the     *)
(* caller: every profile that the code has for a role may come out.        *)
(***************************************************************************)
EXTENDS Naturals

CONSTANTS
  Stage,       \* the roles the Lead may route
  Failures,    \* the failures it may be told of, a subset of Failure
  Available,   \* the rungs whose model and effort the runtime offers
  MaxFailures  \* verification failures a caller counts: a bound of the model

Rung == 1 .. 7
LunaMax == 4
SolHigh == 5
NoRung == 0      \* the failed attempt is not told
NoStage == ""    \* the failure is not told to be of one role

VARIABLE routing

-----------------------------------------------------------------------------
(* Failures: buildFailureEnvelope. *)

AlwaysReasoning ==
  {"localization", "specification", "implementation", "verification",
   "security-reasoning", "architecture-reasoning"}
NeverReasoning == {"environment", "tool", "policy"}
FailureKind == AlwaysReasoning \cup NeverReasoning \cup {"integration", "model-format"}

\* A failure: `again' when it is not the first one of its kind, `required' and
\* `conflict' (reasoningRequired, semanticConflict) as the reporter says.
Failure ==
  [kind : FailureKind, again : BOOLEAN, evidence : BOOLEAN, required : BOOLEAN,
   conflict : BOOLEAN, target : Stage \cup {NoStage}, attempted : Rung \cup {NoRung}]

ASSUME RoutingAssumption ==
  /\ NoStage \notin Stage /\ Stage # {} /\ Available \subseteq Rung /\ MaxFailures \in Nat
  /\ Failures \subseteq Failure

ReasoningRequired(f) ==
  f.required \/ f.kind \in AlwaysReasoning \/ (f.kind = "integration" /\ f.conflict)

\* Mutant of Eligible: what the reporter requires is believed.
EligibleOnRequest(f) ==
  ReasoningRequired(f) /\ (f.kind = "model-format" => f.again) /\ ~f.evidence

Eligible(f) ==
  /\ f.kind \notin NeverReasoning
  /\ ReasoningRequired(f)
  /\ f.kind = "model-format" => f.again
  /\ ~f.evidence

-----------------------------------------------------------------------------
(* Routes: baseRouteFor, applyFailureEscalation. *)

NextRouteStep(rung) == IF rung = 7 THEN rung ELSE rung + 1

\* The profiles of a role; a critical task has luna_max, whatever the role.
Profiles(role) ==
  CASE role \in {"design-architect", "design-executor", "design-reviewer",
                 "debugger", "researcher"} -> {2, 3}
    [] role = "security-reviewer" -> {4}
    [] role \in {"architect", "plan-auditor"} -> {3, 4}
    [] role = "requirements-gate" -> {2, 4}
    [] role \in {"planner", "implementer"} -> {1, 2, 3, 4}
    [] role \in {"code-reviewer", "adversarial-reviewer",
                 "browser-adversarial-reviewer"} -> {2, 3, 4}
    [] role \in {"browser-functional-tester", "tester", "verifier"} -> {1, 2}
    [] OTHER -> {1}

BaseRoutes(role, exhausted) ==
  IF exhausted THEN {SolHigh} ELSE Profiles(role) \cup {LunaMax}

\* The rung a failure is taken to be of.
Attempted(f, base) == IF f.attempted = NoRung THEN base ELSE f.attempted

AfterFailure(role, base, f) ==
  IF f.target \notin {NoStage, role} THEN base
  ELSE IF Eligible(f) THEN NextRouteStep(Attempted(f, base)) ELSE Attempted(f, base)

\* Without an envelope, the count of failed verifications, of the verifier and
\* of the owner of the implementation only.
Climbed(rung, steps) == IF rung + steps > 7 THEN 7 ELSE rung + steps

Verifies(role) == role \in {"verifier", "implementer"}

AfterFailures(role, base, exhausted, failures) ==
  IF failures = 0 \/ ~Verifies(role) THEN base
  ELSE Climbed(IF exhausted THEN LunaMax ELSE base, failures)

-----------------------------------------------------------------------------
(* The calls of resolveRoleRouting for one role, as the Lead remembers them: *)
(* the rungs it was given and tried, those of them that a failure named as  *)
(* failed for want of reasoning, those a call started from, those of these  *)
(* that were presumed to have failed when a failure named no rung, and the  *)
(* most failed verifications of it that a call counted.                     *)

RoutingInit ==
  \E role \in Stage :
    routing = [role |-> role, tried |-> {}, failed |-> {}, bases |-> {}, presumed |-> {},
               counted |-> 0]

Resolve(rung, base) ==
  /\ rung \in Available
  /\ routing' = [routing EXCEPT !.tried = @ \cup {rung}, !.bases = @ \cup {base}]

\* A level the caller forces is taken as it is.
ResolveForced(rung) == Resolve(rung, rung)

ResolveCounted(base, exhausted, failures) ==
  /\ base \in BaseRoutes(routing.role, exhausted)
  /\ LET rung == AfterFailures(routing.role, base, exhausted, failures)
     IN  /\ rung \in Available
         /\ routing' = [routing EXCEPT
              !.tried = @ \cup {rung}, !.bases = @ \cup {base},
              !.counted = IF Verifies(routing.role) /\ failures > @ THEN failures ELSE @]

\* A failure of this role, or of no role in particular, is one of an attempt
\* of it; it may be an old one, and it may be reported again.  A failure of
\* the environment, a tool or a policy is nobody's reasoning.  One that names no
\* rung is taken to be of the base of this call, be it that nothing ran there.
ResolveFailed(base, exhausted, f) ==
  LET own == f.target \in {NoStage, routing.role}
      rung == AfterFailure(routing.role, base, f)
      reasoned == own /\ f.kind \notin NeverReasoning /\ ~f.evidence
      told == f.attempted # NoRung
  IN  /\ base \in BaseRoutes(routing.role, exhausted)
      /\ own => f.attempted \in routing.tried \cup {NoRung}
      /\ rung \in Available
      /\ routing' = [routing EXCEPT
           !.tried = @ \cup {rung}, !.bases = @ \cup {base},
           !.failed = @ \cup {r \in {f.attempted} : reasoned /\ told},
           !.presumed = @ \cup {r \in {base} : reasoned /\ ~told}]

RoutingNext ==
  \/ \E rung \in Rung : ResolveForced(rung)
  \/ \E exhausted \in BOOLEAN, base \in Rung :
       \/ \E failures \in 0 .. MaxFailures : ResolveCounted(base, exhausted, failures)
       \/ \E f \in Failures : ResolveFailed(base, exhausted, f)

RoutingSpec == RoutingInit /\ [][RoutingNext]_routing

-----------------------------------------------------------------------------
RoutingTypeOK ==
  routing \in [role : Stage, tried : SUBSET Available, failed : SUBSET Rung,
               bases : SUBSET Rung, presumed : SUBSET Rung, counted : 0 .. MaxFailures]

\* No stage climbs the ladder by itself.  From a rung the caller's task asked for,
\* each rung below the one a stage runs at was tried and has failed for want of
\* reasoning; what fails with the environment, a tool or a policy, in another
\* stage, or is reported once more, takes it no higher.  Two calls are believed
\* instead: one that counts failed verifications is taken up as many rungs, tried
\* or not, and one whose failure names no rung, a rung above its base.  By either
\* a stage may enter Sol high with no run of Luna max, against
\* "only after Luna max is actually exhausted for the affected stage"
\* (docs/architecture/MODEL-ROUTING.md:31).  (applyFailureEscalation, nextRouteStep)
RungsEarned ==
  \A rung \in routing.tried : \E base \in routing.bases :
    /\ base <= rung
    /\ \E n \in 0 .. routing.counted : \A below \in base + n .. rung - 1 :
         \/ below \in routing.failed \cap routing.tried
         \/ below = base /\ base \in routing.presumed

=============================================================================
