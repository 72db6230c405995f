--------------------------- MODULE MCOrchestrator ---------------------------
EXTENDS Orchestrator, TLC

a == "a"
b == "b"

-----------------------------------------------------------------------------
(* Interviews. *)

Flat(n) == [d \in Dimension |-> n]
Brief0(components, own, entities) ==
  [topology |-> components, own |-> own, goal |-> TRUE, accepted |-> TRUE,
   entities |-> entities]

\* One component that is not clear and one that is, one that is clear, none, and
\* two that are; the lists of entities rename, drop and repeat some.
MCBriefs ==
  { Brief0(<<[Flat(90) EXCEPT !.context = 35, !.goal = 40],
             [Flat(99) EXCEPT !.context = 38]>>, Flat(0),
           {<<[name |-> "m", type |-> "t", fields |-> {"f", "g"}],
              [name |-> "n", type |-> "t", fields |-> {"f"}]>>}),
    Brief0(<<Flat(90)>>, Flat(0), {}),
    Brief0(<<>>, Flat(90),
           {<<[name |-> "k", type |-> "t", fields |-> {"f", "g"}],
              [name |-> "m", type |-> "t", fields |-> {}],
              [name |-> "m", type |-> "t", fields |-> {}]>>}),
    Brief0(<<Flat(90), Flat(90)>>, Flat(0), {}) }

MCIdeas ==
  { [type |-> "greenfield", project |-> -1, user |-> 20000, context |-> {}],
    [type |-> "brownfield", project |-> 3500, user |-> 20000, context |-> {}] }

MCMinRound == [contrarian |-> 2, simplifier |-> 3, ontologist |-> 4]

MCTopologies == {[components |-> {1, 2}, deferred |-> d] : d \in {{}, {1}}}

-----------------------------------------------------------------------------
(* Reviews of a plan. *)

Reviewed(first, second) ==
  [revision |-> 1,
   verdicts |-> [r \in Reviewer |-> IF r = "architect" THEN first ELSE second],
   read |-> [r \in Reviewer |-> 0], draft |-> NoDraft, objections |-> {"o"}]

MCReviews ==
  { Reviewed("APPROVE", "APPROVE"), Reviewed("APPROVE", "ITERATE"),
    Reviewed("ITERATE", Absent), Reviewed(Absent, "APPROVE"),
    Reviewed("REJECT", "REJECT"),
    [Reviewed("APPROVE", "APPROVE") EXCEPT !.draft = "d2"],
    [Reviewed("APPROVE", "APPROVE") EXCEPT !.read["architect"] = 2] }

MCPolicies ==
  {[tier |-> t, highRisk |-> h, enabled |-> e, reviewers |-> r] :
     t \in 1 .. 3, h \in BOOLEAN, e \in BOOLEAN, r \in {{"architect"}, Reviewer}}

-----------------------------------------------------------------------------
(* Plans to seal: one after another, a circle, and two that end in one. *)

Step(deps, resources) == [deps |-> deps, resources |-> resources]

MCBlueprints ==
  { <<Step({2}, {"x"}), Step({}, {})>>, <<Step({2}, {}), Step({1}, {})>>,
    <<Step({}, {}), Step({1}, {}), Step({1}, {})>> }

-----------------------------------------------------------------------------
(* Failures of a stage, with any rung of it or none. *)

Failed(kind, again) ==
  [kind |-> kind, again |-> again, evidence |-> FALSE, required |-> FALSE,
   conflict |-> FALSE, target |-> NoStage, attempted |-> NoRung]

MCFailures ==
  {[f EXCEPT !.attempted = rung] :
     f \in { Failed("verification", FALSE),
             [Failed("tool", FALSE) EXCEPT !.required = TRUE],
             [Failed("integration", FALSE) EXCEPT !.conflict = TRUE],
             [Failed("model-format", FALSE) EXCEPT !.required = TRUE],
             [Failed("localization", FALSE) EXCEPT !.evidence = TRUE],
             [Failed("implementation", TRUE) EXCEPT !.target = "researcher"] },
     rung \in Rung \cup {NoRung}}

-----------------------------------------------------------------------------
(* Browser checks: the same controls at other places, and a page with more of
   them than the smallest check looks at. *)

Shows(tag) == [tag |-> tag, disabled |-> FALSE, harmful |-> FALSE, foreign |-> FALSE]
Harmful == [Shows("button") EXCEPT !.harmful = TRUE]

MCPages ==
  { <<Shows("button"), Harmful, Shows("field")>>,
    <<Harmful, Shows("button"), Shows("other")>>,
    <<[Shows("button") EXCEPT !.foreign = TRUE], [Shows("field") EXCEPT !.disabled = TRUE],
      Shows("other"), Shows("select"), Shows("button")>> }

Asked(start, actions, adversarial, max) ==
  [target |-> TRUE, start |-> start, actions |-> actions, adversarial |-> adversarial,
   malformed |-> TRUE, twice |-> TRUE, allowed |-> FALSE, max |-> max,
   strict |-> {"request"}]

MCRequests ==
  { Asked("runs", <<>>, TRUE, 1), Asked("runs", <<TRUE, FALSE, TRUE>>, FALSE, 1),
    [Asked("none", <<>>, FALSE, 2) EXCEPT !.allowed = TRUE, !.strict = {}],
    [Asked("none", <<>>, TRUE, 1) EXCEPT !.target = FALSE],
    Asked("missing", <<>>, TRUE, 1) }

-----------------------------------------------------------------------------
(* Plans. *)

Bare ==
  [deps |-> {}, reads |-> {}, writes |-> {}, claims |-> {},
   careless |-> FALSE, hazard |-> FALSE]
Writes(files) == [Bare EXCEPT !.writes = files]
Claims(stem, star, mode) ==
  [Bare EXCEPT !.claims = {[key |-> [stem |-> stem, star |-> star], mode |-> mode]}]

Effects ==
  { Bare, [Bare EXCEPT !.hazard = TRUE], [Bare EXCEPT !.careless = TRUE],
    [Bare EXCEPT !.reads = {"x"}], Writes({"x"}), Writes({"y"}),
    Claims(<<a>>, TRUE, "exclusive"), Claims(<<a, b>>, TRUE, "exclusive"),
    Claims(<<a, b>>, FALSE, "shared"), Claims(<<a>>, TRUE, "shared") }

WithDeps(effects, ids) == {[e EXCEPT !.deps = d] : e \in effects, d \in SUBSET ids}

\* Two tasks of every kind, which may depend on a third one that is not there,
\* and three that differ by a written file only.
MCContract == WithDeps(Effects, Task)
MCPlans ==
  [{1, 2} -> MCContract] \cup [1 .. 3 -> WithDeps({Bare, Writes({"x"})}, 1 .. 3)]

-----------------------------------------------------------------------------
(* Closures. *)

\* What a caller may bring along: unverified, or verified on one snapshot.
Brought(c, k, ok, s) ==
  [ids |-> {}, kind |-> k, criterion |-> c, fresh |-> TRUE, success |-> ok,
   acquired |-> FALSE, verified |-> s # NoSnapshot,
   independent |-> s # NoSnapshot, snapshot |-> s]

N(c, k) == [criterion |-> c, kind |-> k]

MCInputs ==
  [tier : {0, 1, 2}, snapshot : {"s", NoSnapshot}, cycles : {0, 2},
   needs : {{}, {N(1, Proof)}, {N(1, Proof), N(Anything, Review)}},
   evidence : {<<>>, <<Brought(1, Proof, TRUE, "s")>>,
               <<Brought(1, Proof, FALSE, NoSnapshot)>>,
               <<Brought(1, Review, TRUE, NoSnapshot)>>}]

MCOpinions == {[ok |-> TRUE, defects |-> {}], [ok |-> FALSE, defects |-> {}],
               [ok |-> FALSE, defects |-> {"d"}]}

Reported(cs, broken, light, s) ==
  [criteria |-> cs, traced |-> cs, tested |-> TRUE, broken |-> broken,
   light |-> light, coverage |-> [criteria |-> cs, snapshot |-> s]]

Says(ids, c, kinds) ==
  [ids |-> ids, criterion |-> c, kinds |-> kinds, verified |-> TRUE,
   independent |-> TRUE]

Answered(ok, defects, gap, assessments, r) ==
  [ok |-> ok, defects |-> defects, gap |-> gap, assessments |-> assessments,
   report |-> r]

MCAnswers ==
  { Answered(TRUE, {}, FALSE, {}, Reported({}, FALSE, "none", NoSnapshot)),
    Answered(TRUE, {}, FALSE, {}, Reported({1}, FALSE, "pass", "s")),
    Answered(TRUE, {}, FALSE, {Says({}, 1, {})}, Reported({1}, FALSE, "none", NoSnapshot)),
    Answered(FALSE, {}, TRUE, {Says({}, 1, {Proof})}, Reported({1, 2}, FALSE, "none", "t")),
    Answered(FALSE, {"e"}, FALSE, {}, Reported({1}, TRUE, "fail", "s")),
    Answered(TRUE, {}, FALSE, {Says({N(1, Proof)}, 1, {})}, Reported({1}, FALSE, "none", "t")),
    Answered(TRUE, {}, FALSE, {Says({N(1, Proof), N(Anything, Proof)}, 1, {})},
             [Reported({1, 2}, FALSE, "none", "s") EXCEPT !.traced = {1}]) }

-----------------------------------------------------------------------------
(* Two calls of the state store, in one process or in two. *)

MCProcesses == {<<1, 1>>, <<1, 2>>}

=============================================================================
