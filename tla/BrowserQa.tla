----------------------------- MODULE BrowserQa -----------------------------
(***************************************************************************)
(* The browser check of a proof gap: runBrowserQa (core/browser).  It may  *)
(* start the server of the application, launches a browser, carries out    *)
(* the actions it was given or presses the controls it finds, judges, and  *)
(* closes what it opened.                                                  *)
(*                                                                         *)
(* The browser, the page and the server are not the framework's: between   *)
(* two awaits the page may show something else, report errors or close,    *)
(* and every await may throw.  A control is found at a place on the page   *)
(* and looked for at that place again when it is pressed.                  *)
(***************************************************************************)
EXTENDS Naturals, Sequences, FiniteSets

CONSTANTS
  Pages,     \* what the application may show, sequences of Control
  Requests,  \* what the check is called with, a subset of Request
  Noise      \* what the page may report: "page", "console" or "request" errors

\* `tag' is "field" for text inputs, "button" for all that isClickable accepts,
\* "other" for what is pressed but not pressed twice.  `harmful': its label or
\* its type is one that isPotentiallyDestructive knows.
Control ==
  [tag : {"field", "select", "button", "other"},
   disabled : BOOLEAN, harmful : BOOLEAN, foreign : BOOLEAN]

\* `start': no startCommand, one that runs, or one that cannot be spawned.
\* `actions': of each explicit action, continueOnFailure.
Request ==
  [target : BOOLEAN, start : {"none", "runs", "missing"}, actions : Seq(BOOLEAN),
   adversarial : BOOLEAN, malformed : BOOLEAN, twice : BOOLEAN,
   allowed : BOOLEAN, max : 1 .. 50, strict : SUBSET {"console", "request"}]

ASSUME PagesAssumption == Pages \subseteq Seq(Control) /\ Pages # {}
ASSUME RequestsAssumption == Requests \subseteq Request
ASSUME NoiseAssumption == Noise \subseteq {"page", "console", "request"}

VARIABLES
  qa,         \* the request
  at,         \* the await that runBrowserQa is in
  opened,     \* what runs: server, browser, context, page
  shown,      \* what the page shows now
  found,      \* the candidates: controls read from the page at first
  place,      \* of the candidate or explicit action it is at
  probes,     \* what was tried, in order
  telemetry,  \* what the page has reported
  answered,   \* what the caller gets
  late,       \* what was reported after the judgement
  pressed,    \* clicks: the place, the candidate, and the control that was there
  stuck       \* what could not be closed

pageVars == <<shown, telemetry, late>>
probeVars == <<found, place, probes, pressed>>
endVars == <<answered, stuck>>
browserVars == <<qa, at, opened, pageVars, probeVars, endVars>>

NoAnswer == [available |-> FALSE, success |-> FALSE]
FailedAnswer == [available |-> TRUE, success |-> FALSE]
Probe(kind, status) == [at |-> place, kind |-> kind, status |-> status]

\* What closes with what.
Within(what) ==
  CASE what = "page" -> {"page"}
    [] what = "context" -> {"page", "context"}
    [] what = "browser" -> {"page", "context", "browser"}

-----------------------------------------------------------------------------
(* The page. *)

\* A script, a timer or a redirect changes what is shown.  It matters between
\* two looks at a place; what else is read is read after a load, which may show
\* anything.
PageChanges ==
  /\ at \in {"press", "pressAgain"}
  /\ shown' \in Pages
  /\ UNCHANGED <<qa, at, opened, probeVars, telemetry, endVars, late>>

Judged == answered # NoAnswer

\* The listeners stay until the page is closed.
PageReports ==
  /\ "page" \in opened
  /\ \E n \in Noise :
       /\ telemetry' = telemetry \cup {n}
       /\ late' = IF Judged THEN late \cup {n} ELSE late
  /\ UNCHANGED <<qa, at, opened, shown, probeVars, endVars>>

ServerExits ==
  /\ "server" \in opened
  /\ opened' = opened \ {"server"}
  /\ UNCHANGED <<qa, at, pageVars, probeVars, endVars>>

-----------------------------------------------------------------------------
(* Starting. *)

BrowserInit ==
  /\ qa \in Requests
  /\ at = "called" /\ opened = {} /\ shown = <<>> /\ found = <<>> /\ place = 0
  /\ probes = <<>> /\ telemetry = {} /\ answered = NoAnswer
  /\ late = {} /\ pressed = {} /\ stuck = {}

\* Without a target nothing is opened.  Nobody listens for the error of a
\* command that cannot be spawned, which ends the process.
CallBrowserQa ==
  /\ at = "called"
  /\ at' = CASE ~qa.target -> "returned"
             [] qa.target /\ qa.start = "none" -> "load"
             [] qa.target /\ qa.start = "runs" -> "wait"
             [] qa.target /\ qa.start = "missing" -> "dead"
  /\ opened' = IF at' = "wait" THEN {"server"} ELSE {}
  /\ UNCHANGED <<qa, pageVars, probeVars, endVars>>

\* waitForUrl: whoever answers, also a server of somebody else.
TargetAnswers ==
  /\ at = "wait" /\ at' = "load"
  /\ UNCHANGED <<qa, opened, pageVars, probeVars, endVars>>

LoadPlaywright ==
  /\ at = "load"
  /\ at' \in {"launch", "closePage"}
  /\ UNCHANGED <<qa, opened, pageVars, probeVars, endVars>>

Open(what, from, to) ==
  /\ at = from /\ at' = to
  /\ opened' = opened \cup {what}
  /\ UNCHANGED <<qa, pageVars, probeVars, endVars>>

GotoTarget ==
  /\ at = "goto"
  /\ shown' \in Pages
  /\ at' = IF qa.actions = <<>> THEN "read" ELSE "act"
  /\ place' = 1
  /\ UNCHANGED <<qa, opened, found, probes, telemetry, endVars, late, pressed>>

\* The catch block: for all awaits that no probe stands for.
Throws ==
  /\ at \in {"wait", "load", "launch", "context", "page", "goto", "read", "screenshot"}
  /\ at' = "closePage"
  /\ answered' = FailedAnswer
  /\ UNCHANGED <<qa, opened, pageVars, probeVars, stuck>>

-----------------------------------------------------------------------------
(* Explicit actions: runExplicitActions. *)

\* What they make the page show, nobody here looks at.
ExecuteAction ==
  /\ at = "act"
  /\ \E status \in {"passed", "failed"} :
       LET goesOn == status = "passed" \/ qa.actions[place]
       IN /\ probes' = Append(probes, Probe("action", status))
          /\ IF goesOn /\ place < Len(qa.actions)
             THEN at' = at /\ place' = place + 1
             ELSE at' = "screenshot" /\ place' = place
  /\ UNCHANGED <<qa, opened, pageVars, found, pressed, endVars>>

-----------------------------------------------------------------------------
(* Discovered controls: exerciseDiscoveredControls. *)

Tried == {i \in DOMAIN probes : probes[i].status # "skipped"}

ReadControls ==
  /\ at = "read" /\ at' = "candidate"
  /\ found' = SubSeq(shown, 1, IF Len(shown) < 4 * qa.max THEN Len(shown) ELSE 4 * qa.max)
  /\ UNCHANGED <<qa, opened, pageVars, place, probes, endVars, pressed>>

\* Mutant of Barred: permission to press is taken for granted.
BarredBlindly(c) == c.disabled \/ c.foreign

Barred(c) == c.disabled \/ (c.harmful /\ ~qa.allowed) \/ c.foreign

Enough == place > Len(found) \/ Cardinality(Tried) >= qa.max

StopProbing ==
  /\ at = "candidate" /\ Enough /\ at' = "screenshot"
  /\ UNCHANGED <<qa, opened, pageVars, probeVars, endVars>>

SkipCandidate ==
  /\ at = "candidate" /\ ~Enough /\ Barred(found[place])
  /\ probes' = Append(probes, Probe("press", "skipped"))
  /\ place' = place + 1
  /\ UNCHANGED <<qa, at, opened, pageVars, found, endVars, pressed>>

There == place \in DOMAIN shown

\* isVisible, of the candidate or of what is at its place after the reload.
LookAtCandidate ==
  /\ \/ at = "candidate" /\ ~Enough /\ ~Barred(found[place]) /\ at' = "press"
     \/ at = "lookAgain" /\ at' = "pressAgain"
  /\ There
  /\ UNCHANGED <<qa, opened, pageVars, probeVars, endVars>>

\* Not visible, or the question fails.
CandidateHidden ==
  /\ \/ /\ at = "candidate" /\ ~Enough /\ ~Barred(found[place])
        /\ \E s \in {"skipped", "failed"} : probes' = Append(probes, Probe("press", s))
     \/ /\ at = "lookAgain"
        /\ \E s \in {"skipped", "failed"} : probes' = Append(probes, Probe("repeat", s))
  /\ at' = "reset"
  /\ UNCHANGED <<qa, opened, pageVars, found, place, endVars, pressed>>

Fills(c) == c.tag = "field" /\ qa.adversarial /\ qa.malformed
Clicks(c) == ~Fills(c) /\ c.tag # "select"
Repeats(c) == qa.adversarial /\ qa.twice /\ c.tag = "button"

Press(twice) ==
  pressed' = pressed \cup
    {[at |-> place, seen |-> found[place], now |-> shown[place], twice |-> twice]}

\* What is there now is filled, focused or clicked, whatever it is.
TryCandidate ==
  /\ at = "press" /\ There
  /\ ~shown[place].disabled
  /\ Fills(found[place]) => shown[place].tag = "field"
  /\ IF Clicks(found[place]) THEN Press(FALSE) ELSE UNCHANGED pressed
  /\ shown' \in Pages
  /\ probes' = Append(probes, Probe("press", "passed"))
  /\ at' = IF Repeats(found[place]) THEN "reload" ELSE "reset"
  /\ UNCHANGED <<qa, opened, found, place, telemetry, endVars, late>>

Reload ==
  /\ at = "reload" /\ at' = "lookAgain"
  /\ shown' \in Pages
  /\ UNCHANGED <<qa, opened, probeVars, telemetry, endVars, late>>

TryAgain ==
  /\ at = "pressAgain" /\ There /\ ~shown[place].disabled
  /\ Press(TRUE)
  /\ shown' \in Pages
  /\ probes' = Append(probes, Probe("repeat", "passed"))
  /\ at' = "reset"
  /\ UNCHANGED <<qa, opened, found, place, telemetry, endVars, late>>

TryFails ==
  /\ at \in {"press", "reload", "pressAgain"}
  /\ probes' = Append(probes, Probe(IF at = "press" THEN "press" ELSE "repeat", "failed"))
  /\ at' = "reset"
  /\ UNCHANGED <<qa, opened, pageVars, found, place, endVars, pressed>>

Reset ==
  /\ at = "reset"
  /\ \/ /\ at' = "candidate" /\ place' = place + 1 /\ shown' \in Pages
        /\ UNCHANGED probes
     \/ /\ at' = "screenshot" /\ probes' = Append(probes, Probe("reset", "failed"))
        /\ UNCHANGED <<place, shown>>
  /\ UNCHANGED <<qa, opened, found, telemetry, endVars, late, pressed>>

-----------------------------------------------------------------------------
(* Judging and closing. *)

Fatal == {"page"} \cup qa.strict

\* Mutant of Spotless: what the page reported is only part of the report.
SpotlessProbes == \A i \in DOMAIN probes : probes[i].status # "failed"

Spotless ==
  /\ \A i \in DOMAIN probes : probes[i].status # "failed"
  /\ telemetry \cap Fatal = {}

\* After the screenshot, taken or not, success is computed.
JudgeProbes ==
  /\ at = "screenshot" /\ at' = "title"
  /\ answered' = [available |-> TRUE, success |-> Spotless]
  /\ UNCHANGED <<qa, opened, pageVars, probeVars, stuck>>

\* The title of the page is awaited before the report is put together.
ReportTitle ==
  /\ at = "title" /\ at' = "closePage"
  /\ UNCHANGED <<qa, opened, pageVars, probeVars, endVars>>

\* Mutant of AfterClose: what cannot be closed ends the finally block.
AfterCloseStop(next) == "returned"

AfterClose(next) == next

\* safeClose
Close(what, from, next) ==
  /\ at = from
  /\ \/ /\ opened' = opened \ (IF what \in opened THEN Within(what) ELSE {})
        /\ at' = next /\ UNCHANGED stuck
     \/ /\ what \in opened /\ stuck' = stuck \cup {what}
        /\ at' = AfterClose(next) /\ UNCHANGED opened
  /\ UNCHANGED <<qa, pageVars, probeVars, answered>>

\* stopServer: it ends in answer to SIGTERM, or is killed after a second.
StopServer ==
  /\ at = "stop" /\ at' = "returned"
  /\ opened' = opened \ {"server"}
  /\ UNCHANGED <<qa, pageVars, probeVars, endVars>>

BrowserNext ==
  \/ PageChanges
  \/ PageReports
  \/ ServerExits
  \/ CallBrowserQa
  \/ TargetAnswers
  \/ LoadPlaywright
  \/ Open("browser", "launch", "context")
  \/ Open("context", "context", "page")
  \/ Open("page", "page", "goto")
  \/ GotoTarget
  \/ Throws
  \/ ExecuteAction
  \/ ReadControls
  \/ StopProbing
  \/ SkipCandidate
  \/ LookAtCandidate
  \/ CandidateHidden
  \/ TryCandidate
  \/ Reload
  \/ TryAgain
  \/ TryFails
  \/ Reset
  \/ JudgeProbes
  \/ ReportTitle
  \/ Close("page", "closePage", "closeContext")
  \/ Close("context", "closeContext", "closeBrowser")
  \/ Close("browser", "closeBrowser", "stop")
  \/ StopServer

BrowserSpec == BrowserInit /\ [][BrowserNext]_browserVars

-----------------------------------------------------------------------------
BrowserTypeOK ==
  /\ qa \in Requests
  /\ opened \subseteq {"server", "browser", "context", "page"}
  /\ shown \in Pages \cup {<<>>} /\ found \in Seq(Control) /\ place \in Nat
  /\ \A i \in DOMAIN probes :
       /\ probes[i].at \in Nat /\ probes[i].kind \in {"action", "press", "repeat", "reset"}
       /\ probes[i].status \in {"passed", "failed", "skipped"}
  /\ telemetry \subseteq Noise /\ late \subseteq telemetry
  /\ answered \in [available : BOOLEAN, success : BOOLEAN]
  /\ stuck \subseteq {"page", "context", "browser"}

\* A success is one of everything that was asked for: each explicit action, or
\* each control found up to the limit, passed or was skipped, and an error that
\* the report shows came in after the judgement, while the title was awaited or
\* the page was closed.
PassExercised ==
  at = "returned" /\ answered.success =>
    /\ \A i \in DOMAIN probes : probes[i].status # "failed"
    /\ telemetry \cap Fatal \subseteq late
    /\ IF qa.actions # <<>>
       THEN Len(probes) = Len(qa.actions)
       ELSE \/ \A i \in DOMAIN found : \E j \in DOMAIN probes : probes[j].at = i
            \/ Cardinality(Tried) >= qa.max

\* Exploration is bounded and spares what looks destructive or leads elsewhere:
\* such a control is clicked only if another one was found at its place before,
\* a control is clicked twice only after one click, and the limit is exceeded by
\* no more than the repetition and the reset of the last control tried below it.
ControlsSpared ==
  /\ \A p \in pressed :
       p.now.foreign \/ (p.now.harmful /\ ~qa.allowed) => p.now # p.seen
  /\ \A p \in pressed : p.twice => \E q \in pressed : q.at = p.at /\ ~q.twice
  /\ qa.actions = <<>> => Cardinality(Tried) <= qa.max + 2

\* Whatever failed, the server that was started does not outlive the check, nor
\* does the browser with its pages, unless it is the browser that would not close.
NothingLeftOpen ==
  at = "returned" => 
    /\ "server" \notin opened
    /\ opened = {} \/ "browser" \in stuck

=============================================================================
