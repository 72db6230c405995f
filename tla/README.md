# TLA+ verification of the hybrid agent framework

This directory is a verification development of the repository's `core/`: TLA+
modules translated from the source, TLC configurations that check them on small
instances, and TLAPS proofs of what matters most.

## 1. The system

`hybrid_agent_framework` lets a *Lead* (an agent in a coding runtime) run a
sealed plan: it interviews for requirements, has a plan reviewed, seals it into
an execution graph, leases the tasks of the graph to workers, integrates what
they produce, verifies, and repairs. Everything the Lead may rely on after a
crash is in files under `.planning/runs/<runId>/` and under the Git common
directory; several Lead processes may work on the same run at once.

| Component | State it keeps | Operations | What makes it hard |
|---|---|---|---|
| advisory locks (`core/leases`, `core/transitions`, `core/workspace-guard`, `core/routing/budget.mjs`, `core/worktree`) | one lock file per store, with the owner's pid and an age | take, wait, time out, judge stale, reclaim, release | every file system call interleaves with those of other processes; owners stop |
| task leases (`core/leases`) | `LEASES.json` | acquire, release, authorization, graph revision fence | Leads race for colliding files across graph revisions; callers read the graph before they hold the fence |
| run store (`core/transitions`) | `GRAPH.json`, `graphs/<hash>.json`, `TRANSITIONS.jsonl` | bind, advance, commit, release, abort, recover | two nested locks; checks and writes under different locks; crashes between two files; retries |
| worktree waves (`core/worktree`) | registered worktrees, their owner metadata, patches; the handle of a wave in memory | create, collect, clean up | workers write while patches are collected; a creation fails half-way; a stopped Lead forgets its wave; roots may be shared |
| integration queue (`core/worktree`) | `integration/<queue>.json`, the main workspace | integrate, find a receipt | patches and journal are not written atomically; a crash anywhere must be recovered from |
| current-workspace guard (`core/workspace-guard`) | `current.json`, guard history | begin, complete, inspect | one guard per repository, whose lease may end before it does |
| model budget (`core/routing/budget.mjs`) | `MODEL-BUDGET.json` | reserve, verify, approve a limit | processes race for a cap; reservations are retried |
| scheduler (`core/scheduler`) | none: a function of the declared tasks | plan waves, decide isolation | collisions must be complete, or two workers meet; waves are regrouped twice |
| execution graph, approval (`core/execution-graph`, `core/approval`) | none: values the Lead keeps; a graph is never changed, only followed by another | seal, approve, revise, extend a lease | old graphs and old receipts can be taken up again; grants and amendments must tell the same story |
| routing (`core/routing`) | none: pure functions of the task and of its last failure | resolve a route, build a failure envelope | what may climb the ladder; failures of other stages, told twice or of no known rung |
| orchestrator and quality closure (`core/orchestrator`), repair (`core/repair`), verification (`core/verification`) | snapshot, round, evidence, last review and last verdict, local to one call | review, verify, repair, acquire proof, judge | callbacks may answer anything; evidence and verdicts go stale with every repair; the loop must end |
| planning consensus (`core/planning`) | the consensus state, a value | record a review, approve the execution | approvals are withdrawn and go past the limit of reviews |
| requirements interview (`core/requirements`) | the interview state, a value | apply evidence, confirm the topology, ask, record a round | the spec changes between asking and recording; caps, early exits and warnings meet in the same round |
| browser check (`core/browser`) | one call's server, browser, context and page | start, open, press, judge, close | every await may throw; pages change between two looks; errors are reported late |
| state store (`core/state`) | `STATE.md` and its temporary files | init, load, update | no lock: calls overlap, initialize twice, share a temporary file |
| artifacts, observability, context cache, provenance | reports, events, cached context | write, append, invalidate | stale caches |
| classifier, capabilities, design, wiki, docs | none worth a model | | I/O, formatting, keyword rules |

How they interact: the command line (`bin/hybrid.mjs`) and the orchestrator call
the run store; the run store calls the lease store for the fence and the
authorization, and the worktree module for the integration receipt a completion
rests on; the lease store reads the run store's ledger to accept a release, and
every time it loads; the guard asks the lease store for an authorization before it
admits a command. The budget stands alone: the command line calls it around every
model spawn. Processes share nothing but files and locks. The scheduler is asked
once, before the execution; the quality closure is run by one Lead after it and
calls back for reviews, verdicts, repairs and proof commands, a browser check among
them. What comes before the execution is a chain of values that the Lead carries from
one function to the next: the interview ends in a spec, the spec and a plan in a
consensus, the approved plan in a sealed graph, the graph in waves, and each task of
a wave in a route. Nothing but the Lead ties one link to the next, so each function
has to hold for whatever value it is handed.

What makes each component correct. *Locks*: one process inside, and a left-over
lock does not block the others for ever. *Leases and run store*: colliding files
are leased once, an attempt is decided once under the graph it was leased for, the
graph moves only when nothing runs, and a store that loaded goes on loading.
*Integration queue*: a patch is in the workspace once or not at all, the journal
says which after any crash, and what others brought stays. *Guard*: one writer of
the repository, judged by the baseline it was given. *Budget*: no more spawns than
were allowed, each charged once. *Scheduler*: dependencies first, peers do not meet,
nothing lost, nothing refused without reason. *Quality closure*: what is passed was
reviewed, verified and proved on the snapshot that is delivered, repairs are spent
on what was found there, and every call returns. *Waves*: a patch holds what its
worker changed and nothing else, a wave is taken down only by those who share its
root, and a failed creation can be repeated. *Interview*: it ends, its cap and its
warnings are kept however the spec changes. *Consensus*: the last review approves,
and everybody asked. *Graphs*: what a task may lease is what the user approved, and
every task is verified in the end. *Routes*: a rung is paid for by failures.
*Browser check*: a success has tried what was asked for, exploration is bounded and
spares what looks destructive, and nothing that was opened stays.

## 2. Modules

| Module | What it models | Built on |
|---|---|---|
| `Mutex` | what a lock promises: at most one process inside | |
| `AdvisoryLock` | the lock protocols of the stores and of the integration queue, file system call by file system call | checked and, up to the first stop, proved to implement `Mutex` |
| `TaskAttempts` | what the run store promises: an attempt is granted once, decided once under the current graph, settled; the graph moves when nothing runs | |
| `ExecutionRun` | leases, graph revisions, ledger and their locks, as several Lead processes use them | checked and proved to implement `TaskAttempts` |
| `PatchQueue` | what an integration queue promises: patches taken one by one, given up together, final when complete | |
| `IntegrationQueue` | journals, workspace, git commands and locks of the integration queue | checked and proved to implement `PatchQueue` |
| `SingleWriter` | what the guard promises: one writer of the repository at a time, each attempt once, never left without a result | |
| `WorkspaceGuard` | begin and complete of the current-workspace guard, its files, lock, workers and stops | checked and proved to implement `SingleWriter` |
| `Allowance` | what the model budget promises: attempts charged once, within a limit that only receipts raise | |
| `ModelBudget` | reserve, verify and approve of the model budget, its file, lock and stops | checked and proved to implement `Allowance` |
| `WavePlanning` | the scheduler: collisions, waves, isolation plan | proved, for any tasks |
| `QualityClosure` | the quality closure with its repair loop, evidence assessment, completion gate and proof acquisition | proved |
| `Interview` | the requirements interview: scores, questions, rounds and how it ends | proved |
| `Consensus` | the reviews of a plan and its approval for execution | proved |
| `GraphRevision` | user approvals, sealed graphs, material revisions and lease extensions | proved, for any line of graphs |
| `Routing` | the route of a stage before and after failures | proved |
| `BrowserQa` | one browser check, from the start of the server to the last close | proved, on any sequence of pages |
| `StateStore` | calls of the state store beside each other, in one process or several | proved, for any number of both |
| `Orchestrator` | all of these and the two above them, each a session of the Lead | `Interview`, `Consensus`, `GraphRevision`, `WavePlanning`, `Routing`, `QualityClosure`, `BrowserQa`, `StateStore` |
| `WorktreeWave` | worktrees of a wave: creation, the workers' writes, collection, cleanup, stops and retries | |
| `MCAdvisoryLock`, `MCExecutionRun`, `MCIntegrationQueue`, `MCWorkspaceGuard`, `MCModelBudget`, `MCWorktreeWave`, `MCOrchestrator` | the constants of the TLC instances | |
| `AdvisoryLock_proofs`, `ExecutionRun_proofs`, `IntegrationQueue_proofs`, `WorkspaceGuard_proofs`, `ModelBudget_proofs`, `WavePlanning_proofs`, `WorktreeWave_proofs` | TLAPS proofs | the modules they are named after |
| `Session_proofs` | TLAPS proofs of what the Lead's sessions promise, each alone and all of them in `Orchestrator` | `Orchestrator`, `WavePlanning_proofs` |

Definitions whose comment begins with "Mutant of" are plausible bugs of the code
(a dropped guard, a lost check, a swapped order). No specification uses them;
they are there to show that each property notices such a bug.

### AdvisoryLock

`kind`, chosen once, says which copy of the protocol the lock follows: `blind`
(leases and budget: judged by age and owner, released without looking), `store`
(transitions and guard: the same, but the release reads the owner again) and
`queue` (integration: the owner's pid is probed at once, only an ownerless file is
judged by its age, and the release reads the owner again). The steps are the file
system calls of `#withStoreLock`, `#withTransitionLock`, `withWorkspaceGuardLock`
and `acquireIntegrationLock`: exclusive create, write of the owner, `stat`, read of
the owner, `rm`, retry, release. A process may stop after any of them. `LiveAge`
says whether the lock of an owner that is still alive may look stale.

### ExecutionRun

| Code | Module |
|---|---|
| `GRAPH.json`, `graphs/<hash>.json` | `current`, `revisions` |
| `LEASES.json` | `leases`, a set of `[key, status, proof]` |
| `TRANSITIONS.jsonl` | `ledger`, a set of records |
| `.leases.lock` (also the revision fence), `.transitions.lock` | `fence`, `ledgerLock`, with the value `Orphan` once the owner stopped |
| `initializeGraph`, `advanceGraph` | `BindStart`, `AdvanceStart`, then `TakeFence`, `BindPersist`/`AdvancePersist`, `Publish` |
| `acquire` | `AcquireStart` (after the unlocked read of the graph in `bin/hybrid.mjs`), `TakeFence`, `Acquire` or `AcquireRefused` |
| `commitTransition` | `CommitStart`, `TakeFence`, `CommitAccepted`, `TakeLedger`, `Append` (or the replayed and refused variants) |
| `releaseTaskLease` | `ReleaseStart`, `TakeFence`, `Release` |
| `abortTaskLease`, `recoverTaskLease` | `AbortStart`, `RecoverStart`, `RecoverCompleted`: a commit that continues with a release (`ReleaseNext`) |
| integration receipt | `integrated`, `receipts`; the environment actions `Integrate` and `Drift` |

A step is what one process does between two instants at which another one can
matter: an unlocked read, taking a lock and loading what it guards, or one durable
write together with giving the lock back. `view` and `seen` are what a process has
loaded; it decides on those, not on the files. Hashes, tokens and fingerprints are
functions of what they are computed from, so a lease id is its key (graph, task,
attempt) and a descriptor hash is the descriptor.

### IntegrationQueue

| Code | Module |
|---|---|
| `.git/hybrid/integration/<queue>.json` | `journal[q]` = status, workspace hash after every applied patch, last error |
| the main workspace, `workspaceDiffHash` | `ws` = patches whole in it, patches torn in it; a hash is the content |
| `HEAD` against the base commit | `moved` |
| `integrateWorktreeResults` | `Integrate`, `TakeLock`, `Open`, `Create`, `Reconcile`, `Prove`, `Restart`, then per patch `Begin`, `Check`, `Apply`, `Record` |
| `rollbackIntegration` and the write after it | `Reset`, `CleanUp`, `RollBack` |
| `findCompletedWorktreeIntegration` | `FindCompleted`, `ReadHead`, `Match`, without the lock |
| a command or write that fails | `Fault`: inside the loop it leads to the rollback, elsewhere out of the operation |
| a process that is killed | `Stop`; `git apply`, `git reset` and `git clean` may leave the workspace half-way (`Damaged`) |
| somebody else | `Edit`, `Commit` |

`preWorkspaceHash`, `currentTaskId` and `finalWorkspaceHash` are functions of the
applied prefix and are left out. `Adds` are patches that only add files: they stay
untracked, so `git reset --hard` leaves them and `git clean -fd` removes them.
What does not fit together, and which commands may fail, is chosen at the start
(`clash`, `faults`).

### WorkspaceGuard

| Code | Module |
|---|---|
| `current-workspace/current.json` | `current`; `Missing`, and `Unwritten` between its exclusive creation and its first content |
| `current-workspace/history/<id>.json` | `history[k]`, the snapshot the result was computed from; a guard id is the attempt `k` |
| `.guard.lock` | `lock`; of a process that stopped it is free to be taken (`Free`) |
| HEAD, the files Git sees, `captureWorkspaceSnapshot` | `repo`, copied in one step (`Baseline`, `Observe`) |
| `beginCurrentWorkspaceGuard` | `Call`, `TakeLock` or `LockTimeout`, then `RefuseBegin`, `Replay`, or `Admit` and `Create`, `Initialize`, `Baseline`, `Activate` |
| `completeCurrentWorkspaceGuard` | `Call`, `TakeLock` or `LockTimeout`, then `AnswerComplete`, or `Observe` and `Block` or `Accept`, `Record`, `Release` |
| a file operation or git command that fails, a process that is killed | `Fault`, `Stop` |
| leases, workers, other people | `Lease`, `Work`, `Interfere` |

`permit` and `start` are not in the code: they say whose worker may have been
spawned, and what the workspace looked like when it first was. A worker may write
any file, as often as it likes, until its guard is released; that it has ended by
then is the Lead's part. Release looks at `current.json` once more before it
removes it; under the lock it finds what it found before, and so does a second
`open`. The lease is looked at before the lock is waited for and not again.

### ModelBudget

| Code | Module |
|---|---|
| `MODEL-BUDGET.json` | `store`; the chain of approvals is a set, since its limits only rise |
| `.model-budget.lock` | `lock` |
| `reserve` | `Call`, `TakeLock` (which loads into `view`) or `LockTimeout`, then `Replay`, `RefuseReserve`, or `Reserve` and `Answer` |
| `approveLimit` | `Call`, `TakeLock` or `LockTimeout`, then `RefuseApprove`, or `Approve` and `AnswerApprove` |
| `verify` | `Verify`, without the lock |
| a write that fails, a process that is killed | `Fault`, `Stop` |

`granted` and `spawned` are not in the code: the authorizations that callers were
given, and those with which a worker was let through. A replayed approval answers
what `RefuseApprove` covers: nothing changes.

### WavePlanning

| Code | Module |
|---|---|
| the tasks, `normalizeTask` | `plan`, a function from ids to declarations |
| `resourcePatternsOverlap`, `resourcesConflict`, `fileAccessConflict`, `tasksConflict` | `Overlap`, `ClaimsCollide`, `FilesCollide`, `TasksConflict` |
| `validateTasks` | `Validate` |
| the loop of `buildExecutionWaves` | `OpenWave`, `TakeTask` per ready task, `CloseWave` |
| `planExecutionIsolation`, per wave | `ShareWorkspace`, `UseWorktrees`, or `SerializeTask` per task of the wave; `Return` |

Ids are numbers, in the order of `localeCompare`. A resource key is a sequence over
`Char`, so that `a*`, `ab*` and `ab` overlap as the prefixes of strings do.
`PeersDoNotMeet` does not use the collision rule: it asks what the claims name.
Ids are unique and effect policies valid; `validateTasks` refuses anything else
before a wave is built.

### QualityClosure

| Code | Module |
|---|---|
| `currentSnapshot`, `runtimeEvidence`, `repairHistory` | `snapshot`, `evidence`, `repairs` |
| QA's answer and the verifier's, as the closure last heard them | `opinion`, `verdict`, with the snapshot they are about (`on`, not in the code) |
| `runFixLoop` with the callbacks of `runRepairConvergence` | `ReviewSnapshot`, `VerifySnapshot`, `EndRound`, `Repair` or `FixNothing` |
| `evaluateCompletionGate` and what it calls | `Passes`, `Missing`, `Unproven`, `Independent`, `Light` |
| `acquireProofGaps`, one gap at a time; `mergeAcquiredEvidence` | `Acquire` |
| `assessEvidence` in `callVerifier` | `Assessed` |
| the judgement before and after the acquisition | `Judge`, `Reassess`, `Rejudge` |
| a callback that throws, a log that cannot be written in strict mode | `Throw` |

There is one action per callback, since the closure computes without a pause between
two of them. Of findings the model keeps the fingerprints of those that block.

### Interview

| Code | Module |
|---|---|
| `createInterviewState`, `applyScoutEvidence`, `confirmInterviewTopology` | `InterviewInit`, `ApplyScoutEvidence`, `ConfirmTopology` |
| `evaluateRequirements`, `computeAmbiguity`, `chooseWeakestComponentDimension` | `Scores`, `Ambiguity`, `ClearEnough`, `Weakest` |
| `nextInterviewQuestion` | `NextQuestion`, and `Ask` when the Lead keeps the question it answers |
| `recordInterviewRound`, `interviewProgress` | `RecordRound`, `Progress` |
| `selectChallengeMode`, `computeOntologySnapshot` | `SelectChallengeMode`, `ComputeOntologySnapshot` |

The spec is no state: the Lead may hand in any brief with any call, so that a
question is answered under another spec than it was asked under. `asked` is the
question the Lead holds, which may be an old one.

### Consensus, GraphRevision and Routing

| Code | Module |
|---|---|
| `consensusPolicy`, `createConsensusState` | `ConsensusInit` |
| `recordConsensusReview` | `RecordConsensusReview`, with `Acceptable` (what it does not throw for) and `CouncilApproved` |
| `approveConsensusExecution` | `ApproveConsensusExecution` |
| `createUserApprovalReceipt` | `Approve` |
| `sealExecutionPlan` | `SealExecutionPlan` |
| `proposeMaterialRevision`, `sealApprovedMaterialRevision` | `Proposed`, `SealApprovedMaterialRevision` |
| `requestLeaseExtension` | `RequestLeaseExtension` |
| `sealGraph`, `validateSealedExecutionGraph` | `SealGraph`, `ValidGraph` |
| `baseRouteFor`, `stageModel` and the profiles of a role | `Profiles`, `BaseRoutes` |
| `buildFailureEnvelope` | `Eligible` |
| `applyFailureEscalation`, `nextRouteStep`, counted failures | `AfterFailure`, `AfterFailures`, `NextRouteStep` |
| `resolveRoleRouting` | `ResolveForced`, `ResolveCounted`, `ResolveFailed` |

A graph is a record and its hash is its place in `sealed`; the Lead may revise or
extend any of them, not only the last, with any receipt the user ever gave.
In `Routing` `tried`, `failed`, `counted` and `bases` remember one stage's history;
the code keeps none, the Lead does.

### WorktreeWave

| Code | Module |
|---|---|
| `git worktree list`, the owner metadata in each administrative directory, the files | `admin`, `disk`, `roots`, `patches` |
| `createWorktreeWave` | `CreateWorktreeWave`, then `AddWorktree`, `OpenOwner`, `WriteOwner` per task, `FailCreation` from any of them |
| `collectWorktreeResults` | `CollectWorktreeResults`, then `ReadOwner`, `IntendToAdd`, `CheckNames`, `Diff`, `WritePatch` per task; `ThrowCollecting` |
| `cleanupWorktreeWave`, alone or in the creation's `catch` | `CleanupWorktreeWave`, `RemoveWorktree` per worktree, `Prune`, `RemoveRoot` |
| the Lead goes on to the integration | `HandOver` |
| workers, a stopped Lead, a binding that fails | `Write`, `Stop`, `FailBinding` |

Of a file's content the model keeps only when it was last written, seen from the
collection: before the new files were looked for, after that, or after the names
were checked. That is what decides whether a change is in the patch and whether it
was checked for ownership.

### BrowserQa

| Code | Module |
|---|---|
| `spawn` and `waitForUrl` | `CallBrowserQa`, `TargetAnswers` |
| `loadPlaywright`, `launch`, `newContext`, `newPage` | `LoadPlaywright`, `Open` |
| `page.goto` | `GotoTarget` |
| `runExplicitActions` | `ExecuteAction` |
| `exerciseDiscoveredControls` | `ReadControls`, then per control `SkipCandidate`, or `LookAtCandidate`, `CandidateHidden`, `TryCandidate`, `Reload`, `TryAgain`, `TryFails`, `Reset`; `StopProbing` |
| the judgement and the report | `JudgeProbes`, `ReportTitle` |
| an await that throws, and the `catch` | `Throws` |
| `safeClose` of page, context and browser, `stopServer` | `Close`, `StopServer` |
| the page, the application | `PageChanges`, `PageReports`, `ServerExits` |

Controls are found once and looked for again by their place, so what is pressed may
be another control than the one that was judged. The page may change between two
looks at a place; the other reads follow a load. `pressed`, `late` and `stuck` are
not in the code: what was clicked and what it was found as, which errors came after
the judgement, and what would not close.

### StateStore

| Code | Module |
|---|---|
| `init` after `exists` | `InitState` |
| `load`, the mutator and the revision of `update` | `UpdateState` |
| `writeFile` in `write`: the file is created or emptied, then filled | `OpenTemp`, `OpenSameTemp`, `WriteTemp` |
| `rename` | `Rename` |
| an await that throws, a mutator that throws | `ThrowState` |
| the process stops | `StopProcess` |

A state is its revision, the saves it is made of, and whether its text holds the mark
that ends the block of the state. The name of a temporary file tells a process and a
millisecond: in one process a call may find another one writing under the same name
(`OpenSameTemp`), across processes it never does. Files are numbered and names lead to
them, for a call that still holds a file open goes on writing to it after somebody else
has renamed it to `STATE.md`. `saved`, `raced` and `clashed` are not in the code: which
saves were made, while another call was under way, and with a shared temporary file.

## 3. Runs

| Run | Question | Bounds | Result |
|---|---|---|---|
| `LockProtocol` | Is each kind of lock a mutex until somebody stops, and is a left-over lock removed? | three processes, one may stop, no owner alive looks stale | holds |
| `LockRace` | Does it stay a mutex after an owner stopped? | the same, `store` and `queue` locks included | violated, see section 6 |
| `RunAttempts` | Do the ledger, the leases and the releases stay consistent with each other? | two Leads, both may stop anywhere, one attempt of each of two colliding tasks, one of them isolated in a worktree, one graph, non-terminal records with and without descriptor hash | holds |
| `RunRevisions` | Do leases and graph revisions stay consistent, is `TaskAttempts` implemented, does every operation return and is the fence freed? | two Leads, both may stop anywhere, two attempts of one task, a first revision and two that compete to be its child | holds, the last two under fairness |
| `RunStaleLease` | Is a granted lease bound to the current graph? | two Leads, two revisions | violated, see section 6 |
| `QueueRecovery` | Is an integration never lost, repeated, mistaken for a conflict or completed half? | two processes, one may stop anywhere; three patches (change, addition, change); no conflict, a conflict between patches or with an edit; every command may fail but those that record an applied patch; one edit or commit | holds |
| `QueueHalfUndone` | Is a completed queue complete when recording an applied patch and cleaning up may fail? | as above, no stops, no edits | violated, see section 6 |
| `QueuesCollide` | Does a queue only remove what it brought? | two queues, one process each, one pair of conflicting patches | violated, see section 6 |
| `GuardProtocol` | Has the repository one writer at a time, whose changes are checked against one baseline and whose result is final? | two processes, one may stop anywhere, every step may fail; two attempts, two files, each in the write set of one attempt; one edit or commit of somebody else | holds |
| `BudgetLimits` | Are no more calls let through than were allowed, and each charged once? | two processes, one may stop anywhere, every step may fail; three attempts, two routes, initial limits 1 and 2, four receipts that compete, continue each other and share an id | holds |
| `WorktreeWaves` | Do patches hold what their workers changed, does a wave stay up until its Lead takes it down, and does a retry succeed? | two Leads, with a root each or one for both, waves of two tasks and of one, a new file and one of the commit, one stop or failed binding, two writes at any time | holds, the retry under fairness |
| `Orchestrator` | Does each session of the Lead keep its promise: waves, closures, interviews, consensus, graphs, routes, browser checks and the project's state? | *waves*: every plan of two tasks of ten kinds, with dependencies on up to three ids, one of them missing; three tasks that differ by a written file, with any dependencies. *Closures*: tiers 0 to 2, without or with two repair cycles, with or without snapshots, three opinions of QA, seven answers of the verifier. *Interviews*: cap 4, warning 3, early exit from 2 (20, 10 and 3 in the code), five rounds recorded, four briefs. *Consensus*: every policy of tiers 1 to 3, seven kinds of review, four reviews. *Graphs*: three plans, one of them a circle, two receipt ids, four graphs. *Routes*: two roles, 48 failures, two counted failures, rungs 2 to 5 of the seven offered by the runtime. *Browser*: five requests on three pages, one of them with more controls than the smallest check looks at. *State*: two calls at a time, in one process or two, four saves, five files | holds |

Why these bounds are enough to be interesting. Two Leads are what the hazards of
the run store need: every one of them is about one Lead acting on what another one
has changed; a third lock contender is needed for the reclaim race, where one
process owns the lock and two remove it. Two tasks collide with each
other, and two attempts of one task tell a second attempt from a replay. Three revisions give
two advances that race from the same parent. Three patches give a first one, with
an empty prefix, one in the middle and a last one; the one in the middle is the
one that a reset leaves behind. Ids and reasons of the callers are as few as
needed for a replay, a second record under the same id, and a second outcome.
Two attempts and two files give the guard an own and a foreign file for each
attempt, and a second attempt that wants in while the first one's guard is open,
broken off or being released. Files have two values, so that a change can be
undone. Three attempts exceed both initial limits, and the receipts raise either
far enough for all of them. `MaxEdits` bounds how often somebody else touches the repository.
Two tasks are all that a collision is about, and their ten kinds include each pair
of a pattern, a longer pattern and a key; three tasks make a cycle that is not a
pair, and a wave of which only a part collides. Two repair cycles give a repair of
what the repaired snapshot showed. The seven answers let every way through the gate
be taken: lightweight evidence, coverage of the wrong snapshot, assessments by name
and by criterion, a gap that is announced, and a report that traces less than it
lists. Tier 3 is judged as tier 2 is.
Four interview rounds with a cap of four put the warning, the early exit, the three
rounds of a stall and the cap in different rounds, and a fifth goes past the cap.
Four reviews exceed each limit of iterations that an approval can be withdrawn
behind. Four graphs are a plan, an extension, a revision and what is made of an
older one; two receipt ids let a grandparent's receipt be taken again. The three
pages put the same kinds of control at different places, and one has five controls
for a check that looks at four times its maximum of one.
Waves of two tasks and of one make the Leads' paths under a shared root meet in the
first task and differ in the second.

## 4. Fairness

Nobody is obliged to start an operation. A process that has started one goes on
with it (`WF_vars(Step(p))`): JavaScript runs what it awaits, all waiting in the
code is polling with a deadline, and the deadline itself is a step
(`LockTimeout`). In `ExecutionRun` stale locks are reclaimed (`WF` on `ReclaimFence`
and `ReclaimLedger`), which `AdvisoryLock` justifies: there `OrphanReclaimed` says
that contenders that keep trying remove what a stopped process left. In
`IntegrationQueue` only processes outside `Mortal` are fair. In `WorktreeWave`
(`WaveSpec`) each Lead's own steps are fair, its stops and failures are not; the
Lead is taken to create its wave and to repeat a creation that failed. In `Orchestrator` (`CallSpec`)
fairness is of the waves and the closure only, whose callbacks answer or throw; the
interview, the consensus, the graphs, the routes and the state store wait for people, and Playwright
promises no end of a call, so nothing is claimed of theirs. No strong fairness is
assumed anywhere: who wins a lock, and whether anyone in particular does before
its deadline, is up to the scheduler.

## 5. Proofs

Everything below is proved by `tlapm` for every value of the constants that
satisfies the named assumptions, down to the last leaf.

**AdvisoryLock.** `TypeCorrect` is by induction over the steps. `Exclusion` and
`MutexImplemented` assume that no live owner looks stale (`LiveAge = FALSE`: an
operation is shorter than the age at which a lock is judged stale, 10 to 30
seconds) and speak of executions up to the first stop. The inductive invariant
says whose the lock is: whoever is between create and release owns it, and nobody
who has read the lock has a reason to remove it while its owner lives. `LockRace`
shows that the condition on stops cannot be dropped.

**ExecutionRun.** `Invariant` proves one inductive invariant, from which the
others follow by name: `OneOutcome` (`LedgerLoads`), `ReleasesBacked`,
`LeasesExclude` (`NoOverlap`), `AttemptsIdentified` (an attempt is leased once, and
`RevisionsKept`),
`CompletionsIntegrated`, and the action properties `LedgerOnlyGrows`,
`LeasesOnlyAdvance`, `OutcomesDecidedUnderLease`, `GraphAdvancesDrained`. The
safety invariants are not inductive: a process decides on `view` and `seen`, which
it loaded in an earlier step. The strengthening says what these are worth at each
stage: who is past `TakeFence` holds the fence and its `view` is `leases`; who is
past `TakeLedger` holds the ledger lock and its `seen` is the ledger; who is about
to append holds both, has checked the record against the leases under the fence,
and the leases have not moved since; whoever carries a release carries a record
that is in the ledger. Mutual exclusion of the two locks is part of the module (a
lock variable has one owner), so these theorems are about the stores given locks
that exclude.

`StoreGoesOnLoading` (`StoreReloads`) says exactly when the leases load against the
ledger, and assumes nothing of what callers commit. Each released lease keeps its proof
in the ledger (`ReleaseBacked`, part of the invariant), and terminal records are always
well-formed (`OutcomesFormed`), so that only one thing is left that stops a store with
a released lease from loading: a non-terminal record without descriptor hash, which
`commitTransition` accepts. It stops it for good, since the ledger only grows.

`LedgerOnlyGrows`, `OutcomesDecidedUnderLease` and `GraphAdvancesDrained` have no
run of their own: `RunRevisions` checks the refinement of `TaskAttempts`, which says
the same of what the files mean.

**TaskAttempts.** `TaskAttemptsImplemented` proves the refinement: grants, outcomes
and settled attempts are read off the leases and the ledger (`GrantOf`,
`OutcomeOf`, `Settled`), and every step is a step of the abstract specification or
leaves its state alone. It needs one more invariant, that each terminal record
belongs to a lease (`OutcomesLeased`).

**IntegrationQueue.** For any processes, queues, patches, conflicts, faults and
edits: `TypeCorrect`, `WorkspaceNeverAhead` (`WorkspaceJournaled`) and the refinement
`PatchQueueImplemented` (a queue's applied patches, read off its journal, are taken
one at a time or given up together, and a complete queue is final). From
`OrderAssumption`, `DisjointAssumption`, `DistinctAssumption` (both refused by
`orderedIntegrationResults` or by the worktrees themselves), `QueueAssumption`,
`NamesAssumption` and `EditsAssumption`. None of the properties is inductive, because a
process acts on a journal and a workspace it looked at several awaits ago. The
invariant `IInv` says, stage by stage, what is still true then: the process owns the
lock of its queue (`Owned`), its journal has one of the states that fit the stage
(`Placed`), a missing journal holds nothing (`Absent`), and a rollback has removed as
much of the queue's patches as its last git command does (`Undone`): what is only
added survives the reset and goes with the cleaning.

`CompletedIsWhole`, `RecoveryIsExplained` and `ReceiptIsWhole` say more, and need
more: one queue (`Alone`), since the rollback of another one resets the whole
workspace (`QueuesCollide` is the counterexample), and, for the first, that recording
an applied patch does not fail (`RecordingSucceeds`; `QueueHalfUndone` is the
counterexample). `QueueRecovery` runs under both, with everything else failing or
stopping. `AloneInv` adds what is in the workspace at each stage: the patches that the
journal counts, whole, and the next one absent, torn or whole according to whether
its `git apply` is about to start, was broken off or has returned. `Lookup` is about
`findCompletedWorktreeIntegration`, which reads journal, HEAD and workspace one after
the other without the lock: a completed journal is final, and its hash is compared
last, so that the receipt is about the workspace of that moment.

**WorkspaceGuard.** `TypeCorrect`, `WritersOwnTheGuard`, `CompletedAttemptsWithin`,
the action property `ResultsFinal` and the refinement `GuardIsSingleWriter` follow
from one inductive invariant, `IInv`. An operation decides by what it reads when it
gets the lock and writes several steps later, so the invariant says that only the
holder of the lock is under way (`Exclusive`), that what it has read is still there
(`Underway`), and that a first snapshot is the baseline of the open guard until the
attempt is completed (`Baselines`); without the last part nothing would tie the
comparison in `Accept` to what the worker was first given. That the lock excludes is
part of the module, as in `ExecutionRun`.

**ModelBudget.** `TypeCorrect`, `SpawnsBounded`, `ReplaysAnswered` and the
refinement `BudgetIsAllowance` follow from an inductive invariant that says what a
process that has loaded the store may rely on: it is still the file (`Fresh`), what
was answered is in the file (`Backed`), and the file is within its limit with one
route for each attempt (`Sound`). Bounding the workers by the limit takes the
library's facts about cardinalities of finite sets.

**WavePlanning.** For any tasks and declarations: `TypeCorrect`,
`DependenciesKept`, `PeersApart`, `OneMutatorAtATime` and `AllOrNothing`, from
`TaskAssumption` (ids are compared by a total order without infinite descent; numbers
stand for it), `ContractAssumption` and `PlansAssumption`. `PeersApart` rests on two
lemmas about the pairwise rule: it is symmetric (`ConflictSymmetric`), without which
a greedily filled wave could hold a collision, and complete (`MeetingConflicts`).
The invariant adds what closed waves are worth, that whatever is considered for a
wave is ready for it, that no task of a cycle is ever scheduled (`Acyclic`, from
which every cycle is found), and that a wave is either untouched, taken over whole,
or being taken apart for lack of worktrees (`Placed`). `WavesAreSound` puts the last
four together as the run checks them.

**WorktreeWave.** `WavesTyped`, `PatchesFaithful` and the action property
`WavesAreKept`, for any Leads, files and writes and waves of any size, from
`WaveAssumption`. `Collected` says, for each await of a collection, what is known
of the files written so far and of the names checked: a patch that is written is the
one that was computed, and what it shows was either owned, or late, that is, written
after the names were checked (or, under a shared root, after the new files were looked
for). `Standing` says
that two waves share a path only if their Leads share a root, so that another Lead's
cleanup, which removes by path, reaches only its own root.

**Interview** (`Session_proofs`, `RoundsAreExplained`, from `InterviewAssumption`).
`InTurn`: the question the Lead holds was asked below the cap, so a round recorded
behind it has a question of another number, and an interview that goes on at the
warning round has been warned. `InterviewIsTyped` takes two facts about
recursive functions that the library can give by induction only, and reaches them by a
least counterexample, so they are proved for these definitions and not for operators in
general: the ambiguity is the sum of its four weighted parts (`WeightsAddUp`), so
it lies between none and one (`AmbiguityBounded`), and the fold over a round's entities counts
each of them once (`EntitiesCounted`), so no more are gone than there were. The share
of fields that two entities have in common is a number because `Field` is finite, which
`InterviewAssumption` says: an entity is a value the code holds in memory.

**Consensus** (`ConsensusIsEarned`, from `ConsensusAssumption`). `Underway` ties
every field of the state to the history: an approval to the last review, an iteration
beyond the limit to an earlier approval.

**GraphRevision** (`GraphsAreApproved` and `LineageIsTold`, from `GraphAssumption`). `Accounted` says of
every graph what `ApprovedAndAccounted` says of it, node by node; sealing a plan,
revising and extending each keep it. That every task leads to the terminal
verification is an argument about circles: a set of tasks on which nobody outside
depends has no last one (`NoCircle`), which an orderable plan excludes; it needs the
plan to be finite. `AmendmentsTellLineage` follows a graph back to its first one by
its parents, with a recursive function (`LineTo`). The invariant keeps a function that
satisfies the same equation for every graph so far (`Ways`), and `LineToIsWay` shows, by
a least counterexample, that there is no other; `Tells` is kept because a new graph adds
one place to its parent's line and one amendment to its parent's. The amendment of a
revision names its parent in the code, that of a lease extension does not: the latter
is recognised by what it adds, which is just the difference between the two graphs.

**Routing** (`RungsAreEarned`, from `RoutingAssumption`). `EarnedFrom` reads the
ladder from a base upwards: each rung below was tried and is among those that a failure
named, but for as many as were counted, and but for the base itself when a failure
named no rung and the call took it to be of the base (`PresumedEarned`).

**QualityClosure** (`PassesAreAudited`, `RepairsAreFound`, `AcquiredIsNamed`, from
`InputsAssumption`, `AnswersAssumption` and `CyclesAssumption`). `Current` says at which
stages the last review and the last verdict are about the present snapshot, and that
there is a verdict only where the review found nothing that blocks; `Cycles` counts the
repairs by the attempts. What the gate asks of evidence is then what a pass owes
(`GateAudits`). The answers of the callbacks, the required proofs and the pieces of
evidence may be any number.

**BrowserQa** (`NothingIsLeftOpen`, `PassesAreExercised`, `ControlsAreSpared`, from
`PagesAssumption`, `RequestsAssumption` and `NoiseAssumption`). `Held` says which
resources are open at each await, which makes the first a matter of walking through
the `finally`; `Tallied` ties the probes to how far the list of controls, or of
actions, has been gone through; `Clicked` and `Counted` tie what was pressed and how
often to the control as it was found. A page may have any number of controls and a
request any number of actions.

**StateStore** (`SavesAreKept`, from `StateAssumption`). `StoreWhole` says of every
draft under way, of every temporary file somebody is about to rename and of
`STATE.md` that it holds all saves nobody overlapped (`Settled`), and of a call that
shares its temporary name with nobody that its file is its own (`OwnTemp`). A save
becomes settled only when no other call is under way, so that no older draft can
come after it.

**Orchestrator** (`SessionsAreTyped`, `SessionsAreSound`, `SessionsAreAudited`, from the
assumptions of all sessions). `SessionsHold` is the conjunction of the sessions' own
invariants, of `IInv` of the waves, and of what the types need beyond them. `OwnSteps` says that a step of
the Lead is one of a session's specification and leaves the other sessions' variables
alone, so each invariant is kept by its own lemma. A session that is never called
keeps what it starts with, and `SessionsStart` shows that this is enough. What is proved of
one session thus holds of all of them together, for every safety invariant and action
property the run checks. `RoutingAssumption` says that there is a stage at all: the
route of a session not yet called is of some stage.

**Only model-checked.** Liveness (`OrphanReclaimed`, `OperationsReturn`,
`FenceFreed`, `OperationsEnd`, `CallsReturn`, `RetrySucceeds`), since TLAPS does not
reason about `ENABLED`. Every other property of a passing run is stated by a theorem.

## 6. Where the code and its documentation disagree

Each of these is a run that expects a violation; `PROJECT.json` quotes the lines.

- **A reclaimed lock can be removed under its new owner** (`LockRace`). Judging a
  lock stale and unlinking it are two steps; of two contenders that judged the
  same lock, the second unlinks the first one's new lock. Both are inside.
- **A lease can be granted under a superseded graph** (`RunStaleLease`). The
  command line reads `GRAPH.json` before the fence is taken, and `acquire` does not
  compare again. The lease can never be completed and blocks every advance until
  it is settled otherwise.
- **A broken-off rollback can complete a queue** (`QueueHalfUndone`). What
  `git reset --hard` leaves of an added file makes the reverse check succeed, so
  the in-flight patch is recorded as applied although the earlier ones are gone.
- **A rollback removes what others brought** (`QueuesCollide`). Locks are per queue,
  the reset is of the whole workspace.

## 7. What is not modelled, and assumptions

- Contents: prompts, reports, file texts and their formats. Where the code refuses
  malformed input before it touches a file, the model does not offer the input.
- Corruption of files by others. Files of the stores are replaced by rename, so the
  model's files always have a value somebody wrote; what a load refuses of those
  values is modelled (`WellFormed`, `StoreLoads`, `Valid`).
- Git commands of a killed process may in truth go on running for a moment; the
  model stops them with it. The content of a collected patch file does not change.
- The integration receipt of a completion is verified before the record is
  appended; `CompletionIntegrated` says that an integration was recorded under the
  very lease, not that the workspace still shows it. HEAD or the workspace may move
  between the two; the code does not look again, and no property speaks of it.
- A worker that goes on writing after its Lead has completed the guard, and a guard
  whose lease ended first: `PROJECT.json` lists both among the hazards, but no code
  under `core/` decides what happens then.
- A process that stopped never comes back in `AdvisoryLock` (its restart is another
  process); in `ExecutionRun` and `IntegrationQueue` nothing local survives a stop,
  so a restart is a later operation of the same name.
- A non-terminal record without descriptor hash is modelled, and no property promises
  that the store survives it: `commitTransition` accepts one
  (`tests/transitions/transitions.test.mjs:1022`), and a lease store with a released
  lease no longer loads a ledger that contains it. `RunAttempts` has both kinds of notes
  (`BothNotes`), and `StoreReloads` is an equivalence: it would fail as well if the store
  still loaded then.
- `QualityClosure`: the default `acquireProofGaps` only, not a callback in its place;
  assessments name no snapshot of their own, and no two of an answer are about the
  same piece of evidence; a repair names a snapshot or says nothing about it. (One
  that answers `snapshot: null` makes the loop go on without, and the closure fall
  back to the one it started with.) The branches that no callback can reach are left
  out: a convergence without any verification, a second call of the verifier for a
  closure that has a verdict.
- What the gate does not promise is not claimed: PASS is judged by the criteria that
  the report lists, and a trivial task by its first piece of evidence, also when that
  was acquired and nobody assessed it.
- A file written between the check of the names and the diff goes into the patch although
  its task does not own it. `PatchFaithful` exempts just that moment (`Late`): the code
  does not look at the names of the patch again.
- `WorktreeWave`: commits a worker makes in its worktree, symbolic links, and the refusals
  before anything is done. Under a shared root one
  Lead's search for new files can show files of the other's later (`Late`): the
  property allows it, since the option `tempRoot` allows the sharing.
- `Interview`: the probes for edge cases, the one-shot requirement question and the
  text of the crystallized spec. `Consensus`: the form of a plan document and the
  deliberation and criteria it must hold, which are checks of one text.
- `Routing`: which facts of a task select a profile; a profile is any the code has
  for the role. Four things the code does are in the model and not claimed to be
  otherwise: the escalation starts from the attempted route of the envelope, not from
  the stage's own; an envelope without a target role is taken by every stage; an
  envelope without an attempted route is taken to be of the base of the call, whether
  or not anything ran there; and counted verifications go up a rung each, tried or not.
  By either of the last two a stage enters Sol high with no run of Luna max, the first
  of them when its base is Luna max, although `MODEL-ROUTING.md:31` says that Sol is
  entered only after Luna max is actually exhausted. `RungsEarned` names both cases
  (`presumed`, `counted`), and promises the document's rule for all others.
- `GraphRevision`: the receipt of a grandparent approves a revision again when spec and
  plan are those it names; the isolation mode of a task is not computed again when its
  lease is extended; grants are dropped by a material revision, while the amendments
  go on to list them. `ApprovedAndAccounted` counts the grants since the last approval.
- `BrowserQa`: the rules of words that call for a check (`assessBrowserQa`), the single
  explicit actions, a mode that does not exist and malformed actions (they end the
  check like any throw). A server that cannot be spawned reports an error event that
  nobody listens to, which ends the process: the model's check then never returns.
  `waitForUrl` is satisfied by whatever answers at the address, and only the process
  that was spawned is stopped, not those it started. A check of a page without controls
  succeeds. Of what `BROWSER-QA.md` promises of automatic exploration two things are
  weaker in the code and in the properties: a destructive control is clicked when it
  has taken another one's place (`ControlsSpared` says so), and a
  `<button type="submit">` is not told from other buttons (`Control.harmful` is what
  `isPotentiallyDestructive` knows).
- `StateStore`: what a save contains, and the forms of a state that `normalizeState`
  refuses. `SavesKept` promises nothing of saves that overlap: the later rename wins, and
  of two calls that initialize the second overwrites what the first has saved. A state
  with `-->` in one of its texts is saved, and can then be neither loaded, updated nor
  initialized again; the model has this dead end and no property denies it.
- Components marked `not_modelled` in `PROJECT.json`, with the reason for each.

## 8. Plan

Done: the stores and their locks, the integration queue and the waves before it, the
guard, the budget, and the sessions of the Lead from the interview to the browser
check and the project's state. What is left, in this order.

1. Provenance: `auditDecisionTrace` against the decisions, events and actor artifacts a
   run leaves behind.
2. Composition: `ExecutionRun`'s `Graph`, `Parent` and `Conflict` taken from
   `GraphRevision` and from `WavePlanning`'s `TasksConflict`; `WorktreeWave` handing its
   patches to `IntegrationQueue`.
