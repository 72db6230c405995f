---------------------------- MODULE WavePlanning ----------------------------
(***************************************************************************)
(* The scheduler: buildExecutionWaves and planExecutionIsolation           *)
(* (core/scheduler/index.mjs), as prepareExecution calls them one after    *)
(* the other.  A task declares what it depends on, the files it reads and  *)
(* writes and the resources it claims.  The scheduler groups the tasks     *)
(* into waves: those of a wave run at the same time, those of later waves  *)
(* after them.  It then decides for every wave whether its tasks share the *)
(* workspace, get a worktree each, or run one by one after all.            *)
(*                                                                         *)
(* Ids are numbers, compared as localeCompare compares the ids.  A         *)
(* resource key is a sequence of characters; a key that ends in `*' stands *)
(* for every key that starts with the rest.                                *)
(***************************************************************************)
EXTENDS Naturals, Sequences, FiniteSets

CONSTANTS
  Task,      \* ids of tasks
  File,
  Char,      \* what keys of resources are made of
  Contract,  \* what a task may declare, a subset of Declaration
  Plans      \* the plans the scheduler is given

Word == Seq(Char)
Key == [stem : Word, star : BOOLEAN]
Mode == {"shared", "exclusive"}

\* What normalizeTask makes of a task.  `careless' says whether the effect
\* policy is other than side_effect_free, `hazard' whether the task formats,
\* generates, migrates, touches a lockfile or is unsure of its files.
Declaration ==
  [deps : SUBSET Task, reads : SUBSET File, writes : SUBSET File,
   claims : SUBSET [key : Key, mode : Mode],
   careless : BOOLEAN, hazard : BOOLEAN]

\* The tasks of a plan may depend on ids that are not among them.
Plan == UNION {[S -> Contract] : S \in SUBSET Task}

ASSUME TaskAssumption == Task \subseteq Nat
ASSUME ContractAssumption == Contract \subseteq Declaration
ASSUME PlansAssumption == Plans \subseteq Plan

VARIABLES
  plan,      \* the tasks, by id
  options,   \* the Lead's options for the isolation
  pc,        \* where the scheduler is
  waves,     \* the waves closed so far
  wave,      \* the wave being filled
  ready,     \* ready tasks not yet considered for it
  isolated   \* the waves of the isolation plan, with their modes

vars == <<plan, options, pc, waves, wave, ready, isolated>>

-----------------------------------------------------------------------------
(* tasksConflict *)

Prefix(v, w) == Len(v) <= Len(w) /\ \A i \in 1 .. Len(v) : v[i] = w[i]

\* Mutant of Overlap: a pattern collides with the keys below it, and not with
\* the patterns above it.
OverlapOneWay(k, l) ==
  \/ k = l
  \/ k.star /\ Prefix(k.stem, l.stem)
  \/ l.star /\ ~k.star /\ Prefix(l.stem, k.stem)

Overlap(k, l) ==
  \/ k = l
  \/ k.star /\ Prefix(k.stem, l.stem)
  \/ l.star /\ Prefix(l.stem, k.stem)

ClaimsCollide(c, d) ==
  /\ c.mode = "exclusive" \/ d.mode = "exclusive"
  /\ Overlap(c.key, d.key)

FilesCollide(t, u) ==
  \/ plan[t].writes \cap (plan[u].writes \cup plan[u].reads) # {}
  \/ plan[u].writes \cap plan[t].reads # {}

TasksConflict(t, u) ==
  \/ FilesCollide(t, u)
  \/ \E c \in plan[t].claims, d \in plan[u].claims : ClaimsCollide(c, d)

\* isMutatingTask
Mutates(t) ==
  \/ plan[t].writes # {}
  \/ \E c \in plan[t].claims : c.mode = "exclusive"
  \/ plan[t].careless

-----------------------------------------------------------------------------
(* buildExecutionWaves *)

Scheduled == UNION {waves[i] : i \in DOMAIN waves}
Remaining == DOMAIN plan \ Scheduled

Ready == {t \in Remaining : plan[t].deps \subseteq Scheduled}

Init ==
  /\ plan \in Plans
  /\ options \in [worktrees : BOOLEAN, forced : BOOLEAN]
  /\ pc = "validate"
  /\ waves = <<>>
  /\ wave = {}
  /\ ready = {}
  /\ isolated = <<>>

\* validateTasks: a dependency must be another task of the plan.
Valid ==
  \A t \in DOMAIN plan : plan[t].deps \subseteq DOMAIN plan \ {t}

Validate ==
  /\ pc = "validate"
  /\ pc' = IF Valid THEN "next" ELSE "refused"
  /\ UNCHANGED <<plan, options, waves, wave, ready, isolated>>

\* The tasks whose dependencies are all in earlier waves; CYCLE when there is
\* none although tasks remain.
OpenWave ==
  /\ pc = "next" /\ Remaining # {}
  /\ ready' = Ready
  /\ wave' = {}
  /\ pc' = IF Ready = {} THEN "refused" ELSE "fill"
  /\ UNCHANGED <<plan, options, waves, isolated>>

First(S) == CHOOSE t \in S : \A u \in S : t <= u

\* In the order of their ids, those that collide with none taken before.
TakeTask ==
  /\ pc = "fill" /\ ready # {}
  /\ LET t == First(ready) IN
       /\ ready' = ready \ {t}
       /\ wave' = IF \E u \in wave : TasksConflict(t, u)
                  THEN wave ELSE wave \cup {t}
  /\ UNCHANGED <<plan, options, pc, waves, isolated>>

CloseWave ==
  /\ pc = "fill" /\ ready = {}
  /\ waves' = Append(waves, wave)
  /\ wave' = {}
  /\ pc' = "next"
  /\ UNCHANGED <<plan, options, ready, isolated>>

Scheduling == Validate \/ OpenWave \/ TakeTask \/ CloseWave

-----------------------------------------------------------------------------
(* planExecutionIsolation *)

Planned == UNION {isolated[i].tasks : i \in DOMAIN isolated}
Unplanned == {i \in DOMAIN waves : ~(waves[i] \subseteq Planned)}

Several(S) == \E t, u \in S : t # u

\* isolationRiskReasons
Risky(S) ==
  \/ options.forced
  \/ Several({t \in S : Mutates(t)})
  \/ \E t \in S : plan[t].hazard

AllPlaced == Remaining = {} /\ pc = "next"

\* assessWaveIsolation: the wave shares the workspace as it is ...
ShareWorkspace ==
  /\ AllPlaced /\ Unplanned # {}
  /\ LET S == waves[First(Unplanned)] IN
       /\ ~Several(S) \/ ~Risky(S)
       /\ isolated' = Append(isolated, [tasks |-> S, mode |-> "workspace"])
  /\ UNCHANGED <<plan, options, pc, waves, wave, ready>>

\* ... or every task gets a worktree ...
UseWorktrees ==
  /\ AllPlaced /\ Unplanned # {}
  /\ LET S == waves[First(Unplanned)] IN
       /\ Several(S) /\ Risky(S) /\ options.worktrees
       /\ isolated' = Append(isolated, [tasks |-> S, mode |-> "worktree"])
  /\ UNCHANGED <<plan, options, pc, waves, wave, ready>>

\* ... or, without worktrees, its tasks become waves of their own.
SerializeTask ==
  /\ AllPlaced /\ Unplanned # {}
  /\ LET S == waves[First(Unplanned)] IN
       /\ Several(S) /\ Risky(S) /\ ~options.worktrees
       /\ isolated' = Append(isolated,
            [tasks |-> {First(S \ Planned)}, mode |-> "workspace"])
  /\ UNCHANGED <<plan, options, pc, waves, wave, ready>>

Return ==
  /\ AllPlaced /\ Unplanned = {}
  /\ pc' = "done"
  /\ UNCHANGED <<plan, options, waves, wave, ready, isolated>>

Isolating == ShareWorkspace \/ UseWorktrees \/ SerializeTask \/ Return

Next == Scheduling \/ Isolating

Spec == Init /\ [][Next]_vars
FairSpec == Spec /\ WF_vars(Next)

-----------------------------------------------------------------------------
TypeOK ==
  /\ plan \in Plan
  /\ options \in [worktrees : BOOLEAN, forced : BOOLEAN]
  /\ pc \in {"validate", "next", "fill", "refused", "done"}
  /\ waves \in Seq(SUBSET Task)
  /\ wave \subseteq Task
  /\ ready \subseteq Task
  /\ isolated \in Seq([tasks : SUBSET Task, mode : {"workspace", "worktree"}])

\* A task starts only after everything it depends on, also when a wave was
\* taken apart for lack of worktrees.
DependenciesFirst ==
  \A i \in DOMAIN isolated : \A t \in isolated[i].tasks :
    plan[t].deps \subseteq UNION {isolated[j].tasks : j \in 1 .. i - 1}

\* What a claim names.  When two claims name something in common, the stem of
\* one of them is named by both.
Names(c, w) == w = c.key.stem \/ (c.key.star /\ Prefix(c.key.stem, w))
Stems == {c.key.stem : c \in UNION {plan[t].claims : t \in DOMAIN plan}}

Meet(t, u) ==
  \/ \E f \in plan[t].writes : f \in plan[u].writes \cup plan[u].reads
  \/ \E c \in plan[t].claims, d \in plan[u].claims :
       /\ "exclusive" \in {c.mode, d.mode}
       /\ \E w \in Stems : Names(c, w) /\ Names(d, w)

\* Tasks that may run at the same time do not meet: neither writes a file that
\* the other touches, and no resource one of them owns is named by both.
PeersDoNotMeet ==
  \A i \in DOMAIN isolated : \A t, u \in isolated[i].tasks :
    t # u => ~Meet(t, u)

\* At most one task at a time mutates the shared workspace, and worktrees are
\* used only where there are any.
OneMutator ==
  \A i \in DOMAIN isolated :
    \/ isolated[i].mode = "worktree" /\ options.worktrees
    \/ ~Several({t \in isolated[i].tasks : Mutates(t)})

\* Tasks that wait for each other, round and round.
Circular(S) ==
  S # {} /\ S \subseteq DOMAIN plan /\ \A t \in S : plan[t].deps \cap S # {}

\* A plan is refused for a bad dependency or a cycle and for nothing else;
\* any other plan is carried out whole, each task once.
AllOrRefused ==
  /\ pc = "refused" => ~Valid \/ \E S \in SUBSET DOMAIN plan : Circular(S)
  /\ pc = "done" =>
       /\ Valid /\ \A S \in SUBSET DOMAIN plan : ~Circular(S)
       /\ Planned = DOMAIN plan
       /\ \A i, j \in DOMAIN isolated :
            isolated[i].tasks \cap isolated[j].tasks # {} => i = j

\* What the Lead relies on when it starts the tasks of a wave together and waits
\* for a wave before the next: no task comes before one it depends on, peers keep
\* out of each other's way, the shared workspace has one writer, and no task is
\* lost on the way.  (buildExecutionWaves, planExecutionIsolation)
WavesSound == DependenciesFirst /\ PeersDoNotMeet /\ OneMutator /\ AllOrRefused

\* The scheduler returns.
Returns == <>(pc \in {"refused", "done"})

=============================================================================
