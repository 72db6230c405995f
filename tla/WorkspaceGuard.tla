---------------------------- MODULE WorkspaceGuard ----------------------------
(***************************************************************************)
(* The guard of the current workspace (core/workspace-guard): an attempt   *)
(* that works in the main workspace begins a guard, which records what the *)
(* workspace looked like, and completes it, which compares.  Under the Git *)
(* common directory there are                                              *)
(*                                                                         *)
(*   current-workspace/current.json         the guard that is open         *)
(*   current-workspace/history/<id>.json    the results of closed guards   *)
(*   current-workspace/.guard.lock          the lock of begin and complete *)
(*                                                                         *)
(* There is one current.json per repository, whatever the run.  All files  *)
(* but a new current.json are replaced atomically; that one is created     *)
(* first and written afterwards.  The lease of the attempt is looked at    *)
(* before the lock is taken.  The lock of a process that stopped is        *)
(* reclaimed (AdvisoryLock is about that).                                 *)
(*                                                                         *)
(* A guard id is a hash of the attempt's run, graph, task and lease, so it *)
(* is the attempt.  A snapshot is what it hashes.                          *)
(***************************************************************************)
EXTENDS Naturals

CONSTANTS
  Proc,       \* processes of the Leads
  Mortal,     \* those that may stop at any step
  NoProc,     \* a free lock
  Key,        \* attempts that mutate the current workspace, of any run
  NoKey,      \* none of them
  Path,       \* the files Git sees
  Writes,     \* the write set sealed for each attempt
  Value,      \* what a file may hold
  Head,       \* commits
  Base,       \* HEAD and the files at the start
  MaxEdits    \* how often somebody else touches the repository

ASSUME GuardAssumption ==
  /\ NoProc \notin Proc /\ NoKey \notin Key
  /\ Writes \in [Key -> SUBSET Path]
  /\ Base \in [head : Head, files : [Path -> Value]]
  /\ MaxEdits \in Nat

VARIABLES
  lease,      \* the durable lease of each attempt
  current,    \* current.json
  history,    \* history/<id>.json of each attempt: what completion observed
  repo,       \* HEAD and the files
  permit,     \* attempts whose worker may write
  lock,       \* owner of .guard.lock
  stage,      \* where each process is
  key,        \* the attempt it begins or completes
  observed,   \* the snapshot it took
  edits,      \* how often somebody else touched the repository
  start       \* history: the first snapshot taken for each attempt's worker

vars == <<lease, current, history, repo, permit, lock, stage, key, observed, edits, start>>
files == <<current, history>>
others == <<lease, edits>>

-----------------------------------------------------------------------------
Snapshot == [head : Head, files : [Path -> Value]]

\* A file or field that is not there.
Nothing == [head |-> "none"]

Guard == [key : Key, status : {"active", "write-set-violation", "reconcile-required"}, baseline : Snapshot]
Initializing == [key : Key, status : {"initializing"}, baseline : {Nothing}]
Missing == [key |-> NoKey, status |-> "missing", baseline |-> Nothing]
Unwritten == [key |-> NoKey, status |-> "unwritten", baseline |-> Nothing]

InitializingGuard(k) == [key |-> k, status |-> "initializing", baseline |-> Nothing]
ActiveGuard(k, s) == [key |-> k, status |-> "active", baseline |-> s]

\* changedPaths
Changed(before, after) == {x \in Path : before.files[x] # after.files[x]}

\* begin: look, create, write "initializing", snapshot, write "active"; the
\* last two again after a crash.  complete: look, compare, record, release.
Beginning == {"begun", "create", "unwritten", "baseline", "activate", "rebaseline", "reactivate"}
Completing == {"checked", "compare", "record", "release"}
Locked == Beginning \cup Completing
Stage == {"idle", "begin", "complete"} \cup Locked

TypeOK ==
  /\ lease \in [Key -> {"none", "active", "released"}]
  /\ current \in Guard \cup Initializing \cup {Missing, Unwritten}
  /\ history \in [Key -> Snapshot \cup {Nothing}]
  /\ repo \in Snapshot
  /\ permit \subseteq Key
  /\ lock \in Proc \cup {NoProc}
  /\ stage \in [Proc -> Stage]
  /\ key \in [Proc -> Key \cup {NoKey}]
  /\ observed \in [Proc -> Snapshot \cup {Nothing}]
  /\ edits \in 0..MaxEdits
  /\ start \in [Key -> Snapshot \cup {Nothing}]

Init ==
  /\ lease = [k \in Key |-> "none"]
  /\ current = Missing
  /\ history = [k \in Key |-> Nothing]
  /\ repo = Base
  /\ permit = {}
  /\ lock = NoProc
  /\ stage = [p \in Proc |-> "idle"]
  /\ key = [p \in Proc |-> NoKey]
  /\ observed = [p \in Proc |-> Nothing]
  /\ edits = 0
  /\ start = [k \in Key |-> Nothing]

At(p, s) == stage[p] = s
GoTo(p, s) == stage' = [stage EXCEPT ![p] = s] /\ UNCHANGED <<lock, key>>

\* The operation ends; its finally block gives the lock back.
Finish(p) ==
  /\ stage' = [stage EXCEPT ![p] = "idle"]
  /\ key' = [key EXCEPT ![p] = NoKey]
  /\ observed' = [observed EXCEPT ![p] = Nothing]
  /\ lock' = NoProc

\* begin succeeds, with baseline s: the worker may be spawned.
Permit(p, s) ==
  /\ permit' = permit \cup {key[p]}
  /\ start' = [start EXCEPT ![key[p]] = IF @ = Nothing THEN s ELSE @]
  /\ Finish(p)

Refuse(p) == Finish(p) /\ UNCHANGED <<files, repo, permit, start, others>>

-----------------------------------------------------------------------------
(***************************************************************************)
(* Both operations look at the lease first and then wait for the lock.     *)
(***************************************************************************)
Call(p, k, s) ==
  /\ At(p, "idle")
  /\ lease[k] = "active"
  /\ stage' = [stage EXCEPT ![p] = s]
  /\ key' = [key EXCEPT ![p] = k]
  /\ UNCHANGED <<files, repo, permit, lock, observed, start, others>>

\* Nobody holds the lock, or who held it has stopped.
Free == \A q \in Proc : lock = q => stage[q] \notin Locked

TakeLock(p) ==
  /\ stage[p] \in {"begin", "complete"}
  /\ Free
  /\ lock' = p
  /\ stage' = [stage EXCEPT ![p] = IF @ = "begin" THEN "begun" ELSE "checked"]
  /\ UNCHANGED <<files, repo, permit, key, observed, start, others>>

LockTimeout(p) ==
  /\ stage[p] \in {"begin", "complete"}
  /\ lock # NoProc
  /\ stage' = [stage EXCEPT ![p] = "idle"]
  /\ key' = [key EXCEPT ![p] = NoKey]
  /\ UNCHANGED <<files, repo, permit, lock, observed, start, others>>

-----------------------------------------------------------------------------
(***************************************************************************)
(* begin.  It is refused for a completed attempt, when the guard is        *)
(* another attempt's or cannot be read, and while it is to be reconciled.  *)
(***************************************************************************)
Completed(k) == history[k] # Nothing
Own(p) == current.key = key[p]

RefuseBegin(p) ==
  /\ At(p, "begun")
  /\ \/ Completed(key[p])
     \/ current # Missing /\ ~Own(p)
     \/ Own(p) /\ current.status \notin {"initializing", "active"}
  /\ Refuse(p)

\* Mutant of Replay: the baseline is taken again.
ReplayMoves(p) ==
  /\ At(p, "begun")
  /\ ~Completed(key[p]) /\ Own(p) /\ current.status = "active"
  /\ current' = ActiveGuard(key[p], repo)
  /\ Permit(p, repo)
  /\ UNCHANGED <<history, repo, others>>

Replay(p) ==
  /\ At(p, "begun")
  /\ ~Completed(key[p]) /\ Own(p) /\ current.status = "active"
  /\ Permit(p, current.baseline)
  /\ UNCHANGED <<files, repo, others>>

Admit(p) ==
  /\ At(p, "begun")
  /\ ~Completed(key[p])
  /\ \/ current = Missing /\ GoTo(p, "create")
     \/ Own(p) /\ current.status = "initializing" /\ GoTo(p, "rebaseline")
  /\ UNCHANGED <<files, repo, permit, observed, start, others>>

\* open(currentPath, "wx")
Create(p) ==
  /\ At(p, "create")
  /\ current' = Unwritten
  /\ GoTo(p, "unwritten")
  /\ UNCHANGED <<history, repo, permit, observed, start, others>>

Initialize(p) ==
  /\ At(p, "unwritten")
  /\ current' = InitializingGuard(key[p])
  /\ GoTo(p, "baseline")
  /\ UNCHANGED <<history, repo, permit, observed, start, others>>

\* captureWorkspaceSnapshot, in one step
Baseline(p) ==
  /\ \/ At(p, "baseline") /\ GoTo(p, "activate")
     \/ At(p, "rebaseline") /\ GoTo(p, "reactivate")
  /\ observed' = [observed EXCEPT ![p] = repo]
  /\ UNCHANGED <<files, repo, permit, start, others>>

Activate(p) ==
  /\ stage[p] \in {"activate", "reactivate"}
  /\ current' = ActiveGuard(key[p], observed[p])
  /\ Permit(p, observed[p])
  /\ UNCHANGED <<history, repo, others>>

-----------------------------------------------------------------------------
(***************************************************************************)
(* complete.  Without a guard of its own it returns the recorded result or *)
(* fails.                                                                  *)
(***************************************************************************)
AnswerComplete(p) ==
  /\ At(p, "checked")
  /\ ~Own(p) \/ current.status = "initializing"
  /\ Refuse(p)

Observe(p) ==
  /\ At(p, "checked")
  /\ Own(p) /\ current.status # "initializing"
  /\ observed' = [observed EXCEPT ![p] = repo]
  /\ GoTo(p, "compare")
  /\ UNCHANGED <<files, repo, permit, start, others>>

Moved(p) == observed[p].head # current.baseline.head
OutsideWrites(p) == Changed(current.baseline, observed[p]) \ Writes[key[p]]

\* The commit moved, or a file outside the write set changed: the guard stays.
Block(p) ==
  /\ At(p, "compare")
  /\ Moved(p) \/ OutsideWrites(p) # {}
  /\ current' = [current EXCEPT
       !.status = IF Moved(p) THEN "reconcile-required" ELSE "write-set-violation"]
  /\ Finish(p)
  /\ UNCHANGED <<history, repo, permit, start, others>>

\* An existing result must be this one.
Accept(p) ==
  /\ At(p, "compare")
  /\ ~Moved(p) /\ OutsideWrites(p) = {}
  /\ \/ /\ ~Completed(key[p])
        /\ GoTo(p, "record")
        /\ UNCHANGED observed
     \/ /\ history[key[p]] = observed[p]
        /\ GoTo(p, "release")
        /\ UNCHANGED observed
     \/ /\ Completed(key[p]) /\ history[key[p]] # observed[p]
        /\ Finish(p)
  /\ UNCHANGED <<files, repo, permit, start, others>>

\* Mutant of Record: the guard is removed before its result is written.
RecordLate(p) ==
  /\ At(p, "record")
  /\ current' = Missing
  /\ GoTo(p, "release")
  /\ UNCHANGED <<history, repo, permit, observed, start, others>>

Record(p) ==
  /\ At(p, "record")
  /\ history' = [history EXCEPT ![key[p]] = observed[p]]
  /\ GoTo(p, "release")
  /\ UNCHANGED <<current, repo, permit, observed, start, others>>

\* The workers of the attempt have ended when its Lead calls complete.
Release(p) ==
  /\ At(p, "release")
  /\ current' = Missing
  /\ permit' = permit \ {key[p]}
  /\ Finish(p)
  /\ UNCHANGED <<history, repo, start, others>>

\* Mutant of Fault: whatever fails in begin, the guard is removed.
FaultRemoves(p) ==
  /\ stage[p] \in Locked
  /\ \/ UNCHANGED current
     \/ stage[p] \in Beginning /\ current' = Missing
  /\ Finish(p)
  /\ UNCHANGED <<history, repo, permit, start, others>>

-----------------------------------------------------------------------------
(***************************************************************************)
(* A file operation or a git command fails, and the operation with it; a   *)
(* new guard whose snapshot fails is removed if it can be.  Or the process *)
(* stops and leaves everything as it is, the lock included.                *)
(***************************************************************************)
Fault(p) ==
  /\ stage[p] \in Locked
  /\ \/ UNCHANGED current
     \/ stage[p] \in {"baseline", "activate"} /\ current' = Missing
  /\ Finish(p)
  /\ UNCHANGED <<history, repo, permit, start, others>>

Stop(p) ==
  /\ p \in Mortal
  /\ ~At(p, "idle")
  /\ stage' = [stage EXCEPT ![p] = "idle"]
  /\ key' = [key EXCEPT ![p] = NoKey]
  /\ observed' = [observed EXCEPT ![p] = Nothing]
  /\ UNCHANGED <<files, repo, permit, lock, start, others>>

-----------------------------------------------------------------------------
(***************************************************************************)
(* Around the guard: leases come and go (ExecutionRun), workers write what *)
(* they please once they are spawned, people edit and commit.              *)
(***************************************************************************)
Lease(k) ==
  /\ \/ lease[k] = "none" /\ lease' = [lease EXCEPT ![k] = "active"]
     \/ lease[k] = "active" /\ lease' = [lease EXCEPT ![k] = "released"]
  /\ UNCHANGED <<files, repo, permit, lock, stage, key, observed, edits, start>>

Work(k, x, v) ==
  /\ k \in permit
  /\ repo' = [repo EXCEPT !.files[x] = v]
  /\ UNCHANGED <<files, permit, lock, stage, key, observed, start, others>>

Interfere ==
  /\ edits < MaxEdits
  /\ edits' = edits + 1
  /\ \/ \E x \in Path, v \in Value : repo' = [repo EXCEPT !.files[x] = v]
     \/ \E h \in Head : repo' = [repo EXCEPT !.head = h]
  /\ UNCHANGED <<lease, files, permit, lock, stage, key, observed, start>>

Begin(p) ==
  \/ RefuseBegin(p) \/ Replay(p) \/ Admit(p) \/ Create(p) \/ Initialize(p)
  \/ Baseline(p) \/ Activate(p)

Complete(p) ==
  AnswerComplete(p) \/ Observe(p) \/ Block(p) \/ Accept(p) \/ Record(p) \/ Release(p)

Next ==
  \/ \E p \in Proc :
       \/ \E k \in Key, s \in {"begin", "complete"} : Call(p, k, s)
       \/ TakeLock(p) \/ LockTimeout(p) \/ Begin(p) \/ Complete(p) \/ Fault(p) \/ Stop(p)
  \/ \E k \in Key : Lease(k) \/ \E x \in Path, v \in Value : Work(k, x, v)
  \/ Interfere

Spec == Init /\ [][Next]_vars

-----------------------------------------------------------------------------
\* A spawned worker has the one guard of the repository, with a baseline: no
\* second attempt, of whatever run, is let into the main workspace before the
\* guard of the first is released.
WritersOwn ==
  \A k \in permit : current.key = k /\ current.baseline # Nothing

\* Every file outside the write set holds, when an attempt is completed, what
\* it held before its worker was first spawned, and nobody has committed:
\* neither a replayed nor a recovered begin moves the baseline under a worker.
CompletedWithin ==
  \A k \in Key : Completed(k) =>
    /\ history[k].head = start[k].head
    /\ Changed(start[k], history[k]) \subseteq Writes[k]

\* The recorded result of an attempt is never replaced, whoever completes it
\* again after a crash and whatever has happened to the files since.
ResultFinal == [][\A k \in Key : Completed(k) => history'[k] = history[k]]_history

\* The repository has one writer at a time, and an attempt is it once.
Closed == {k \in Key : Completed(k)}
SW == INSTANCE SingleWriter WITH
  owner <- IF current.baseline # Nothing THEN current.key ELSE NoKey,
  closed <- Closed
ImplementsSingleWriter == SW!Spec

=============================================================================
