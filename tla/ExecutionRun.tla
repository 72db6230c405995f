----------------------------- MODULE ExecutionRun -----------------------------
(***************************************************************************)
(* The durable state of one run, .planning/runs/<runId>/, and the Lead     *)
(* processes that work on it:                                              *)
(*                                                                         *)
(*   GRAPH.json, graphs/<hash>.json   core/transitions  (sealed graphs)    *)
(*   LEASES.json                      core/leases       (task leases)      *)
(*   TRANSITIONS.jsonl                core/transitions  (outcome ledger)   *)
(*                                                                         *)
(* Every file is replaced atomically (write a temporary file, rename), so  *)
(* a file has one of its written values at any instant.  Two lock files    *)
(* order the writers: .leases.lock is also the graph revision fence, and   *)
(* .transitions.lock guards the ledger.  A terminal commit takes the       *)
(* ledger lock while it holds the fence.  The locks are taken to exclude   *)
(* (AdvisoryLock says when they do); one that was held by a process that   *)
(* stopped is reclaimed later.                                             *)
(*                                                                         *)
(* A step is what one process does between two instants at which another   *)
(* process can matter: an unlocked read, taking a lock and loading what it *)
(* guards, or one durable write with the release of the lock.              *)
(***************************************************************************)
EXTENDS FiniteSets

CONSTANTS
  Proc,        \* Lead processes
  Mortal,      \* those that may stop in the middle of an operation
  NoProc,      \* a free lock
  Orphan,      \* a lock whose owner stopped
  Task,        \* task ids
  Attempt,     \* attempt ids
  Graph,       \* sealed descriptors, one per descriptorHash
  NoGraph,     \* no descriptor
  Parent,      \* the parentDescriptorHash of each descriptor
  Nodes,       \* the agent nodes of each descriptor
  Conflict,    \* pairs of contracts whose files or resources collide
  Worktree,    \* contracts sealed with isolationMode 'worktree'
  CallerId,    \* transition ids chosen by callers
  Reason,      \* what else a request fingerprint covers
  Observed,    \* that part when it is derived from integration evidence
  Note,        \* the non-terminal records callers commit
  NoRecord,
  NoKey

Contract == [graph : Graph, task : Task]
Key == [graph : Graph, task : Task, attempt : Attempt]

ContractOf(k) == [graph |-> k.graph, task |-> k.task]

Terminal == {"task_completed", "recovered_task_completed", "task_aborted_reconciled"}
Success == {"task_completed", "recovered_task_completed"}

\* abortTaskLease and recoverTaskLease derive their ids from the attempt and
\* its lease, hence from the key.
Id == CallerId \cup ({"abort", "recover"} \X Key)

\* requestFingerprint is a function of every field but the id.
Record == [id : Id, kind : Terminal \cup {"task_dispatched"},
           graph : Graph \cup {NoGraph}, task : Task, attempt : Attempt,
           reason : Reason]

\* leaseId is a hash of the request, hence of the key.
KeyOf(r) == [graph |-> r.graph, task |-> r.task, attempt |-> r.attempt]

Lease == [key : Key, status : {"active", "released"}, proof : Record \cup {NoRecord}]

Request == [key : Key \cup {NoKey}, graph : Graph \cup {NoGraph},
            record : Record \cup {NoRecord}, release : BOOLEAN]

NoRequest == [key |-> NoKey, graph |-> NoGraph, record |-> NoRecord, release |-> FALSE]

ASSUME RunAssumption ==
  /\ NoProc \notin Proc /\ Orphan \notin Proc /\ NoProc # Orphan
  /\ Mortal \subseteq Proc
  /\ NoGraph \notin Graph
  /\ NoRecord \notin Record
  /\ NoKey \notin Key
  /\ Observed \in Reason
  /\ CallerId \cap ({"abort", "recover"} \X Key) = {}
  /\ Parent \in [Graph -> Graph \cup {NoGraph}]
  /\ Nodes \in [Graph -> SUBSET Task]
  /\ Conflict \subseteq Contract \X Contract
  /\ \A c, d \in Contract : <<c, d>> \in Conflict => <<d, c>> \in Conflict
  /\ Worktree \subseteq Contract
  /\ Note \subseteq {r \in Record : r.kind \notin Terminal}

VARIABLES
  current,     \* the descriptor in GRAPH.json
  revisions,   \* the descriptors under graphs/
  leases,      \* LEASES.json
  ledger,      \* TRANSITIONS.jsonl
  fence,       \* who holds .leases.lock
  ledgerLock,  \* who holds .transitions.lock
  integrated,  \* keys with a completed integration journal
  receipts,    \* those whose journal still matches HEAD and the workspace
  op,          \* the operation of each process
  at,          \* how far it got
  req,         \* its arguments
  view,        \* LEASES.json as it loaded it under the fence
  seen         \* TRANSITIONS.jsonl as it loaded it under the ledger lock

graphVars == <<current, revisions>>
durable == <<current, revisions, leases, ledger>>
locks == <<fence, ledgerLock>>
workspace == <<integrated, receipts>>
local == <<op, at, req, view, seen>>
vars == <<current, revisions, leases, ledger, fence, ledgerLock, integrated, receipts,
          op, at, req, view, seen>>

Op == {"none", "bind", "advance", "acquire", "commit", "release"}
Stage == {"idle", "wait", "fenced", "publish", "append", "write", "handover"}

TypeOK ==
  /\ current \in Graph \cup {NoGraph}
  /\ revisions \subseteq Graph
  /\ leases \subseteq Lease
  /\ ledger \subseteq Record
  /\ fence \in Proc \cup {NoProc, Orphan}
  /\ ledgerLock \in Proc \cup {NoProc, Orphan}
  /\ integrated \subseteq Key
  /\ receipts \subseteq integrated
  /\ op \in [Proc -> Op]
  /\ at \in [Proc -> Stage]
  /\ req \in [Proc -> Request]
  /\ view \in [Proc -> SUBSET Lease]
  /\ seen \in [Proc -> SUBSET Record]

Init ==
  /\ current = NoGraph
  /\ revisions = {}
  /\ leases = {}
  /\ ledger = {}
  /\ fence = NoProc
  /\ ledgerLock = NoProc
  /\ integrated = {}
  /\ receipts = {}
  /\ op = [p \in Proc |-> "none"]
  /\ at = [p \in Proc |-> "idle"]
  /\ req = [p \in Proc |-> NoRequest]
  /\ view = [p \in Proc |-> {}]
  /\ seen = [p \in Proc |-> {}]

-----------------------------------------------------------------------------
(* The files, as their readers judge them. *)

Active(store) == {l \in store : l.status = "active"}

\* What the lease store demands of every line of the ledger, terminal or not.
WellFormed(r) == r.graph # NoGraph

\* assertReleaseProofBackedByLedger: every line is well formed and the proof's
\* transition is there, unchanged, terminal and about this lease.
Backed(records, proof, key) ==
  /\ \A r \in records : WellFormed(r)
  /\ proof \in records
  /\ proof.kind \in Terminal
  /\ KeyOf(proof) = key

\* #loadUnlocked revalidates every released lease.
StoreLoads(store, records) ==
  \A l \in store : l.status = "released" => Backed(records, l.proof, l.key)

\* assertAuthorization: the authorization in somebody's hands names a lease of
\* the store and a persisted revision.
Authorized(key) ==
  /\ StoreLoads(leases, ledger)
  /\ key.graph \in revisions
  /\ \E l \in leases : l.key = key

Conflicts(k, store) ==
  \E l \in Active(store) : <<ContractOf(k), ContractOf(l.key)>> \in Conflict

-----------------------------------------------------------------------------
(* Control of one process. *)

Start(p, o, stage, request) ==
  /\ at[p] = "idle"
  /\ op' = [op EXCEPT ![p] = o]
  /\ at' = [at EXCEPT ![p] = stage]
  /\ req' = [req EXCEPT ![p] = request]
  /\ UNCHANGED <<view, seen>>

\* The operation returns or throws.
Return(p) ==
  /\ op' = [op EXCEPT ![p] = "none"]
  /\ at' = [at EXCEPT ![p] = "idle"]
  /\ req' = [req EXCEPT ![p] = NoRequest]
  /\ view' = [view EXCEPT ![p] = {}]
  /\ seen' = [seen EXCEPT ![p] = {}]

\* A commit returns to its caller: abort and recover go on to the release.
Committed(p) ==
  IF req[p].release
  THEN /\ at' = [at EXCEPT ![p] = "handover"]
       /\ view' = [view EXCEPT ![p] = {}]
       /\ seen' = [seen EXCEPT ![p] = {}]
       /\ UNCHANGED <<op, req>>
  ELSE Return(p)

Fenced(p, o) ==
  /\ op[p] = o
  /\ at[p] = "fenced"

\* #withStoreLock: take the lock and load the store.  A store that does not
\* load throws inside the lock, which frees it again.
TakeFence(p) ==
  /\ at[p] = "wait"
  /\ fence = NoProc
  /\ \/ /\ StoreLoads(leases, ledger)
        /\ fence' = p
        /\ view' = [view EXCEPT ![p] = leases]
        /\ at' = [at EXCEPT ![p] = "fenced"]
        /\ UNCHANGED <<op, req, seen>>
     \/ /\ ~StoreLoads(leases, ledger)
        /\ Return(p)
        /\ UNCHANGED fence
  /\ UNCHANGED <<durable, ledgerLock, workspace>>

\* Mutant of LockTimeout: no deadline on the lease lock.
LockTimeoutLedgerOnly(p) ==
  /\ at[p] = "append" /\ ledgerLock # NoProc
  /\ fence' = IF fence = p THEN NoProc ELSE fence
  /\ Return(p)
  /\ UNCHANGED <<durable, ledgerLock, workspace>>

\* Mutant of LockTimeout: the error leaves the fence held.
LockTimeoutLeaks(p) ==
  /\ \/ at[p] = "wait" /\ fence # NoProc
     \/ at[p] = "append" /\ ledgerLock # NoProc
  /\ Return(p)
  /\ UNCHANGED <<durable, locks, workspace>>

\* LEASE_STORE_LOCK_TIMEOUT, TRANSITION_LOCK_TIMEOUT: give up on a busy lock,
\* freeing the fence if the caller holds it.
LockTimeout(p) ==
  /\ \/ at[p] = "wait" /\ fence # NoProc
     \/ at[p] = "append" /\ ledgerLock # NoProc
  /\ fence' = IF fence = p THEN NoProc ELSE fence
  /\ Return(p)
  /\ UNCHANGED <<durable, ledgerLock, workspace>>

-----------------------------------------------------------------------------
(* ExecutionRunStore.initializeGraph *)

BindStart(p, g) ==
  /\ Start(p, "bind", "wait", [NoRequest EXCEPT !.graph = g])
  /\ UNCHANGED <<durable, locks, workspace>>

\* Nothing bound yet: persist the revision file first.
BindPersist(p) ==
  /\ Fenced(p, "bind")
  /\ current = NoGraph
  /\ revisions' = revisions \cup {req[p].graph}
  /\ at' = [at EXCEPT ![p] = "publish"]
  /\ UNCHANGED <<current, leases, ledger, locks, workspace, op, req, view, seen>>

\* The same descriptor is a replay, another one is GRAPH_FENCED.
BindRefused(p) ==
  /\ Fenced(p, "bind")
  /\ current # NoGraph
  /\ fence' = NoProc
  /\ Return(p)
  /\ UNCHANGED <<durable, ledgerLock, workspace>>

\* Both the first binding and an advance end by replacing GRAPH.json.
Publish(p) ==
  /\ at[p] = "publish"
  /\ current' = req[p].graph
  /\ fence' = NoProc
  /\ Return(p)
  /\ UNCHANGED <<revisions, leases, ledger, ledgerLock, workspace>>

-----------------------------------------------------------------------------
(* ExecutionRunStore.advanceGraph, reached from extendTaskResources and from
   `revision apply`: the child is computed from a GRAPH.json read unlocked. *)

AdvanceStart(p, g) ==
  /\ current # NoGraph
  /\ Parent[g] = current
  /\ Start(p, "advance", "wait", [NoRequest EXCEPT !.graph = g])
  /\ UNCHANGED <<durable, locks, workspace>>

\* Mutant of AdvancePersist: active leases are not looked at.
AdvanceUndrained(p) ==
  /\ Fenced(p, "advance")
  /\ current # req[p].graph
  /\ Parent[req[p].graph] = current
  /\ revisions' = revisions \cup {req[p].graph}
  /\ at' = [at EXCEPT ![p] = "publish"]
  /\ UNCHANGED <<current, leases, ledger, locks, workspace, op, req, view, seen>>

\* Mutant of AdvancePersist: GRAPH.json is replaced without the revision file.
AdvanceUnpersisted(p) ==
  /\ Fenced(p, "advance")
  /\ current # req[p].graph
  /\ Active(view[p]) = {}
  /\ Parent[req[p].graph] = current
  /\ at' = [at EXCEPT ![p] = "publish"]
  /\ UNCHANGED <<durable, locks, workspace, op, req, view, seen>>

AdvancePersist(p) ==
  /\ Fenced(p, "advance")
  /\ current # req[p].graph
  /\ Active(view[p]) = {}
  /\ Parent[req[p].graph] = current
  /\ revisions' = revisions \cup {req[p].graph}
  /\ at' = [at EXCEPT ![p] = "publish"]
  /\ UNCHANGED <<current, leases, ledger, locks, workspace, op, req, view, seen>>

\* A replay, GRAPH_ADVANCE_ACTIVE_LEASES (drain-required) or GRAPH_FENCED
\* (retry-required).
AdvanceRefused(p) ==
  /\ Fenced(p, "advance")
  /\ \/ current = req[p].graph
     \/ Active(view[p]) # {}
     \/ Parent[req[p].graph] # current
  /\ fence' = NoProc
  /\ Return(p)
  /\ UNCHANGED <<durable, ledgerLock, workspace>>

-----------------------------------------------------------------------------
(* ResourceLeaseStore.acquire, called with a GRAPH.json read unlocked. *)

AcquireStart(p, t, a) ==
  /\ current # NoGraph
  /\ t \in Nodes[current]
  /\ Start(p, "acquire", "wait",
           [NoRequest EXCEPT !.key = [graph |-> current, task |-> t, attempt |-> a]])
  /\ UNCHANGED <<durable, locks, workspace>>

SameAttempt(k, store) ==
  {l \in store : l.key.task = k.task /\ l.key.attempt = k.attempt}

\* Mutant of Acquire: no conflict check.
AcquireUnchecked(p) ==
  /\ Fenced(p, "acquire")
  /\ SameAttempt(req[p].key, view[p]) = {}
  /\ leases' = view[p] \cup
       {[key |-> req[p].key, status |-> "active", proof |-> NoRecord]}
  /\ fence' = NoProc
  /\ Return(p)
  /\ UNCHANGED <<graphVars, ledger, ledgerLock, workspace>>

Acquire(p) ==
  /\ Fenced(p, "acquire")
  /\ SameAttempt(req[p].key, view[p]) = {}
  /\ ~Conflicts(req[p].key, view[p])
  /\ leases' = view[p] \cup
       {[key |-> req[p].key, status |-> "active", proof |-> NoRecord]}
  /\ fence' = NoProc
  /\ Return(p)
  /\ UNCHANGED <<graphVars, ledger, ledgerLock, workspace>>

\* The same attempt is a replay, LEASE_FENCED or LEASE_ALREADY_RELEASED; a
\* collision with an active lease is LEASE_CONFLICT.
AcquireRefused(p) ==
  /\ Fenced(p, "acquire")
  /\ \/ SameAttempt(req[p].key, view[p]) # {}
     \/ Conflicts(req[p].key, view[p])
  /\ fence' = NoProc
  /\ Return(p)
  /\ UNCHANGED <<durable, ledgerLock, workspace>>

-----------------------------------------------------------------------------
(* ExecutionRunStore.commitTransition *)

RecordFor(k, id, kind, reason) ==
  [id |-> id, kind |-> kind, graph |-> k.graph, task |-> k.task,
   attempt |-> k.attempt, reason |-> reason]

\* A terminal commit by a caller who holds the authorization of lease k.
CommitStart(p, k, id, kind, reason) ==
  /\ Start(p, "commit", "wait",
           [NoRequest EXCEPT !.key = k, !.record = RecordFor(k, id, kind, reason)])
  /\ UNCHANGED <<durable, locks, workspace>>

\* Any other record goes straight to the ledger lock.
NoteStart(p, r) ==
  /\ Start(p, "commit", "append", [NoRequest EXCEPT !.record = r])
  /\ UNCHANGED <<durable, locks, workspace>>

Prior(r, records) == {q \in records : q.id = r.id}

\* Mutant of MayDecide: a worktree completion needs no integration.
MayDecideUnintegrated(p) ==
  LET k == req[p].key
      r == req[p].record
  IN  /\ \E l \in Active(view[p]) : l.key = k
      /\ r.kind = "recovered_task_completed" => ContractOf(k) \in Worktree
      /\ current = r.graph
      /\ r.task \in Nodes[current]

\* What a new terminal record needs besides a fresh id: the persisted revision
\* and an authorization, the active lease, completed integration when the
\* contract is isolated in a worktree, and the current graph.
MayDecide(p) ==
  LET k == req[p].key
      r == req[p].record
  IN  /\ \E l \in Active(view[p]) : l.key = k
      /\ r.kind = "recovered_task_completed" => ContractOf(k) \in Worktree
      /\ r.kind \in Success /\ ContractOf(k) \in Worktree => k \in receipts
      /\ current = r.graph
      /\ r.task \in Nodes[current]

CommitReplayed(p) ==
  /\ Fenced(p, "commit")
  /\ Authorized(req[p].key)
  /\ req[p].record \in ledger
  /\ fence' = NoProc
  /\ Committed(p)
  /\ UNCHANGED <<durable, ledgerLock, workspace>>

CommitRefused(p) ==
  /\ Fenced(p, "commit")
  /\ \/ ~Authorized(req[p].key)
     \/ /\ req[p].record \notin ledger
        /\ Prior(req[p].record, ledger) # {} \/ ~MayDecide(p)
  /\ fence' = NoProc
  /\ Return(p)
  /\ UNCHANGED <<durable, ledgerLock, workspace>>

CommitAccepted(p) ==
  /\ Fenced(p, "commit")
  /\ Authorized(req[p].key)
  /\ Prior(req[p].record, ledger) = {}
  /\ MayDecide(p)
  /\ at' = [at EXCEPT ![p] = "append"]
  /\ UNCHANGED <<durable, locks, workspace, op, req, view, seen>>

\* Mutant of TakeLedger: the ledger is loaded without its lock.
TakeLedgerShared(p) ==
  /\ at[p] = "append"
  /\ ledgerLock' = p
  /\ seen' = [seen EXCEPT ![p] = ledger]
  /\ at' = [at EXCEPT ![p] = "write"]
  /\ UNCHANGED <<durable, fence, workspace, op, req, view>>

\* #withTransitionLock: take the lock and load the ledger.
TakeLedger(p) ==
  /\ at[p] = "append"
  /\ ledgerLock = NoProc
  /\ ledgerLock' = p
  /\ seen' = [seen EXCEPT ![p] = ledger]
  /\ at' = [at EXCEPT ![p] = "write"]
  /\ UNCHANGED <<durable, fence, workspace, op, req, view>>

Rivals(r, records) == {q \in records : q.kind \in Terminal /\ KeyOf(q) = KeyOf(r)}

\* Both locks a commit may hold are freed when it ends.
FreeLocks(p) ==
  /\ ledgerLock' = NoProc
  /\ fence' = IF fence = p THEN NoProc ELSE fence

\* Mutant of Append: an earlier outcome of the attempt is not looked for.
AppendUnfenced(p) ==
  /\ at[p] = "write"
  /\ Prior(req[p].record, seen[p]) = {}
  /\ ledger' = seen[p] \cup {req[p].record}
  /\ FreeLocks(p)
  /\ Committed(p)
  /\ UNCHANGED <<graphVars, leases, workspace>>

Append(p) ==
  /\ at[p] = "write"
  /\ Prior(req[p].record, seen[p]) = {}
  /\ req[p].record.kind \in Terminal => Rivals(req[p].record, seen[p]) = {}
  /\ ledger' = seen[p] \cup {req[p].record}
  /\ FreeLocks(p)
  /\ Committed(p)
  /\ UNCHANGED <<graphVars, leases, workspace>>

AppendReplayed(p) ==
  /\ at[p] = "write"
  /\ req[p].record \in seen[p]
  /\ FreeLocks(p)
  /\ Committed(p)
  /\ UNCHANGED <<durable, workspace>>

\* TRANSITION_FENCED or TERMINAL_TRANSITION_FENCED
AppendRefused(p) ==
  /\ at[p] = "write"
  /\ req[p].record \notin seen[p]
  /\ \/ Prior(req[p].record, seen[p]) # {}
     \/ req[p].record.kind \in Terminal /\ Rivals(req[p].record, seen[p]) # {}
  /\ FreeLocks(p)
  /\ Return(p)
  /\ UNCHANGED <<durable, workspace>>

-----------------------------------------------------------------------------
(* ExecutionRunStore.releaseTaskLease *)

\* The unlocked part: check the authorization, find the terminal record with
\* this id and build the proof from it.
Provable(k, r) ==
  /\ Authorized(k)
  /\ r \in ledger
  /\ r.kind \in Terminal
  /\ KeyOf(r) = k

ReleaseRequest(k, r) == [NoRequest EXCEPT !.key = k, !.record = r]

ReleaseStart(p, k, r) ==
  /\ Provable(k, r)
  /\ Start(p, "release", "wait", ReleaseRequest(k, r))
  /\ UNCHANGED <<durable, locks, workspace>>

\* abort and recover call it with the record they have just committed.
ReleaseNext(p) ==
  /\ at[p] = "handover"
  /\ IF Provable(req[p].key, req[p].record)
     THEN /\ op' = [op EXCEPT ![p] = "release"]
          /\ at' = [at EXCEPT ![p] = "wait"]
          /\ req' = [req EXCEPT ![p] = ReleaseRequest(req[p].key, req[p].record)]
          /\ UNCHANGED <<view, seen>>
     ELSE Return(p)
  /\ UNCHANGED <<durable, locks, workspace>>

Release(p) ==
  /\ Fenced(p, "release")
  /\ Backed(ledger, req[p].record, req[p].key)
  /\ \E l \in Active(view[p]) :
       /\ l.key = req[p].key
       /\ leases' = (view[p] \ {l}) \cup
            {[key |-> l.key, status |-> "released", proof |-> req[p].record]}
  /\ fence' = NoProc
  /\ Return(p)
  /\ UNCHANGED <<graphVars, ledger, ledgerLock, workspace>>

\* A replay of the same proof, LEASE_RELEASE_FENCED, or a ledger that does not
\* back the proof.
ReleaseRefused(p) ==
  /\ Fenced(p, "release")
  /\ \/ ~ \E l \in Active(view[p]) : l.key = req[p].key
     \/ ~Backed(ledger, req[p].record, req[p].key)
  /\ fence' = NoProc
  /\ Return(p)
  /\ UNCHANGED <<durable, ledgerLock, workspace>>

-----------------------------------------------------------------------------
(* ExecutionRunStore.abortTaskLease and recoverTaskLease *)

\* A released attempt may only replay its own abort.
AbortStart(p, k, reason) ==
  LET r == RecordFor(k, <<"abort", k>>, "task_aborted_reconciled", reason)
  IN  /\ Authorized(k)
      /\ \A l \in leases : l.key = k /\ l.status = "released" => l.proof.id = r.id
      /\ Start(p, "commit", "wait",
               [NoRequest EXCEPT !.key = k, !.record = r, !.release = TRUE])
      /\ UNCHANGED <<durable, locks, workspace>>

Completions(k) == {r \in ledger : r.kind \in Success /\ KeyOf(r) = k}

\* A completion that is already recorded is only released.
RecoverCompleted(p, k) ==
  \E r \in Completions(k) : ReleaseStart(p, k, r)

\* Otherwise the completion is committed from the integration receipt, or from
\* observed evidence the caller hands in, which the commit holds to the same
\* receipt.
RecoverStart(p, k) ==
  LET r == RecordFor(k, <<"recover", k>>, "recovered_task_completed", Observed)
  IN  /\ Authorized(k)
      /\ Completions(k) = {}
      /\ Start(p, "commit", "wait",
               [NoRequest EXCEPT !.key = k, !.record = r, !.release = TRUE])
      /\ UNCHANGED <<durable, locks, workspace>>

-----------------------------------------------------------------------------
(* The environment. *)

\* The integration queue of the wave completes with k's patch applied.
Integrate(k) ==
  /\ ContractOf(k) \in Worktree
  /\ \E l \in Active(leases) : l.key = k
  /\ integrated' = integrated \cup {k}
  /\ receipts' = receipts \cup {k}
  /\ UNCHANGED <<durable, locks, local>>

\* HEAD or the workspace moves: findCompletedWorktreeIntegration verifies no
\* receipt any more.
Drift ==
  /\ receipts # {}
  /\ receipts' = {}
  /\ UNCHANGED integrated
  /\ UNCHANGED <<durable, locks, local>>

\* A Lead stops; its locks stay behind.
Stop(p) ==
  /\ p \in Mortal
  /\ at[p] # "idle"
  /\ fence' = IF fence = p THEN Orphan ELSE fence
  /\ ledgerLock' = IF ledgerLock = p THEN Orphan ELSE ledgerLock
  /\ Return(p)
  /\ UNCHANGED <<durable, workspace>>

\* A contender removes the lock of a process that is gone.
ReclaimFence ==
  /\ fence = Orphan
  /\ fence' = NoProc
  /\ UNCHANGED <<durable, ledgerLock, workspace, local>>

ReclaimLedger ==
  /\ ledgerLock = Orphan
  /\ ledgerLock' = NoProc
  /\ UNCHANGED <<durable, fence, workspace, local>>

-----------------------------------------------------------------------------
\* The keys of which somebody holds an authorization.
Held == {l.key : l \in leases}

Call(p) ==
  \/ \E g \in Graph : BindStart(p, g) \/ AdvanceStart(p, g)
  \/ \E t \in Task, a \in Attempt : AcquireStart(p, t, a)
  \/ \E k \in Held, id \in CallerId, kind \in Terminal, reason \in Reason :
       CommitStart(p, k, id, kind, reason)
  \/ \E r \in Note : NoteStart(p, r)
  \/ \E k \in Held, r \in ledger : ReleaseStart(p, k, r)
  \/ \E k \in Held, reason \in Reason : AbortStart(p, k, reason)
  \/ \E k \in Held : RecoverCompleted(p, k) \/ RecoverStart(p, k)

Step(p) ==
  \/ TakeFence(p)
  \/ LockTimeout(p)
  \/ BindPersist(p)
  \/ BindRefused(p)
  \/ Publish(p)
  \/ AdvancePersist(p)
  \/ AdvanceRefused(p)
  \/ Acquire(p)
  \/ AcquireRefused(p)
  \/ CommitReplayed(p)
  \/ CommitRefused(p)
  \/ CommitAccepted(p)
  \/ TakeLedger(p)
  \/ Append(p)
  \/ AppendReplayed(p)
  \/ AppendRefused(p)
  \/ ReleaseNext(p)
  \/ Release(p)
  \/ ReleaseRefused(p)

Reclaim == ReclaimFence \/ ReclaimLedger

Next ==
  \/ \E p \in Proc : Call(p) \/ Step(p) \/ Stop(p)
  \/ \E k \in Held : Integrate(k)
  \/ Drift
  \/ Reclaim

Spec == Init /\ [][Next]_vars

\* A Lead that started an operation goes on with it, and stale locks are
\* reclaimed; nobody is obliged to start anything.
FairSpec ==
  /\ Spec
  /\ \A p \in Proc : WF_vars(Step(p))
  /\ WF_vars(ReclaimFence)
  /\ WF_vars(ReclaimLedger)

-----------------------------------------------------------------------------
(* Safety. *)

\* TRANSITIONS.jsonl never becomes a ledger that loadTransitions rejects: an id
\* names one record and an attempt has one terminal outcome, whoever committed,
\* aborted or recovered it first.
LedgerLoads ==
  \A r, q \in ledger :
    r.id = q.id \/ (r.kind \in Terminal /\ q.kind \in Terminal /\ KeyOf(r) = KeyOf(q))
      => r = q

\* A released lease rests on a durable terminal record of exactly its own
\* revision, task and attempt.
ReleaseBacked ==
  \A l \in leases : l.status = "released" =>
    l.proof \in ledger /\ l.proof.kind \in Terminal /\ KeyOf(l.proof) = l.key

\* Of several Leads racing for colliding files or resources at most one has an
\* active lease, across graph revisions too.
NoOverlap ==
  \A l, m \in Active(leases) :
    l # m => <<ContractOf(l.key), ContractOf(m.key)>> \notin Conflict

\* A task attempt is leased once, whatever the revision.
AttemptLeasedOnce ==
  \A l, m \in leases :
    l.key.task = m.key.task /\ l.key.attempt = m.key.attempt => l = m

\* Every lease can find the revision it was granted under, so its outcome can
\* be judged after later revisions and restarts.
RevisionsKept == \A l \in leases : l.key.graph \in revisions

\* The completion of a worktree task rests on a durable integration of its
\* patch under the very lease it completes.
CompletionIntegrated ==
  \A r \in ledger :
    r.kind \in Success /\ ContractOf(KeyOf(r)) \in Worktree => KeyOf(r) \in integrated

\* Every active lease is bound to the descriptor in GRAPH.json, the only one
\* under which its outcome may be committed.
ActiveLeaseCurrent == \A l \in Active(leases) : l.key.graph = current

\* LEASES.json is judged by the whole of TRANSITIONS.jsonl whenever it is loaded.
\* Whatever is committed, aborted, recovered and released in what order, no
\* terminal record keeps it from loading, and every released lease has its own.
\* One thing does, once a lease is released, and for good: a non-terminal record
\* without a descriptor hash, which commitTransition accepts.
\* (assertReleaseProofBackedByLedger, buildTransitionRecord)
StoreReloads ==
  StoreLoads(leases, ledger) <=>
    \/ \A l \in leases : l.status = "active"
    \/ \A r \in ledger : r.kind \notin Terminal => WellFormed(r)

\* No write to the ledger loses a record.
LedgerGrows == [][ledger \subseteq ledger']_ledger

\* No write to LEASES.json loses a lease, and a released one is final.
LeasesFinal ==
  [][\A l \in leases : \E m \in leases' :
       m.key = l.key /\ (l.status = "released" => m = l)]_leases

\* A terminal outcome is recorded only while the attempt's own lease is active
\* and its graph is the current one.
DecidedUnderLease ==
  [][\A r \in ledger' \ ledger : r.kind \in Terminal =>
       r.graph = current /\ \E l \in Active(leases) : l.key = KeyOf(r)]_ledger

\* GRAPH.json moves only to a child of the current descriptor, and only when no
\* attempt is running.
DrainedAdvance ==
  [][current # NoGraph => Parent[current'] = current /\ Active(leases) = {}]_current

-----------------------------------------------------------------------------
(* The abstract view: what became of each attempt. *)

\* The element of a set that has one.
Only(S) == CHOOSE e \in S : TRUE

LeasesOf(x) == {l \in leases : l.key.task = x[1] /\ l.key.attempt = x[2]}

OutcomesOf(x) == {r \in ledger : r.kind \in Terminal /\ \E l \in LeasesOf(x) : KeyOf(r) = l.key}

GrantOf == [x \in Task \X Attempt |->
  IF LeasesOf(x) = {} THEN NoGraph ELSE Only(LeasesOf(x)).key.graph]

OutcomeOf == [x \in Task \X Attempt |->
  IF OutcomesOf(x) = {} THEN "undecided" ELSE Only(OutcomesOf(x)).kind]

Settled == {x \in Task \X Attempt : \E l \in LeasesOf(x) : l.status = "released"}

Attempts == INSTANCE TaskAttempts WITH
  graph <- current, grant <- GrantOf, outcome <- OutcomeOf, settled <- Settled

\* Every write to the run's files is a legal step in the life of an attempt or
\* of the graph.
ImplementsTaskAttempts == Attempts!Spec

-----------------------------------------------------------------------------
(* Liveness. *)

\* Nobody waits for ever: nested locks, stopped owners and timeouts included,
\* every operation that starts returns.
OperationsReturn == \A p \in Proc : at[p] # "idle" ~> at[p] = "idle"

\* The graph revision fence is never held for good.
FenceFreed == fence # NoProc ~> fence = NoProc

=============================================================================
