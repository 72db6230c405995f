------------------------- MODULE ExecutionRun_proofs -------------------------
(***************************************************************************)
(* Proofs about the durable state of a run: for any number of Leads, tasks,*)
(* attempts, revisions and records, with Leads stopping anywhere, locks    *)
(* timing out and stale locks being reclaimed.                             *)
(*                                                                         *)
(* The safety properties are not inductive: what a Lead writes was computed*)
(* from what it loaded when it took a lock, so the invariant says that     *)
(* those copies are still the files (Fencing), what the operations under   *)
(* way were asked (Asked) and what they have established so far (Decided,  *)
(* Publishing).                                                            *)
(***************************************************************************)
EXTENDS ExecutionRun, TLAPS

\* The arguments of an operation under way.
AskedOf(p) ==
  /\ at[p] = "publish" => op[p] \in {"bind", "advance"}
  /\ at[p] \in {"append", "write", "handover"} => op[p] = "commit"
  /\ op[p] \in {"bind", "advance"} => req[p].graph \in Graph
  /\ op[p] \in {"acquire", "release"} => req[p].key \in Key
  /\ op[p] \in {"commit", "release"} => req[p].record \in Record
  /\ op[p] = "commit" /\ req[p].record.kind \in Terminal =>
       req[p].key \in Key /\ KeyOf(req[p].record) = req[p].key
  /\ op[p] = "commit" /\ (req[p].release \/ at[p] \in {"wait", "fenced", "handover"}) =>
       req[p].record.kind \in Terminal

Asked == \A p \in Proc : AskedOf(p)

\* Whoever holds the graph revision fence: everybody past it, and a commit of a
\* terminal record until it ends.
UnderFence(p) ==
  \/ at[p] \in {"fenced", "publish"}
  \/ at[p] \in {"append", "write"} /\ req[p].record.kind \in Terminal

\* A lock excludes, and what was loaded under it is still the file.
FencingOf(p) ==
  /\ UnderFence(p) => fence = p /\ view[p] = leases
  /\ at[p] = "write" => ledgerLock = p /\ seen[p] = ledger

Fencing == \A p \in Proc : FencingOf(p)

\* A descriptor is persisted before it is published or leased under.
Persisted ==
  /\ current # NoGraph => current \in revisions
  /\ \A p \in Proc :
       /\ at[p] = "publish" => req[p].graph \in revisions
       /\ op[p] = "acquire" => req[p].key.graph \in revisions

\* A descriptor about to be published is the first one, or a child of the
\* current one while nothing runs.
Publishing ==
  \A p \in Proc : at[p] = "publish" /\ current # NoGraph =>
    Parent[req[p].graph] = current /\ Active(leases) = {}

\* A terminal record on its way to the ledger has been checked against the
\* lease, the graph and the integration.
Decided ==
  \A p \in Proc :
    at[p] \in {"append", "write"} /\ req[p].record.kind \in Terminal =>
      LET r == req[p].record
      IN  /\ r.graph = current
          /\ \E l \in Active(leases) : l.key = KeyOf(r)
          /\ r.kind \in Success /\ ContractOf(KeyOf(r)) \in Worktree => KeyOf(r) \in integrated

IInv ==
  /\ TypeOK
  /\ Asked
  /\ Fencing
  /\ Persisted
  /\ Publishing
  /\ Decided
  /\ LedgerLoads
  /\ ReleaseBacked
  /\ NoOverlap
  /\ AttemptLeasedOnce
  /\ RevisionsKept
  /\ CompletionIntegrated

-----------------------------------------------------------------------------
(* Data. *)

LEMMA NoRequestType == NoRequest \in Request
  BY DEF NoRequest, Request

\* The record a caller, an abort or a recovery commits is about its key.
LEMMA RecordForType ==
  ASSUME NEW k \in Key, NEW id \in Id, NEW kind \in Terminal, NEW reason \in Reason
  PROVE  /\ RecordFor(k, id, kind, reason) \in Record
         /\ RecordFor(k, id, kind, reason).kind = kind
         /\ KeyOf(RecordFor(k, id, kind, reason)) = k
  BY DEF RecordFor, Record, KeyOf, Key

LEMMA HeldKeys ==
  ASSUME TypeOK
  PROVE  Held \subseteq Key
  BY DEF TypeOK, Held, Lease

\* A lease is granted active and without proof, and released with one.
LEMMA LeaseType ==
  ASSUME NEW k \in Key
  PROVE  /\ [key |-> k, status |-> "active", proof |-> NoRecord] \in Lease
         /\ \A r \in Record : [key |-> k, status |-> "released", proof |-> r] \in Lease
  BY DEF Lease

\* Starting an operation with a well-formed request, and returning from one,
\* keep the types.
LEMMA StartType ==
  ASSUME TypeOK, NEW p \in Proc, NEW o \in Op, NEW stage \in Stage,
         NEW request \in Request, Start(p, o, stage, request)
  PROVE  /\ op' \in [Proc -> Op]
         /\ at' \in [Proc -> Stage]
         /\ req' \in [Proc -> Request]
         /\ view' \in [Proc -> SUBSET Lease]
         /\ seen' \in [Proc -> SUBSET Record]
  BY DEF TypeOK, Start

LEMMA ReturnType ==
  ASSUME TypeOK, NEW p \in Proc, Return(p)
  PROVE  /\ op' \in [Proc -> Op]
         /\ at' \in [Proc -> Stage]
         /\ req' \in [Proc -> Request]
         /\ view' \in [Proc -> SUBSET Lease]
         /\ seen' \in [Proc -> SUBSET Record]
  BY NoRequestType DEF TypeOK, Return, Op, Stage

LEMMA CommittedType ==
  ASSUME TypeOK, NEW p \in Proc, Committed(p)
  PROVE  /\ op' \in [Proc -> Op]
         /\ at' \in [Proc -> Stage]
         /\ req' \in [Proc -> Request]
         /\ view' \in [Proc -> SUBSET Lease]
         /\ seen' \in [Proc -> SUBSET Record]
<1>1. CASE req[p].release
  BY <1>1 DEF TypeOK, Committed, Stage
<1>2. CASE ~req[p].release
  BY <1>2, ReturnType DEF Committed
<1> QED
  BY <1>1, <1>2

\* The requests the operations start with.
LEMMA RequestTypes ==
  /\ \A g \in Graph : [NoRequest EXCEPT !.graph = g] \in Request
  /\ \A k \in Key : [NoRequest EXCEPT !.key = k] \in Request
  /\ \A r \in Record : [NoRequest EXCEPT !.record = r] \in Request
  /\ \A k \in Key, r \in Record :
       /\ ReleaseRequest(k, r) \in Request
       /\ [NoRequest EXCEPT !.key = k, !.record = r, !.release = TRUE] \in Request
  BY DEF NoRequest, Request, ReleaseRequest

LEMMA OpStage ==
  /\ {"bind", "advance", "acquire", "commit", "release"} \subseteq Op
  /\ {"wait", "append"} \subseteq Stage
  BY DEF Op, Stage

\* Every kind of call starts well-formed.
LEMMA CallType ==
  ASSUME TypeOK, NEW p \in Proc, Call(p)
  PROVE  TypeOK'
<1> USE StartType, RequestTypes, OpStage
<1> DEFINE Started ==
      /\ op' \in [Proc -> Op]
      /\ at' \in [Proc -> Stage]
      /\ req' \in [Proc -> Request]
      /\ view' \in [Proc -> SUBSET Lease]
      /\ seen' \in [Proc -> SUBSET Record]
<1>0. Started /\ UNCHANGED <<durable, locks, workspace>> => TypeOK'
  BY DEF TypeOK, durable, locks, workspace
<1>1. ASSUME NEW g \in Graph, BindStart(p, g) PROVE TypeOK'
  BY <1>0, <1>1 DEF BindStart
<1>2. ASSUME NEW g \in Graph, AdvanceStart(p, g) PROVE TypeOK'
  BY <1>0, <1>2 DEF AdvanceStart
<1>3. ASSUME NEW t \in Task, NEW a \in Attempt, AcquireStart(p, t, a) PROVE TypeOK'
  <2>1. [graph |-> current, task |-> t, attempt |-> a] \in Key
    BY <1>3 DEF AcquireStart, TypeOK, Key
  <2> QED
    BY <1>0, <1>3, <2>1 DEF AcquireStart
<1>4. ASSUME NEW k \in Held, NEW id \in CallerId, NEW kind \in Terminal, NEW reason \in Reason,
             CommitStart(p, k, id, kind, reason)
      PROVE  TypeOK'
  <2>1. k \in Key /\ RecordFor(k, id, kind, reason) \in Record
    BY HeldKeys, RecordForType DEF Id
  <2>2. [NoRequest EXCEPT !.key = k, !.record = RecordFor(k, id, kind, reason)] \in Request
    BY <2>1 DEF NoRequest, Request
  <2> QED
    BY <1>0, <1>4, <2>2 DEF CommitStart
<1>5. ASSUME NEW r \in Note, NoteStart(p, r) PROVE TypeOK'
  BY <1>0, <1>5, RunAssumption DEF NoteStart
<1>6. ASSUME NEW k \in Held, NEW r \in ledger, ReleaseStart(p, k, r) PROVE TypeOK'
  <2>1. k \in Key /\ r \in Record
    BY HeldKeys DEF TypeOK
  <2> QED
    BY <1>0, <1>6, <2>1 DEF ReleaseStart
<1>7. ASSUME NEW k \in Held, NEW reason \in Reason, AbortStart(p, k, reason) PROVE TypeOK'
  <2>1. k \in Key
    BY HeldKeys
  <2>2. RecordFor(k, <<"abort", k>>, "task_aborted_reconciled", reason) \in Record
    BY <2>1, RecordForType DEF Id, Terminal
  <2> QED
    BY <1>0, <1>7, <2>1, <2>2 DEF AbortStart
<1>8. ASSUME NEW k \in Held, RecoverCompleted(p, k) PROVE TypeOK'
  BY <1>6, <1>8 DEF RecoverCompleted, Completions
<1>9. ASSUME NEW k \in Held, RecoverStart(p, k) PROVE TypeOK'
  <2>1. k \in Key
    BY HeldKeys
  <2>2. RecordFor(k, <<"recover", k>>, "recovered_task_completed", Observed) \in Record
    BY <2>1, RecordForType, RunAssumption DEF Id, Terminal
  <2> QED
    BY <1>0, <1>9, <2>1, <2>2 DEF RecoverStart
<1> QED
  BY <1>1, <1>2, <1>3, <1>4, <1>5, <1>6, <1>7, <1>8, <1>9 DEF Call

\* Every step of an operation, and the environment, keep the types.
LEMMA StepType ==
  ASSUME TypeOK, Asked, NEW p \in Proc, Step(p)
  PROVE  TypeOK'
<1> USE DEF durable, graphVars, locks, workspace
<1> DEFINE LocalOK ==
      /\ op' \in [Proc -> Op]
      /\ at' \in [Proc -> Stage]
      /\ req' \in [Proc -> Request]
      /\ view' \in [Proc -> SUBSET Lease]
      /\ seen' \in [Proc -> SUBSET Record]
<1>1. ASSUME Return(p) \/ Committed(p) PROVE LocalOK
  BY <1>1, ReturnType, CommittedType
<1>2. CASE TakeFence(p)
  BY <1>1, <1>2 DEF TakeFence, TypeOK, Stage
<1>3. CASE LockTimeout(p)
  BY <1>1, <1>3 DEF LockTimeout, TypeOK
<1>4. CASE BindPersist(p) \/ AdvancePersist(p)
  <2>1. req[p].graph \in Graph
    BY <1>4 DEF BindPersist, AdvancePersist, Fenced, Asked, AskedOf
  <2> QED
    BY <1>4, <2>1 DEF BindPersist, AdvancePersist, TypeOK, Stage
<1>5. CASE BindRefused(p) \/ AdvanceRefused(p) \/ AcquireRefused(p) \/ ReleaseRefused(p)
           \/ CommitRefused(p) \/ CommitReplayed(p)
  BY <1>1, <1>5 DEF BindRefused, AdvanceRefused, AcquireRefused, ReleaseRefused,
                    CommitRefused, CommitReplayed, TypeOK
<1>6. CASE Publish(p)
  BY <1>1, <1>6 DEF Publish, TypeOK, Asked, AskedOf
<1>7. CASE Acquire(p)
  <2>1. req[p].key \in Key
    BY <1>7 DEF Acquire, Fenced, Asked, AskedOf
  <2>2. leases' \subseteq Lease
    BY <1>7, <2>1, LeaseType DEF Acquire, TypeOK
  <2> QED
    BY <1>1, <1>7, <2>2 DEF Acquire, TypeOK
<1>8. CASE CommitAccepted(p)
  BY <1>8 DEF CommitAccepted, TypeOK, Stage
<1>9. CASE TakeLedger(p)
  BY <1>9 DEF TakeLedger, TypeOK, Stage
<1>10. CASE Append(p)
  <2>1. req[p].record \in Record
    BY <1>10 DEF Append, Asked, AskedOf
  <2> QED
    BY <1>1, <1>10, <2>1 DEF Append, FreeLocks, TypeOK
<1>11. CASE AppendReplayed(p) \/ AppendRefused(p)
  BY <1>1, <1>11 DEF AppendReplayed, AppendRefused, FreeLocks, TypeOK
<1>12. CASE ReleaseNext(p)
  <2>1. req[p].key \in Key /\ req[p].record \in Record
    BY <1>12 DEF ReleaseNext, Asked, AskedOf
  <2>2. ReleaseRequest(req[p].key, req[p].record) \in Request
    BY <2>1, RequestTypes
  <2> QED
    BY <1>1, <1>12, <2>2, OpStage DEF ReleaseNext, TypeOK
<1>13. CASE Release(p)
  <2>1. req[p].record \in Record
    BY <1>13 DEF Release, Fenced, Asked, AskedOf
  <2>2. PICK l \in Active(view[p]) :
          leases' = (view[p] \ {l}) \cup
            {[key |-> l.key, status |-> "released", proof |-> req[p].record]}
    BY <1>13 DEF Release
  <2>3. l.key \in Key
    BY DEF Active, TypeOK, Lease
  <2>4. leases' \subseteq Lease
    BY <2>1, <2>2, <2>3, LeaseType DEF TypeOK
  <2> QED
    BY <1>1, <1>13, <2>4 DEF Release, TypeOK
<1> QED
  BY <1>2, <1>3, <1>4, <1>5, <1>6, <1>7, <1>8, <1>9, <1>10, <1>11, <1>12, <1>13 DEF Step

LEMMA TypeKept ==
  ASSUME TypeOK, Asked, [Next]_vars
  PROVE  TypeOK'
<1> USE DEF durable, graphVars, locks, workspace, local
<1>1. ASSUME NEW p \in Proc, Stop(p) PROVE TypeOK'
  BY <1>1, ReturnType DEF Stop, TypeOK
<1>2. ASSUME NEW k \in Held, Integrate(k) PROVE TypeOK'
  BY <1>2, HeldKeys DEF Integrate, TypeOK
<1>3. CASE Drift
  BY <1>3 DEF Drift, TypeOK
<1>4. CASE Reclaim
  BY <1>4 DEF Reclaim, ReclaimFence, ReclaimLedger, TypeOK
<1>5. CASE UNCHANGED vars
  BY <1>5 DEF vars, TypeOK
<1> QED
  BY <1>1, <1>2, <1>3, <1>4, <1>5, CallType, StepType DEF Next

-----------------------------------------------------------------------------
(* Who touches what. *)

\* A process changes nobody's local state but its own.
LEMMA Others ==
  ASSUME TypeOK, NEW p \in Proc, NEW q \in Proc, p # q,
         Call(p) \/ Step(p) \/ Stop(p)
  PROVE  /\ op'[q] = op[q]
         /\ at'[q] = at[q]
         /\ req'[q] = req[q]
         /\ view'[q] = view[q]
         /\ seen'[q] = seen[q]
<1> USE DEF TypeOK
<1> DEFINE Untouched ==
      /\ op'[q] = op[q]
      /\ at'[q] = at[q]
      /\ req'[q] = req[q]
      /\ view'[q] = view[q]
      /\ seen'[q] = seen[q]
<1>1. \A o, stage, request : Start(p, o, stage, request) => Untouched
  BY DEF Start
<1>2. Return(p) => Untouched
  BY DEF Return
<1>3. Committed(p) => Untouched
  BY <1>2 DEF Committed
<1>4. CASE Call(p)
  BY <1>1, <1>4
     DEF Call, BindStart, AdvanceStart, AcquireStart, CommitStart, NoteStart, ReleaseStart,
         AbortStart, RecoverCompleted, RecoverStart
<1>5. CASE Stop(p)
  BY <1>2, <1>5 DEF Stop
<1>6. CASE TakeFence(p) \/ LockTimeout(p)
  BY <1>2, <1>6 DEF TakeFence, LockTimeout
<1>7. CASE BindPersist(p) \/ AdvancePersist(p) \/ CommitAccepted(p) \/ TakeLedger(p)
  BY <1>7 DEF BindPersist, AdvancePersist, CommitAccepted, TakeLedger
<1>8. CASE \/ BindRefused(p) \/ AdvanceRefused(p) \/ AcquireRefused(p) \/ ReleaseRefused(p)
           \/ CommitRefused(p) \/ AppendRefused(p) \/ Publish(p) \/ Acquire(p) \/ Release(p)
  BY <1>2, <1>8 DEF BindRefused, AdvanceRefused, AcquireRefused, ReleaseRefused,
                    CommitRefused, AppendRefused, Publish, Acquire, Release
<1>9. CASE CommitReplayed(p) \/ Append(p) \/ AppendReplayed(p)
  BY <1>3, <1>9 DEF CommitReplayed, Append, AppendReplayed
<1>10. CASE ReleaseNext(p)
  BY <1>2, <1>10 DEF ReleaseNext
<1> QED
  BY <1>4, <1>5, <1>6, <1>7, <1>8, <1>9, <1>10 DEF Step

\* The ledger changes when a record is appended, and never otherwise.
LEMMA LedgerChange ==
  ASSUME [Next]_vars
  PROVE  ledger' = ledger \/ \E p \in Proc : Append(p)
<1> USE DEF durable
<1>1. ASSUME NEW p \in Proc, Call(p) PROVE ledger' = ledger
  BY <1>1 DEF Call, BindStart, AdvanceStart, AcquireStart, CommitStart, NoteStart,
              ReleaseStart, AbortStart, RecoverCompleted, RecoverStart
<1>2. ASSUME NEW p \in Proc, Step(p), ~Append(p) PROVE ledger' = ledger
  BY <1>2 DEF Step, TakeFence, LockTimeout, BindPersist, BindRefused, Publish,
              AdvancePersist, AdvanceRefused, Acquire, AcquireRefused, CommitReplayed,
              CommitRefused, CommitAccepted, TakeLedger, AppendReplayed, AppendRefused,
              ReleaseNext, Release, ReleaseRefused
<1> QED
  BY <1>1, <1>2 DEF Next, Stop, Integrate, Drift, Reclaim, ReclaimFence, ReclaimLedger, vars

\* LEASES.json changes when a lease is granted or released.
LEMMA LeasesChange ==
  ASSUME [Next]_vars
  PROVE  leases' = leases \/ \E p \in Proc : Acquire(p) \/ Release(p)
<1> USE DEF durable
<1>1. ASSUME NEW p \in Proc, Call(p) PROVE leases' = leases
  BY <1>1 DEF Call, BindStart, AdvanceStart, AcquireStart, CommitStart, NoteStart,
              ReleaseStart, AbortStart, RecoverCompleted, RecoverStart
<1>2. ASSUME NEW p \in Proc, Step(p), ~Acquire(p), ~Release(p) PROVE leases' = leases
  BY <1>2 DEF Step, TakeFence, LockTimeout, BindPersist, BindRefused, Publish,
              AdvancePersist, AdvanceRefused, AcquireRefused, CommitReplayed,
              CommitRefused, CommitAccepted, TakeLedger, Append, AppendReplayed,
              AppendRefused, ReleaseNext, ReleaseRefused
<1> QED
  BY <1>1, <1>2 DEF Next, Stop, Integrate, Drift, Reclaim, ReclaimFence, ReclaimLedger, vars

\* GRAPH.json changes when a descriptor is published; the files under graphs/
\* only become more.
LEMMA GraphChange ==
  ASSUME [Next]_vars
  PROVE  /\ current' = current \/ \E p \in Proc : Publish(p)
         /\ revisions \subseteq revisions'
<1> USE DEF durable, graphVars
<1>1. ASSUME NEW p \in Proc, Call(p) PROVE current' = current /\ revisions' = revisions
  BY <1>1 DEF Call, BindStart, AdvanceStart, AcquireStart, CommitStart, NoteStart,
              ReleaseStart, AbortStart, RecoverCompleted, RecoverStart
<1>2. ASSUME NEW p \in Proc, Step(p)
      PROVE  (Publish(p) \/ current' = current) /\ revisions \subseteq revisions'
  BY <1>2 DEF Step, TakeFence, LockTimeout, BindPersist, BindRefused, Publish,
              AdvancePersist, AdvanceRefused, Acquire, AcquireRefused, CommitReplayed,
              CommitRefused, CommitAccepted, TakeLedger, Append, AppendReplayed,
              AppendRefused, ReleaseNext, Release, ReleaseRefused
<1> QED
  BY <1>1, <1>2 DEF Next, Stop, Integrate, Drift, Reclaim, ReclaimFence, ReclaimLedger, vars

\* An integration that completed once stays recorded.
LEMMA IntegratedGrows ==
  ASSUME [Next]_vars
  PROVE  integrated \subseteq integrated'
<1> USE DEF workspace
<1>1. ASSUME NEW p \in Proc, Call(p) PROVE integrated' = integrated
  BY <1>1 DEF Call, BindStart, AdvanceStart, AcquireStart, CommitStart, NoteStart,
              ReleaseStart, AbortStart, RecoverCompleted, RecoverStart
<1>2. ASSUME NEW p \in Proc, Step(p) PROVE integrated' = integrated
  BY <1>2 DEF Step, TakeFence, LockTimeout, BindPersist, BindRefused, Publish,
              AdvancePersist, AdvanceRefused, Acquire, AcquireRefused, CommitReplayed,
              CommitRefused, CommitAccepted, TakeLedger, Append, AppendReplayed,
              AppendRefused, ReleaseNext, Release, ReleaseRefused
<1> QED
  BY <1>1, <1>2 DEF Next, Stop, Integrate, Drift, Reclaim, ReclaimFence, ReclaimLedger, vars

-----------------------------------------------------------------------------
(* The arguments of an operation stay well-formed. *)

\* After a return there is nothing left to say about the process.
LEMMA ReturnIdle ==
  ASSUME TypeOK, NEW p \in Proc, Return(p)
  PROVE  /\ op'[p] = "none"
         /\ at'[p] = "idle"
         /\ AskedOf(p)'
  BY DEF TypeOK, Return, AskedOf, NoRequest

LEMMA CommittedStage ==
  ASSUME TypeOK, NEW p \in Proc, Committed(p)
  PROVE  \/ Return(p)
         \/ /\ req[p].release
            /\ at'[p] = "handover"
            /\ op' = op
            /\ req' = req
  BY DEF TypeOK, Committed

LEMMA AskedByCall ==
  ASSUME TypeOK, NEW p \in Proc, Call(p)
  PROVE  AskedOf(p)'
<1> DEFINE Begun(o, stage, request) == op'[p] = o /\ at'[p] = stage /\ req'[p] = request
<1>0. \A o, stage, request : Start(p, o, stage, request) => Begun(o, stage, request)
  BY DEF Start, TypeOK
<1>1. ASSUME NEW g \in Graph, BindStart(p, g) PROVE AskedOf(p)'
  <2>1. Begun("bind", "wait", [NoRequest EXCEPT !.graph = g])
    BY <1>0, <1>1 DEF BindStart
  <2> QED
    BY <2>1 DEF AskedOf, NoRequest
<1>2. ASSUME NEW g \in Graph, AdvanceStart(p, g) PROVE AskedOf(p)'
  <2>1. Begun("advance", "wait", [NoRequest EXCEPT !.graph = g])
    BY <1>0, <1>2 DEF AdvanceStart
  <2> QED
    BY <2>1 DEF AskedOf, NoRequest
<1>3. ASSUME NEW t \in Task, NEW a \in Attempt, AcquireStart(p, t, a) PROVE AskedOf(p)'
  <2> DEFINE k == [graph |-> current, task |-> t, attempt |-> a]
  <2>1. Begun("acquire", "wait", [NoRequest EXCEPT !.key = k])
    BY <1>0, <1>3 DEF AcquireStart
  <2>2. k \in Key
    BY <1>3 DEF AcquireStart, TypeOK, Key
  <2>3. [NoRequest EXCEPT !.key = k].key = k
    BY DEF NoRequest
  <2> HIDE DEF k
  <2> QED
    BY <2>1, <2>2, <2>3 DEF AskedOf
<1>4. ASSUME NEW k \in Held, NEW id \in Id, NEW kind \in Terminal, NEW reason \in Reason,
             op'[p] = "commit", at'[p] = "wait",
             req'[p].key = k, req'[p].record = RecordFor(k, id, kind, reason)
      PROVE  AskedOf(p)'
  <2> DEFINE r == RecordFor(k, id, kind, reason)
  <2>1. k \in Key /\ r \in Record /\ r.kind = kind /\ KeyOf(r) = k
    BY HeldKeys, RecordForType
  <2> HIDE DEF r
  <2> QED
    BY <1>4, <2>1 DEF AskedOf, r
<1>5. ASSUME NEW k \in Held, NEW id \in CallerId, NEW kind \in Terminal, NEW reason \in Reason,
             CommitStart(p, k, id, kind, reason)
      PROVE  AskedOf(p)'
  <2>1. Begun("commit", "wait",
          [NoRequest EXCEPT !.key = k, !.record = RecordFor(k, id, kind, reason)])
    BY <1>0, <1>5 DEF CommitStart
  <2>2. req'[p].key = k /\ req'[p].record = RecordFor(k, id, kind, reason)
    BY <2>1 DEF NoRequest
  <2>3. id \in Id
    BY DEF Id
  <2> QED
    BY <1>4, <2>1, <2>2, <2>3
<1>6. ASSUME NEW r \in Note, NoteStart(p, r) PROVE AskedOf(p)'
  <2>1. Begun("commit", "append", [NoRequest EXCEPT !.record = r])
    BY <1>0, <1>6 DEF NoteStart
  <2>2. r \in Record /\ r.kind \notin Terminal
    BY RunAssumption
  <2> QED
    BY <2>1, <2>2 DEF AskedOf, NoRequest
<1>7. ASSUME NEW k \in Held, NEW r \in ledger, ReleaseStart(p, k, r) PROVE AskedOf(p)'
  <2>1. Begun("release", "wait", ReleaseRequest(k, r))
    BY <1>0, <1>7 DEF ReleaseStart
  <2>2. k \in Key /\ r \in Record
    BY HeldKeys DEF TypeOK
  <2> QED
    BY <2>1, <2>2 DEF AskedOf, NoRequest, ReleaseRequest
<1>8. ASSUME NEW k \in Held, NEW reason \in Reason, AbortStart(p, k, reason) PROVE AskedOf(p)'
  <2>1. Begun("commit", "wait",
          [NoRequest EXCEPT !.key = k,
             !.record = RecordFor(k, <<"abort", k>>, "task_aborted_reconciled", reason),
             !.release = TRUE])
    BY <1>0, <1>8 DEF AbortStart
  <2>2. <<"abort", k>> \in Id /\ "task_aborted_reconciled" \in Terminal
    BY HeldKeys DEF Id, Terminal
  <2>3. /\ req'[p].key = k
        /\ req'[p].record = RecordFor(k, <<"abort", k>>, "task_aborted_reconciled", reason)
    BY <2>1 DEF NoRequest
  <2> QED
    BY <1>4, <2>1, <2>2, <2>3
<1>9. ASSUME NEW k \in Held, RecoverCompleted(p, k) PROVE AskedOf(p)'
  BY <1>7, <1>9 DEF RecoverCompleted, Completions
<1>10. ASSUME NEW k \in Held, RecoverStart(p, k) PROVE AskedOf(p)'
  <2>1. Begun("commit", "wait",
          [NoRequest EXCEPT !.key = k,
             !.record = RecordFor(k, <<"recover", k>>, "recovered_task_completed", Observed),
             !.release = TRUE])
    BY <1>0, <1>10 DEF RecoverStart
  <2>2. <<"recover", k>> \in Id /\ "recovered_task_completed" \in Terminal
    BY HeldKeys DEF Id, Terminal
  <2>3. /\ req'[p].key = k
        /\ req'[p].record = RecordFor(k, <<"recover", k>>, "recovered_task_completed", Observed)
    BY <2>1 DEF NoRequest
  <2> QED
    BY <1>4, <2>1, <2>2, <2>3, RunAssumption
<1> QED
  BY <1>1, <1>2, <1>3, <1>5, <1>6, <1>7, <1>8, <1>9, <1>10 DEF Call

LEMMA AskedByStep ==
  ASSUME TypeOK, NEW p \in Proc, AskedOf(p), Step(p)
  PROVE  AskedOf(p)'
<1>1. ASSUME Return(p) PROVE AskedOf(p)'
  BY <1>1, ReturnIdle
<1>2. ASSUME at'[p] = "handover", op'[p] = op[p], req'[p] = req[p], op[p] = "commit",
             req[p].record.kind \in Terminal
      PROVE  AskedOf(p)'
  BY <1>2 DEF AskedOf
<1>3. CASE TakeFence(p)
  BY <1>1, <1>3 DEF TakeFence, AskedOf, TypeOK
<1>4. CASE LockTimeout(p)
  BY <1>1, <1>4 DEF LockTimeout
<1>5. CASE BindPersist(p) \/ AdvancePersist(p)
  BY <1>5 DEF BindPersist, AdvancePersist, Fenced, AskedOf, TypeOK
<1>6. CASE \/ BindRefused(p) \/ AdvanceRefused(p) \/ AcquireRefused(p) \/ ReleaseRefused(p)
           \/ CommitRefused(p) \/ AppendRefused(p) \/ Publish(p) \/ Acquire(p) \/ Release(p)
  BY <1>1, <1>6 DEF BindRefused, AdvanceRefused, AcquireRefused, ReleaseRefused,
                    CommitRefused, AppendRefused, Publish, Acquire, Release
<1>7. CASE CommitReplayed(p) \/ Append(p) \/ AppendReplayed(p)
  <2>1. op[p] = "commit" /\ Committed(p)
    BY <1>7 DEF CommitReplayed, Append, AppendReplayed, Fenced, AskedOf
  <2> QED
    BY <1>1, <1>2, <2>1, CommittedStage DEF AskedOf
<1>8. CASE CommitAccepted(p)
  BY <1>8 DEF CommitAccepted, Fenced, AskedOf, TypeOK
<1>9. CASE TakeLedger(p)
  BY <1>9 DEF TakeLedger, AskedOf, TypeOK
<1>10. CASE ReleaseNext(p)
  BY <1>1, <1>10 DEF ReleaseNext, ReleaseRequest, NoRequest, AskedOf, TypeOK
<1> QED
  BY <1>3, <1>4, <1>5, <1>6, <1>7, <1>8, <1>9, <1>10 DEF Step

LEMMA AskedKept ==
  ASSUME TypeOK, Asked, [Next]_vars
  PROVE  Asked'
<1> SUFFICES ASSUME NEW q \in Proc PROVE AskedOf(q)'
  BY DEF Asked
<1>1. AskedOf(q)
  BY DEF Asked
<1>2. ASSUME op'[q] = op[q], at'[q] = at[q], req'[q] = req[q] PROVE AskedOf(q)'
  BY <1>1, <1>2 DEF AskedOf
<1>3. ASSUME NEW p \in Proc, Call(p) \/ Step(p) \/ Stop(p) PROVE AskedOf(q)'
  <2>1. CASE p # q
    BY <1>2, <1>3, <2>1, Others
  <2>2. CASE p = q
    BY <1>1, <1>3, <2>2, AskedByCall, AskedByStep, ReturnIdle DEF Stop
  <2> QED
    BY <2>1, <2>2
<1>4. CASE \/ \E k \in Held : Integrate(k)
           \/ Drift \/ Reclaim \/ UNCHANGED vars
  BY <1>2, <1>4 DEF Integrate, Drift, Reclaim, ReclaimFence, ReclaimLedger, local, vars
<1> QED
  BY <1>3, <1>4 DEF Next

-----------------------------------------------------------------------------
(* The locks exclude, and what was loaded under them stays the file. *)

\* Nobody takes the fence from its holder or writes LEASES.json next to it.
LEMMA FenceHeld ==
  ASSUME TypeOK, Fencing, NEW p \in Proc, NEW q \in Proc, p # q, UnderFence(q),
         Call(p) \/ Step(p) \/ Stop(p)
  PROVE  fence' = q /\ leases' = leases
<1> USE DEF durable, locks
<1>1. fence = q /\ q # NoProc /\ q # Orphan
  BY RunAssumption DEF Fencing, FencingOf
<1>2. ~UnderFence(p)
  BY <1>1 DEF Fencing, FencingOf
<1>3. CASE Call(p)
  BY <1>1, <1>3 DEF Call, BindStart, AdvanceStart, AcquireStart, CommitStart, NoteStart,
              ReleaseStart, AbortStart, RecoverCompleted, RecoverStart
<1>4. CASE Stop(p)
  BY <1>1, <1>4 DEF Stop
<1>5. at[p] \notin {"fenced", "publish"}
  BY <1>2 DEF UnderFence
<1>6. CASE Step(p)
  BY <1>1, <1>5, <1>6
     DEF Step, Fenced, FreeLocks, TakeFence, LockTimeout, BindPersist, BindRefused, Publish,
         AdvancePersist, AdvanceRefused, Acquire, AcquireRefused, CommitReplayed,
         CommitRefused, CommitAccepted, TakeLedger, Append, AppendReplayed,
         AppendRefused, ReleaseNext, Release, ReleaseRefused
<1> QED
  BY <1>3, <1>4, <1>6

\* Nobody takes the ledger lock from its holder or writes the ledger next to it.
LEMMA LedgerHeld ==
  ASSUME TypeOK, Fencing, NEW p \in Proc, NEW q \in Proc, p # q, at[q] = "write",
         Call(p) \/ Step(p) \/ Stop(p)
  PROVE  ledgerLock' = q /\ ledger' = ledger
<1> USE DEF durable, locks
<1>1. ledgerLock = q /\ q # NoProc /\ q # Orphan
  BY RunAssumption DEF Fencing, FencingOf
<1>2. at[p] # "write"
  BY <1>1 DEF Fencing, FencingOf
<1>3. CASE Call(p)
  BY <1>1, <1>3 DEF Call, BindStart, AdvanceStart, AcquireStart, CommitStart, NoteStart,
              ReleaseStart, AbortStart, RecoverCompleted, RecoverStart
<1>4. CASE Stop(p)
  BY <1>1, <1>4 DEF Stop
<1>5. CASE Step(p)
  BY <1>1, <1>2, <1>5
     DEF Step, Fenced, FreeLocks, TakeFence, LockTimeout, BindPersist, BindRefused, Publish,
         AdvancePersist, AdvanceRefused, Acquire, AcquireRefused, CommitReplayed,
         CommitRefused, CommitAccepted, TakeLedger, Append, AppendReplayed,
         AppendRefused, ReleaseNext, Release, ReleaseRefused
<1> QED
  BY <1>3, <1>4, <1>5

\* A call ends in front of a lock, not behind one.
LEMMA CallOutside ==
  ASSUME TypeOK, NEW p \in Proc, Call(p)
  PROVE  ~UnderFence(p)' /\ at'[p] # "write" /\ at'[p] # "publish"
<1> DEFINE Begun(o, stage, request) == op'[p] = o /\ at'[p] = stage /\ req'[p] = request
<1>0. \A o, stage, request : Start(p, o, stage, request) => Begun(o, stage, request)
  BY DEF Start, TypeOK
<1>1. ASSUME NEW r \in Note, NoteStart(p, r)
      PROVE  at'[p] = "append" /\ req'[p].record.kind \notin Terminal
  BY <1>0, <1>1, RunAssumption DEF NoteStart, NoRequest
<1>2. ASSUME Call(p), ~ \E r \in Note : NoteStart(p, r) PROVE at'[p] = "wait"
  BY <1>0, <1>2
     DEF Call, BindStart, AdvanceStart, AcquireStart, CommitStart, ReleaseStart,
         AbortStart, RecoverCompleted, RecoverStart
<1> QED
  BY <1>1, <1>2 DEF UnderFence

LEMMA FencingByStep ==
  ASSUME TypeOK, NEW p \in Proc, AskedOf(p), FencingOf(p), Step(p)
  PROVE  FencingOf(p)'
<1> USE DEF durable, locks
<1>1. ASSUME at'[p] \in {"idle", "wait", "handover"} PROVE FencingOf(p)'
  BY <1>1 DEF FencingOf, UnderFence
<1>2. ASSUME Return(p) \/ Committed(p) PROVE FencingOf(p)'
  BY <1>1, <1>2, ReturnIdle, CommittedStage
<1>3. CASE TakeFence(p)
  BY <1>2, <1>3 DEF TakeFence, FencingOf, UnderFence, TypeOK
<1>4. CASE BindPersist(p) \/ AdvancePersist(p) \/ CommitAccepted(p)
  BY <1>4 DEF BindPersist, AdvancePersist, CommitAccepted, Fenced, FencingOf, UnderFence, TypeOK
<1>5. CASE TakeLedger(p)
  BY <1>5 DEF TakeLedger, FencingOf, UnderFence, TypeOK
<1>6. CASE \/ BindRefused(p) \/ AdvanceRefused(p) \/ AcquireRefused(p) \/ ReleaseRefused(p)
           \/ CommitRefused(p) \/ AppendRefused(p) \/ Publish(p) \/ Acquire(p) \/ Release(p)
           \/ CommitReplayed(p) \/ Append(p) \/ AppendReplayed(p) \/ LockTimeout(p)
  BY <1>2, <1>6 DEF BindRefused, AdvanceRefused, AcquireRefused, ReleaseRefused,
                    CommitRefused, AppendRefused, Publish, Acquire, Release,
                    CommitReplayed, Append, AppendReplayed, LockTimeout
<1>7. CASE ReleaseNext(p)
  BY <1>1, <1>2, <1>7 DEF ReleaseNext, TypeOK
<1> QED
  BY <1>3, <1>4, <1>5, <1>6, <1>7 DEF Step

LEMMA FencingKept ==
  ASSUME TypeOK, Asked, Fencing, [Next]_vars
  PROVE  Fencing'
<1> SUFFICES ASSUME NEW q \in Proc PROVE FencingOf(q)'
  BY DEF Fencing
<1>1. FencingOf(q) /\ AskedOf(q)
  BY DEF Fencing, Asked
<1>2. ASSUME NEW p \in Proc, Call(p) \/ Step(p) \/ Stop(p) PROVE FencingOf(q)'
  <2>1. CASE p # q
    BY <1>1, <1>2, <2>1, Others, FenceHeld, LedgerHeld DEF FencingOf, UnderFence
  <2>2. CASE p = q /\ Call(p)
    BY <2>2, CallOutside DEF FencingOf
  <2>3. CASE p = q /\ Step(p)
    BY <1>1, <2>3, FencingByStep
  <2>4. CASE p = q /\ Stop(p)
    BY <2>4, ReturnIdle DEF Stop, FencingOf, UnderFence
  <2> QED
    BY <1>2, <2>1, <2>2, <2>3, <2>4
<1>3. CASE \/ \E k \in Held : Integrate(k)
           \/ Drift \/ UNCHANGED vars
  BY <1>1, <1>3 DEF Integrate, Drift, local, durable, locks, vars, FencingOf, UnderFence
<1>4. CASE Reclaim
  BY <1>1, <1>4, RunAssumption
     DEF Reclaim, ReclaimFence, ReclaimLedger, local, durable, FencingOf, UnderFence
<1> QED
  BY <1>2, <1>3, <1>4 DEF Next

-----------------------------------------------------------------------------
(* What an operation has established stays true until it writes. *)

\* Nobody replaces GRAPH.json next to the holder of the fence.
LEMMA GraphHeld ==
  ASSUME Fencing, NEW p \in Proc, NEW q \in Proc, p # q, UnderFence(q)
  PROVE  ~Publish(p) /\ ~Acquire(p) /\ ~Release(p)
  BY DEF Fencing, FencingOf, UnderFence, Publish, Acquire, Release, Fenced

\* A process gets to a stage from the stage before it, or was there.
LEMMA StageEntered ==
  ASSUME TypeOK, Asked, NEW q \in Proc, [Next]_vars
  PROVE  /\ at'[q] = "publish" =>
              \/ at[q] = "publish" /\ req'[q] = req[q] /\ op'[q] = op[q]
              \/ req'[q] = req[q] /\ (BindPersist(q) \/ AdvancePersist(q))
         /\ at'[q] \in {"append", "write"} /\ req'[q].record.kind \in Terminal =>
              \/ at[q] \in {"append", "write"} /\ req'[q] = req[q]
              \/ req'[q] = req[q] /\ CommitAccepted(q)
         /\ op'[q] = "acquire" =>
              \/ op[q] = "acquire" /\ req'[q] = req[q]
              \/ \E t \in Task, a \in Attempt : AcquireStart(q, t, a)
<1> DEFINE Goal ==
      /\ at'[q] = "publish" =>
           \/ at[q] = "publish" /\ req'[q] = req[q] /\ op'[q] = op[q]
           \/ req'[q] = req[q] /\ (BindPersist(q) \/ AdvancePersist(q))
      /\ at'[q] \in {"append", "write"} /\ req'[q].record.kind \in Terminal =>
           \/ at[q] \in {"append", "write"} /\ req'[q] = req[q]
           \/ req'[q] = req[q] /\ CommitAccepted(q)
      /\ op'[q] = "acquire" =>
           \/ op[q] = "acquire" /\ req'[q] = req[q]
           \/ \E t \in Task, a \in Attempt : AcquireStart(q, t, a)
<1>1. ASSUME op'[q] = op[q], at'[q] = at[q], req'[q] = req[q] PROVE Goal
  BY <1>1
<1>2. ASSUME at'[q] \in {"idle", "wait", "handover", "fenced"}, op'[q] # "acquire" PROVE Goal
  BY <1>2
<1>3. ASSUME Return(q) PROVE Goal
  BY <1>3, <1>2, ReturnIdle
<1>4. ASSUME Call(q) PROVE Goal
  <2>1. at'[q] # "publish" /\ ~UnderFence(q)' /\ at'[q] # "write"
    BY <1>4, CallOutside
  <2>2. ASSUME ~ \E t \in Task, a \in Attempt : AcquireStart(q, t, a)
        PROVE  op'[q] # "acquire"
    BY <1>4, <2>2
       DEF TypeOK, Start, Call, BindStart, AdvanceStart, CommitStart, NoteStart,
           ReleaseStart, AbortStart, RecoverCompleted, RecoverStart
  <2> QED
    BY <2>1, <2>2 DEF UnderFence
<1>5. ASSUME Step(q) PROVE Goal
  <2>1. CASE \/ LockTimeout(q) \/ BindRefused(q) \/ AdvanceRefused(q) \/ AcquireRefused(q)
             \/ ReleaseRefused(q) \/ CommitRefused(q) \/ AppendRefused(q) \/ Publish(q)
             \/ Acquire(q) \/ Release(q)
    BY <1>3, <2>1 DEF LockTimeout, BindRefused, AdvanceRefused, AcquireRefused, ReleaseRefused,
                      CommitRefused, AppendRefused, Publish, Acquire, Release
  <2>2. CASE CommitReplayed(q) \/ Append(q) \/ AppendReplayed(q)
    <3>1. op[q] = "commit" /\ Committed(q)
      BY <2>2 DEF CommitReplayed, Append, AppendReplayed, Fenced, Asked, AskedOf
    <3> QED
      BY <1>2, <1>3, <3>1, CommittedStage
  <2>3. CASE TakeFence(q)
    BY <1>3, <2>3 DEF TakeFence, TypeOK
  <2>4. CASE BindPersist(q) \/ AdvancePersist(q)
    BY <2>4 DEF BindPersist, AdvancePersist, Fenced, TypeOK
  <2>5. CASE CommitAccepted(q)
    BY <2>5 DEF CommitAccepted, Fenced, TypeOK
  <2>6. CASE TakeLedger(q)
    BY <2>6 DEF TakeLedger, TypeOK, Asked, AskedOf
  <2>7. CASE ReleaseNext(q)
    BY <1>2, <1>3, <2>7 DEF ReleaseNext, TypeOK
  <2> QED
    BY <1>5, <2>1, <2>2, <2>3, <2>4, <2>5, <2>6, <2>7 DEF Step
<1>6. ASSUME NEW p \in Proc, Call(p) \/ Step(p) \/ Stop(p) PROVE Goal
  <2>1. CASE p # q
    BY <1>1, <1>6, <2>1, Others
  <2>2. CASE p = q
    BY <1>3, <1>4, <1>5, <1>6, <2>2 DEF Stop
  <2> QED
    BY <2>1, <2>2
<1>7. CASE \/ \E k \in Held : Integrate(k)
           \/ Drift \/ Reclaim \/ UNCHANGED vars
  BY <1>1, <1>7 DEF Integrate, Drift, Reclaim, ReclaimFence, ReclaimLedger, local, vars
<1> QED
  BY <1>6, <1>7 DEF Next

LEMMA PersistedKept ==
  ASSUME TypeOK, Asked, Persisted, [Next]_vars
  PROVE  Persisted'
<1>1. current' # NoGraph => current' \in revisions'
  BY GraphChange DEF Persisted, Publish
<1>2. ASSUME NEW q \in Proc, at'[q] = "publish" PROVE req'[q].graph \in revisions'
  BY <1>2, StageEntered, GraphChange DEF Persisted, BindPersist, AdvancePersist
<1>3. ASSUME NEW q \in Proc, op'[q] = "acquire" PROVE req'[q].key.graph \in revisions'
  <2>1. CASE op[q] = "acquire" /\ req'[q] = req[q]
    BY <2>1, GraphChange DEF Persisted
  <2>2. ASSUME NEW t \in Task, NEW a \in Attempt, AcquireStart(q, t, a)
        PROVE  req'[q].key.graph \in revisions'
    <3>1. req'[q].key = [graph |-> current, task |-> t, attempt |-> a]
      BY <2>2 DEF AcquireStart, Start, NoRequest, TypeOK
    <3> QED
      BY <2>2, <3>1, GraphChange DEF AcquireStart, Persisted
  <2> QED
    BY <1>3, <2>1, <2>2, StageEntered
<1> QED
  BY <1>1, <1>2, <1>3 DEF Persisted

LEMMA PublishingKept ==
  ASSUME TypeOK, Asked, Fencing, Publishing, [Next]_vars
  PROVE  Publishing'
<1> SUFFICES ASSUME NEW q \in Proc, at'[q] = "publish", current' # NoGraph
             PROVE  Parent[req'[q].graph] = current' /\ Active(leases)' = {}
  BY DEF Publishing
<1>1. CASE at[q] = "publish" /\ req'[q] = req[q]
  <2>1. UnderFence(q)
    BY <1>1 DEF UnderFence
  <2>2. ~Publish(q) /\ ~Acquire(q) /\ ~Release(q)
    BY <1>1, ReturnIdle DEF Publish, Acquire, Release, Fenced
  <2>3. current' = current /\ leases' = leases
    BY <2>1, <2>2, GraphHeld, GraphChange, LeasesChange
  <2> QED
    BY <1>1, <2>3 DEF Publishing, Active
<1>2. CASE BindPersist(q)
  BY <1>2 DEF BindPersist
<1>3. CASE AdvancePersist(q) /\ req'[q] = req[q]
  <2>1. view[q] = leases
    BY <1>3 DEF AdvancePersist, Fenced, Fencing, FencingOf, UnderFence
  <2> QED
    BY <1>3, <2>1 DEF AdvancePersist, Active
<1> QED
  BY <1>1, <1>2, <1>3, StageEntered

LEMMA DecidedKept ==
  ASSUME TypeOK, Asked, Fencing, Decided, [Next]_vars
  PROVE  Decided'
<1> SUFFICES ASSUME NEW q \in Proc, at'[q] \in {"append", "write"},
                    req'[q].record.kind \in Terminal
             PROVE  LET r == req'[q].record
                    IN  /\ r.graph = current'
                        /\ \E l \in Active(leases)' : l.key = KeyOf(r)
                        /\ r.kind \in Success /\ ContractOf(KeyOf(r)) \in Worktree =>
                             KeyOf(r) \in integrated'
  BY DEF Decided
<1>1. CASE at[q] \in {"append", "write"} /\ req'[q] = req[q]
  <2>1. UnderFence(q)
    BY <1>1 DEF UnderFence
  <2>2. ~Publish(q) /\ ~Acquire(q) /\ ~Release(q)
    BY <1>1 DEF Publish, Acquire, Release, Fenced
  <2>3. current' = current /\ leases' = leases
    BY <2>1, <2>2, GraphHeld, GraphChange, LeasesChange
  <2> QED
    BY <1>1, <2>3, IntegratedGrows DEF Decided, Active
<1>2. CASE CommitAccepted(q) /\ req'[q] = req[q]
  <2>1. view[q] = leases
    BY <1>2 DEF CommitAccepted, Fenced, Fencing, FencingOf, UnderFence
  <2>2. KeyOf(req[q].record) = req[q].key
    BY <1>2 DEF CommitAccepted, Fenced, Asked, AskedOf
  <2>3. current' = current /\ leases' = leases
    BY <1>2 DEF CommitAccepted, durable
  <2> QED
    BY <1>2, <2>1, <2>2, <2>3, IntegratedGrows DEF CommitAccepted, MayDecide, Active, TypeOK
<1> QED
  BY <1>1, <1>2, StageEntered

-----------------------------------------------------------------------------
(* The files. *)

\* What a new record is like: nothing in the ledger shares its id, nor, when it
\* is terminal, its attempt.
LEMMA AppendFresh ==
  ASSUME Asked, Fencing, Decided, NEW p \in Proc, Append(p)
  PROVE  /\ ledger' = ledger \cup {req[p].record}
         /\ req[p].record \in Record
         /\ \A q \in ledger : q.id # req[p].record.id
         /\ req[p].record.kind \in Terminal =>
              /\ \A q \in ledger : q.kind \in Terminal => KeyOf(q) # KeyOf(req[p].record)
              /\ req[p].record.graph = current
              /\ \E l \in Active(leases) : l.key = KeyOf(req[p].record)
              /\ req[p].record.kind \in Success /\ ContractOf(KeyOf(req[p].record)) \in Worktree
                   => KeyOf(req[p].record) \in integrated
<1>1. at[p] = "write" /\ seen[p] = ledger
  BY DEF Append, Fencing, FencingOf
<1>2. req[p].record \in Record
  BY <1>1 DEF Asked, AskedOf, Append
<1> QED
  BY <1>1, <1>2 DEF Append, Prior, Rivals, Decided

LEMMA LedgerLoadsKept ==
  ASSUME Asked, Fencing, Decided, LedgerLoads, [Next]_vars
  PROVE  LedgerLoads'
<1>1. CASE ledger' = ledger
  BY <1>1 DEF LedgerLoads
<1>2. ASSUME NEW p \in Proc, Append(p) PROVE LedgerLoads'
  BY <1>2, AppendFresh DEF LedgerLoads
<1> QED
  BY <1>1, <1>2, LedgerChange

LEMMA CompletionIntegratedKept ==
  ASSUME Asked, Fencing, Decided, CompletionIntegrated, [Next]_vars
  PROVE  CompletionIntegrated'
<1>1. CASE ledger' = ledger
  BY <1>1, IntegratedGrows DEF CompletionIntegrated
<1>2. ASSUME NEW p \in Proc, Append(p) PROVE CompletionIntegrated'
  BY <1>2, AppendFresh, IntegratedGrows DEF CompletionIntegrated, Success, Terminal
<1> QED
  BY <1>1, <1>2, LedgerChange

\* The ledger only grows.
LEMMA LedgerKept ==
  ASSUME Asked, Fencing, Decided, [Next]_vars
  PROVE  ledger \subseteq ledger'
  BY LedgerChange, AppendFresh

\* A grant adds one active lease to what is there; a release turns one active
\* lease into a released one.
LEMMA GrantChange ==
  ASSUME Fencing, NEW p \in Proc, Acquire(p)
  PROVE  /\ leases' = leases \cup {[key |-> req[p].key, status |-> "active", proof |-> NoRecord]}
         /\ SameAttempt(req[p].key, leases) = {}
         /\ ~Conflicts(req[p].key, leases)
  BY DEF Acquire, Fenced, Fencing, FencingOf, UnderFence

LEMMA ReleaseChange ==
  ASSUME Fencing, NEW p \in Proc, Release(p)
  PROVE  /\ Backed(ledger, req[p].record, req[p].key)
         /\ ledger' = ledger
         /\ \E l \in Active(leases) :
              /\ l.key = req[p].key
              /\ leases' = (leases \ {l}) \cup
                   {[key |-> l.key, status |-> "released", proof |-> req[p].record]}
  BY DEF Release, Fenced, Fencing, FencingOf, UnderFence

LEMMA ReleaseBackedKept ==
  ASSUME Asked, Fencing, Decided, ReleaseBacked, [Next]_vars
  PROVE  ReleaseBacked'
<1>1. CASE leases' = leases
  BY <1>1, LedgerKept DEF ReleaseBacked
<1>2. ASSUME NEW p \in Proc, Acquire(p) PROVE ReleaseBacked'
  BY <1>2, GrantChange, LedgerKept DEF ReleaseBacked
<1>3. ASSUME NEW p \in Proc, Release(p) PROVE ReleaseBacked'
  BY <1>3, ReleaseChange DEF ReleaseBacked, Backed
<1> QED
  BY <1>1, <1>2, <1>3, LeasesChange

LEMMA NoOverlapKept ==
  ASSUME TypeOK, Asked, Fencing, NoOverlap, [Next]_vars
  PROVE  NoOverlap'
<1>1. CASE leases' = leases
  BY <1>1 DEF NoOverlap, Active
<1>2. ASSUME NEW p \in Proc, Acquire(p) PROVE NoOverlap'
  <2>1. req[p].key \in Key
    BY <1>2 DEF Acquire, Fenced, Asked, AskedOf
  <2>2. \A l \in Active(leases) :
          /\ <<ContractOf(req[p].key), ContractOf(l.key)>> \notin Conflict
          /\ <<ContractOf(l.key), ContractOf(req[p].key)>> \notin Conflict
    <3>1. \A l \in Active(leases) : <<ContractOf(req[p].key), ContractOf(l.key)>> \notin Conflict
      BY <1>2, GrantChange DEF Conflicts
    <3>2. \A k \in Key : ContractOf(k) \in Contract
      BY DEF ContractOf, Contract, Key
    <3>3. \A l \in Active(leases) : l.key \in Key
      BY DEF TypeOK, Active, Lease
    <3> QED
      BY <2>1, <3>1, <3>2, <3>3, RunAssumption
  <2>3. \A l \in Active(leases') :
          l \in Active(leases)
            \/ l = [key |-> req[p].key, status |-> "active", proof |-> NoRecord]
    BY <1>2, GrantChange DEF Active
  <2>4. SUFFICES ASSUME NEW l \in Active(leases'), NEW m \in Active(leases'), l # m
                 PROVE  <<ContractOf(l.key), ContractOf(m.key)>> \notin Conflict
    BY DEF NoOverlap, Active
  <2>5. CASE l \in Active(leases) /\ m \in Active(leases)
    BY <2>4, <2>5 DEF NoOverlap
  <2>6. CASE l \in Active(leases) /\ m.key = req[p].key
    BY <2>2, <2>6
  <2>7. CASE m \in Active(leases) /\ l.key = req[p].key
    BY <2>2, <2>7
  <2> QED
    BY <2>3, <2>4, <2>5, <2>6, <2>7
<1>3. ASSUME NEW p \in Proc, Release(p) PROVE NoOverlap'
  <2>1. PICK l \in Active(leases) :
          leases' = (leases \ {l}) \cup
            {[key |-> l.key, status |-> "released", proof |-> req[p].record]}
    BY <1>3, ReleaseChange
  <2>2. Active(leases') \subseteq Active(leases)
    BY <2>1 DEF Active
  <2> QED
    BY <2>2 DEF NoOverlap, Active
<1> QED
  BY <1>1, <1>2, <1>3, LeasesChange

LEMMA AttemptLeasedOnceKept ==
  ASSUME Fencing, AttemptLeasedOnce, [Next]_vars
  PROVE  AttemptLeasedOnce'
<1>1. CASE leases' = leases
  BY <1>1 DEF AttemptLeasedOnce
<1>2. ASSUME NEW p \in Proc, Acquire(p) PROVE AttemptLeasedOnce'
  BY <1>2, GrantChange DEF AttemptLeasedOnce, SameAttempt
<1>3. ASSUME NEW p \in Proc, Release(p) PROVE AttemptLeasedOnce'
  BY <1>3, ReleaseChange DEF AttemptLeasedOnce, Active
<1> QED
  BY <1>1, <1>2, <1>3, LeasesChange

LEMMA RevisionsKeptKept ==
  ASSUME Fencing, Persisted, RevisionsKept, [Next]_vars
  PROVE  RevisionsKept'
<1>1. CASE leases' = leases
  BY <1>1, GraphChange DEF RevisionsKept
<1>2. ASSUME NEW p \in Proc, Acquire(p) PROVE RevisionsKept'
  <2>1. req[p].key.graph \in revisions
    BY <1>2 DEF Acquire, Fenced, Persisted
  <2> QED
    BY <1>2, <2>1, GrantChange, GraphChange DEF RevisionsKept
<1>3. ASSUME NEW p \in Proc, Release(p) PROVE RevisionsKept'
  BY <1>3, ReleaseChange, GraphChange DEF RevisionsKept, Active
<1> QED
  BY <1>1, <1>2, <1>3, LeasesChange

-----------------------------------------------------------------------------
(* The theorems. *)

LEMMA InvariantInitially ==
  ASSUME Init
  PROVE  IInv
<1>1. TypeOK
  BY NoRequestType DEF Init, TypeOK, Op, Stage
<1>2. Asked /\ Fencing /\ Persisted /\ Publishing /\ Decided
  BY DEF Init, Asked, AskedOf, NoRequest, Fencing, FencingOf, UnderFence, Persisted,
         Publishing, Decided
<1>3. LedgerLoads /\ ReleaseBacked /\ NoOverlap /\ AttemptLeasedOnce /\ RevisionsKept
      /\ CompletionIntegrated
  BY DEF Init, LedgerLoads, ReleaseBacked, NoOverlap, Active, AttemptLeasedOnce,
         RevisionsKept, CompletionIntegrated
<1> QED
  BY <1>1, <1>2, <1>3 DEF IInv

LEMMA InvariantKept ==
  ASSUME IInv, [Next]_vars
  PROVE  IInv'
<1> USE DEF IInv
<1>1. TypeOK' /\ Asked' /\ Fencing'
  BY TypeKept, AskedKept, FencingKept
<1>2. Persisted' /\ Publishing' /\ Decided'
  BY PersistedKept, PublishingKept, DecidedKept
<1>3. LedgerLoads' /\ CompletionIntegrated' /\ ReleaseBacked'
  BY LedgerLoadsKept, CompletionIntegratedKept, ReleaseBackedKept
<1>4. NoOverlap' /\ AttemptLeasedOnce' /\ RevisionsKept'
  BY NoOverlapKept, AttemptLeasedOnceKept, RevisionsKeptKept
<1> QED
  BY <1>1, <1>2, <1>3, <1>4

\* The invariant holds of every run of the system.
THEOREM Invariant == Spec => []IInv
<1>1. Init => IInv
  BY InvariantInitially
<1>2. IInv /\ [Next]_vars => IInv'
  BY InvariantKept
<1> QED
  BY <1>1, <1>2, PTL DEF Spec

\* The files, the locks and every process stay well-formed.
THEOREM TypeCorrect == Spec => []TypeOK
<1>1. IInv => TypeOK
  BY DEF IInv
<1> QED
  BY <1>1, Invariant, PTL

\* Whoever races to commit, abort or recover an attempt, it has one terminal
\* outcome, and an id names one record.
THEOREM OneOutcome == Spec => []LedgerLoads
<1>1. IInv => LedgerLoads
  BY DEF IInv
<1> QED
  BY <1>1, Invariant, PTL

\* No lease is released without its durable terminal record.
THEOREM ReleasesBacked == Spec => []ReleaseBacked
<1>1. IInv => ReleaseBacked
  BY DEF IInv
<1> QED
  BY <1>1, Invariant, PTL

\* A terminal record names the descriptor of the lease it is about.
OutcomesFormed == \A r \in ledger : r.kind \in Terminal => WellFormed(r)

LEMMA OutcomesFormedKept ==
  ASSUME IInv, OutcomesFormed, [Next]_vars
  PROVE  OutcomesFormed'
<1> USE DEF IInv
<1>1. CASE ledger' = ledger
  BY <1>1 DEF OutcomesFormed, WellFormed
<1>2. ASSUME NEW p \in Proc, Append(p) PROVE OutcomesFormed'
  <2> DEFINE r == req[p].record
  <2>1. r.kind \in Terminal => WellFormed(r)
    <3> SUFFICES ASSUME r.kind \in Terminal PROVE WellFormed(r)
      OBVIOUS
    <3>1. KeyOf(r) \in Key
      BY <1>2 DEF Append, Asked, AskedOf
    <3> QED
      BY <3>1, RunAssumption DEF KeyOf, Key, WellFormed
  <2> QED
    BY <1>2, <2>1, AppendFresh DEF OutcomesFormed, WellFormed
<1> QED
  BY <1>1, <1>2, LedgerChange

\* The lease store loads whatever was written to the ledger beside it, unless
\* a lease is released and a caller has committed a note without descriptor hash.
\* (assertReleaseProofBackedByLedger, buildTransitionRecord)
THEOREM StoreGoesOnLoading == Spec => []StoreReloads
<1>1. Init => OutcomesFormed
  BY DEF Init, OutcomesFormed
<1>2. IInv /\ OutcomesFormed /\ [Next]_vars => OutcomesFormed'
  BY OutcomesFormedKept
<1>3. ASSUME IInv, OutcomesFormed PROVE StoreReloads
  <2>1. ASSUME NEW l \in leases PROVE l.status \in {"active", "released"}
    BY <1>3 DEF IInv, TypeOK, Lease
  <2>2. ASSUME NEW l \in leases, l.status = "released"
        PROVE  l.proof \in ledger /\ l.proof.kind \in Terminal /\ KeyOf(l.proof) = l.key
    BY <1>3, <2>2 DEF IInv, ReleaseBacked
  <2>3. (\A r \in ledger : WellFormed(r)) <=>
          \A r \in ledger : r.kind \notin Terminal => WellFormed(r)
    BY <1>3 DEF OutcomesFormed
  <2> QED
    BY <2>1, <2>2, <2>3 DEF StoreReloads, StoreLoads, Backed
<1> QED
  BY <1>1, <1>2, <1>3, Invariant, PTL DEF Spec

\* No two active leases collide, for any conflict relation that is symmetric.
THEOREM LeasesExclude == Spec => []NoOverlap
<1>1. IInv => NoOverlap
  BY DEF IInv
<1> QED
  BY <1>1, Invariant, PTL

\* An attempt is leased once and its revision is on disk.
THEOREM AttemptsIdentified == Spec => [](AttemptLeasedOnce /\ RevisionsKept)
<1>1. IInv => AttemptLeasedOnce /\ RevisionsKept
  BY DEF IInv
<1> QED
  BY <1>1, Invariant, PTL

\* A worktree task is completed only once its patch has been integrated.
THEOREM CompletionsIntegrated == Spec => []CompletionIntegrated
<1>1. IInv => CompletionIntegrated
  BY DEF IInv
<1> QED
  BY <1>1, Invariant, PTL

\* No write to TRANSITIONS.jsonl loses a record.
THEOREM LedgerOnlyGrows == Spec => LedgerGrows
<1>1. IInv /\ [Next]_vars => [ledger \subseteq ledger']_ledger
  BY LedgerKept DEF IInv
<1> QED
  BY <1>1, Invariant, PTL DEF Spec, LedgerGrows

\* No write to LEASES.json loses a lease or touches a released one.
THEOREM LeasesOnlyAdvance == Spec => LeasesFinal
<1> DEFINE Step1 == \A l \in leases : \E m \in leases' :
                      m.key = l.key /\ (l.status = "released" => m = l)
<1>1. ASSUME IInv, [Next]_vars PROVE [Step1]_leases
  <2>1. ASSUME NEW p \in Proc, Acquire(p) PROVE Step1
    BY <1>1, <2>1, GrantChange DEF IInv
  <2>2. ASSUME NEW p \in Proc, Release(p) PROVE Step1
    <3>1. PICK l \in Active(leases) :
            leases' = (leases \ {l}) \cup
              {[key |-> l.key, status |-> "released", proof |-> req[p].record]}
      BY <1>1, <2>2, ReleaseChange DEF IInv
    <3>2. ASSUME NEW k \in leases
          PROVE  \E m \in leases' : m.key = k.key /\ (k.status = "released" => m = k)
      <4>1. CASE k = l
        <5>1. l.status = "active"
          BY DEF Active
        <5> DEFINE m == [key |-> l.key, status |-> "released", proof |-> req[p].record]
        <5>2. m \in leases' /\ m.key = k.key
          BY <3>1, <4>1
        <5> QED
          BY <4>1, <5>1, <5>2
      <4>2. CASE k # l
        BY <3>1, <4>2
      <4> QED
        BY <4>1, <4>2
    <3> QED
      BY <3>2
  <2> QED
    BY <1>1, <2>1, <2>2, LeasesChange
<1>2. IInv /\ [Next]_vars => [Step1]_leases
  BY <1>1
<1> QED
  BY <1>2, Invariant, PTL DEF Spec, LeasesFinal

\* A terminal outcome enters the ledger only while its attempt's lease is active
\* and its graph is the current one, however long ago that was checked.
THEOREM OutcomesDecidedUnderLease == Spec => DecidedUnderLease
<1> DEFINE Step1 == \A r \in ledger' \ ledger : r.kind \in Terminal =>
                      r.graph = current /\ \E l \in Active(leases) : l.key = KeyOf(r)
<1>1. ASSUME IInv, [Next]_vars PROVE [Step1]_ledger
  <2>1. ASSUME NEW p \in Proc, Append(p) PROVE Step1
    BY <1>1, <2>1, AppendFresh DEF IInv
  <2> QED
    BY <1>1, <2>1, LedgerChange
<1>2. IInv /\ [Next]_vars => [Step1]_ledger
  BY <1>1
<1> QED
  BY <1>2, Invariant, PTL DEF Spec, DecidedUnderLease

\* GRAPH.json moves only to a child of the current revision while no attempt
\* runs, although it is written after the check.
THEOREM GraphAdvancesDrained == Spec => DrainedAdvance
<1> DEFINE Step1 == current # NoGraph => Parent[current'] = current /\ Active(leases) = {}
<1>1. ASSUME IInv, [Next]_vars PROVE [Step1]_current
  <2>1. ASSUME NEW p \in Proc, Publish(p) PROVE Step1
    BY <1>1, <2>1 DEF Publish, IInv, Publishing
  <2> QED
    BY <1>1, <2>1, GraphChange
<1>2. IInv /\ [Next]_vars => [Step1]_current
  BY <1>1
<1> QED
  BY <1>2, Invariant, PTL DEF Spec, DrainedAdvance

-----------------------------------------------------------------------------
(***************************************************************************)
(* The run store, with its files, locks and Leads, implements TaskAttempts.*)
(* Beyond the invariant above this needs that no outcome is on record for  *)
(* an attempt before the attempt is leased.                                *)
(***************************************************************************)

\* An outcome belongs to a lease.
OutcomesLeased ==
  \A r \in ledger : r.kind \in Terminal => \E l \in leases : l.key = KeyOf(r)

RInv == IInv /\ OutcomesLeased

LEMMA LeasesPersist ==
  ASSUME IInv, [Next]_vars
  PROVE  \A l \in leases : \E m \in leases' : m.key = l.key
<1>1. ASSUME NEW p \in Proc, Acquire(p) PROVE leases \subseteq leases'
  BY <1>1, GrantChange DEF IInv
<1>2. ASSUME NEW p \in Proc, Release(p), NEW l \in leases
      PROVE  \E m \in leases' : m.key = l.key
  <2>1. PICK k \in Active(leases) :
          leases' = (leases \ {k}) \cup
            {[key |-> k.key, status |-> "released", proof |-> req[p].record]}
    BY <1>2, ReleaseChange DEF IInv
  <2>2. CASE l = k
    <3> DEFINE m == [key |-> k.key, status |-> "released", proof |-> req[p].record]
    <3>1. m \in leases' /\ m.key = l.key
      BY <2>1, <2>2
    <3> QED
      BY <3>1
  <2>3. CASE l # k
    BY <2>1, <2>3
  <2> QED
    BY <2>2, <2>3
<1> QED
  BY <1>1, <1>2, LeasesChange

LEMMA OutcomesLeasedKept ==
  ASSUME RInv, [Next]_vars
  PROVE  OutcomesLeased'
<1>1. CASE ledger' = ledger
  BY <1>1, LeasesPersist DEF RInv, OutcomesLeased
<1>2. ASSUME NEW p \in Proc, Append(p) PROVE OutcomesLeased'
  <2>1. \A r \in ledger' : r.kind \in Terminal => \E l \in leases : l.key = KeyOf(r)
    BY <1>2, AppendFresh DEF RInv, IInv, OutcomesLeased, Active
  <2> QED
    BY <2>1, LeasesPersist DEF RInv, OutcomesLeased
<1> QED
  BY <1>1, <1>2, LedgerChange

LEMMA RInvKept ==
  /\ Init => RInv
  /\ RInv /\ [Next]_vars => RInv'
<1>1. Init => OutcomesLeased
  BY DEF Init, OutcomesLeased
<1> QED
  BY <1>1, InvariantInitially, InvariantKept, OutcomesLeasedKept DEF RInv

-----------------------------------------------------------------------------
(* The mapping: what an attempt's leases and outcomes are. *)

PairOf(k) == <<k.task, k.attempt>>

LEMMA PairType ==
  ASSUME NEW k \in Key
  PROVE  PairOf(k) \in Task \X Attempt
  BY DEF PairOf, Key

\* The attempts of the store's leases are granted, under the lease's graph.
LEMMA GrantedByLease ==
  ASSUME TypeOK, AttemptLeasedOnce, NEW l \in leases
  PROVE  /\ LeasesOf(PairOf(l.key)) = {l}
         /\ GrantOf[PairOf(l.key)] = l.key.graph
         /\ l.key.graph # NoGraph
<1>1. l.key \in Key /\ PairOf(l.key) \in Task \X Attempt
  BY PairType DEF TypeOK, Lease
<1>2. LeasesOf(PairOf(l.key)) = {l}
  BY DEF LeasesOf, PairOf, AttemptLeasedOnce
<1>3. Only(LeasesOf(PairOf(l.key))) = l
  BY <1>2 DEF Only
<1>4. l.key.graph # NoGraph
  BY <1>1, RunAssumption DEF Key
<1> QED
  BY <1>1, <1>2, <1>3, <1>4 DEF GrantOf

\* And every granted attempt has its lease.
LEMMA LeaseOfGrant ==
  ASSUME NEW x \in Task \X Attempt, LeasesOf(x) # {}
  PROVE  \E l \in leases : PairOf(l.key) = x
  BY DEF LeasesOf, PairOf

\* The outcome of an attempt is the kind of the terminal record of its lease.
LEMMA DecidedByRecord ==
  ASSUME TypeOK, AttemptLeasedOnce, LedgerLoads, NEW l \in leases, NEW r \in ledger,
         r.kind \in Terminal, KeyOf(r) = l.key
  PROVE  /\ OutcomesOf(PairOf(l.key)) = {r}
         /\ OutcomeOf[PairOf(l.key)] = r.kind
<1>1. PairOf(l.key) \in Task \X Attempt
  BY PairType DEF TypeOK, Lease
<1>2. LeasesOf(PairOf(l.key)) = {l}
  BY GrantedByLease
<1>3. OutcomesOf(PairOf(l.key)) = {r}
  BY <1>2 DEF OutcomesOf, LedgerLoads
<1>4. Only(OutcomesOf(PairOf(l.key))) = r
  BY <1>3 DEF Only
<1> QED
  BY <1>1, <1>3, <1>4 DEF OutcomeOf

\* What the mapped state is depends on the two files alone.
LEMMA SameFiles ==
  ASSUME leases' = leases, ledger' = ledger
  PROVE  GrantOf' = GrantOf /\ OutcomeOf' = OutcomeOf /\ Settled' = Settled
  BY DEF GrantOf, OutcomeOf, Settled, LeasesOf, OutcomesOf

\* An attempt runs while its lease is active.
LEMMA RunningLeased ==
  ASSUME TypeOK, AttemptLeasedOnce, NEW x \in Task \X Attempt
  PROVE  x \in Attempts!Running <=> \E l \in Active(leases) : PairOf(l.key) = x
<1>1. ASSUME x \in Attempts!Running PROVE \E l \in Active(leases) : PairOf(l.key) = x
  <2>1. LeasesOf(x) # {} /\ x \notin Settled
    BY <1>1 DEF Attempts!Running, GrantOf
  <2>2. PICK l \in leases : PairOf(l.key) = x
    BY <2>1, LeaseOfGrant
  <2>3. LeasesOf(x) = {l}
    BY <2>2, GrantedByLease
  <2>4. l.status = "active"
    BY <2>1, <2>3 DEF Settled, TypeOK, Lease
  <2> QED
    BY <2>2, <2>4 DEF Active
<1>2. ASSUME NEW l \in Active(leases), PairOf(l.key) = x PROVE x \in Attempts!Running
  <2>1. l \in leases /\ l.status = "active"
    BY DEF Active
  <2>2. LeasesOf(x) = {l} /\ GrantOf[x] # NoGraph
    BY <1>2, <2>1, GrantedByLease
  <2> QED
    BY <2>1, <2>2 DEF Attempts!Running, Attempts!Pair, Settled
<1> QED
  BY <1>1, <1>2

-----------------------------------------------------------------------------
(* The four writes. *)

LEMMA PublishRevises ==
  ASSUME RInv, NEW p \in Proc, Publish(p)
  PROVE  Attempts!Revise(req[p].graph) /\ req[p].graph \in Graph
<1>1. leases' = leases /\ ledger' = ledger /\ current' = req[p].graph
  BY DEF Publish
<1>2. req[p].graph \in Graph
  BY DEF Publish, RInv, IInv, Asked, AskedOf
<1>3. ASSUME current # NoGraph PROVE Parent[req[p].graph] = current /\ Attempts!Running = {}
  <2>1. Parent[req[p].graph] = current /\ Active(leases) = {}
    BY <1>3 DEF Publish, RInv, IInv, Publishing
  <2>2. Attempts!Running \subseteq Task \X Attempt
    BY DEF Attempts!Running, Attempts!Pair
  <2> QED
    BY <2>1, <2>2, RunningLeased DEF RInv, IInv
<1> QED
  BY <1>1, <1>2, <1>3, SameFiles DEF Attempts!Revise

LEMMA AcquireGrants ==
  ASSUME RInv, NEW p \in Proc, Acquire(p), NEW k, k = req[p].key
  PROVE  /\ PairOf(k) \in Task \X Attempt
         /\ k.graph \in Graph
         /\ Attempts!Grant(PairOf(k), k.graph)
<1> DEFINE x == PairOf(k)
           n == [key |-> k, status |-> "active", proof |-> NoRecord]
<1>1. k \in Key
  BY DEF Acquire, Fenced, RInv, IInv, Asked, AskedOf
<1>2. x \in Task \X Attempt /\ k.graph \in Graph
  BY <1>1, PairType DEF Key
<1>3. /\ leases' = leases \cup {n}
      /\ SameAttempt(k, leases) = {}
      /\ ~Conflicts(k, leases)
  BY GrantChange DEF RInv, IInv
<1>4. ledger' = ledger /\ current' = current
  BY DEF Acquire, graphVars
<1>5. LeasesOf(x) = {} /\ LeasesOf(x)' = {n}
  BY <1>3 DEF LeasesOf, SameAttempt, PairOf
<1>6. ASSUME NEW y \in Task \X Attempt, y # x PROVE LeasesOf(y)' = LeasesOf(y)
  BY <1>2, <1>3, <1>6 DEF LeasesOf, PairOf
<1>7. GrantOf' = [GrantOf EXCEPT ![x] = k.graph]
  <2>1. GrantOf'[x] = k.graph
    <3>1. Only(LeasesOf(x)') = n
      BY <1>5 DEF Only
    <3> QED
      BY <1>2, <1>5, <3>1 DEF GrantOf
  <2>2. ASSUME NEW y \in Task \X Attempt, y # x PROVE GrantOf'[y] = GrantOf[y]
    BY <1>6, <2>2 DEF GrantOf
  <2>3. GrantOf = [y \in Task \X Attempt |-> GrantOf[y]]
        /\ GrantOf' = [y \in Task \X Attempt |-> GrantOf'[y]]
    BY DEF GrantOf
  <2> QED
    BY <2>1, <2>2, <2>3
<1>8. OutcomeOf' = OutcomeOf
  <2>1. \A r \in ledger : r.kind \in Terminal => KeyOf(r) # k
    BY <1>3 DEF RInv, OutcomesLeased, SameAttempt
  <2>2. OutcomesOf(x) = {} /\ OutcomesOf(x)' = {}
    BY <1>4, <1>5, <2>1 DEF OutcomesOf
  <2>3. ASSUME NEW y \in Task \X Attempt PROVE OutcomesOf(y)' = OutcomesOf(y)
    BY <1>4, <1>6, <2>2 DEF OutcomesOf
  <2> QED
    BY <2>3 DEF OutcomeOf
<1>9. Settled' = Settled
  <2>1. ASSUME NEW y \in Task \X Attempt
        PROVE  (\E l \in LeasesOf(y)' : l.status = "released")
                 <=> (\E l \in LeasesOf(y) : l.status = "released")
    BY <1>5, <1>6
  <2> QED
    BY <2>1 DEF Settled
<1>10. GrantOf[x] = NoGraph
  BY <1>2, <1>5 DEF GrantOf
<1>11. ASSUME NEW y \in Attempts!Running PROVE ~Attempts!Collide(x, k.graph, y, GrantOf[y])
  <2>1. y \in Task \X Attempt
    BY DEF Attempts!Running, Attempts!Pair
  <2>2. PICK l \in Active(leases) : PairOf(l.key) = y
    BY <2>1, RunningLeased DEF RInv, IInv
  <2>3. GrantOf[y] = l.key.graph
    BY <2>2, GrantedByLease DEF Active, RInv, IInv
  <2>4. <<ContractOf(k), ContractOf(l.key)>> \notin Conflict
    BY <1>3 DEF Conflicts
  <2> QED
    BY <2>2, <2>3, <2>4 DEF Attempts!Collide, ContractOf, PairOf
<1> QED
  BY <1>2, <1>4, <1>7, <1>8, <1>9, <1>10, <1>11 DEF Attempts!Grant

\* A record that is not terminal decides nothing.
LEMMA NoteDecidesNothing ==
  ASSUME RInv, NEW p \in Proc, Append(p), req[p].record.kind \notin Terminal
  PROVE  GrantOf' = GrantOf /\ OutcomeOf' = OutcomeOf /\ Settled' = Settled
<1>1. leases' = leases
  BY DEF Append
<1>2. ASSUME NEW y \in Task \X Attempt
      PROVE  LeasesOf(y)' = LeasesOf(y) /\ OutcomesOf(y)' = OutcomesOf(y)
  <2>1. \A r : r \in ledger' /\ r.kind \in Terminal <=> r \in ledger /\ r.kind \in Terminal
    BY AppendFresh DEF RInv, IInv
  <2> QED
    BY <1>1, <2>1 DEF LeasesOf, OutcomesOf
<1> QED
  BY <1>1, <1>2 DEF GrantOf, OutcomeOf, Settled

LEMMA AppendDecides ==
  ASSUME RInv, NEW p \in Proc, Append(p), NEW r, r = req[p].record, r.kind \in Terminal
  PROVE  /\ PairOf(KeyOf(r)) \in Task \X Attempt
         /\ Attempts!Decide(PairOf(KeyOf(r)), r.kind)
<1> DEFINE x == PairOf(KeyOf(r))
<1>1. leases' = leases /\ current' = current
  BY DEF Append, graphVars
<1>2. /\ ledger' = ledger \cup {r}
      /\ \A q \in ledger : q.kind \in Terminal => KeyOf(q) # KeyOf(r)
      /\ r.graph = current
  BY AppendFresh DEF RInv, IInv
<1>3. PICK l \in Active(leases) : l.key = KeyOf(r)
  BY AppendFresh DEF RInv, IInv
<1>4. l \in leases /\ l.key \in Key /\ x \in Task \X Attempt
  BY <1>3, PairType DEF Active, RInv, IInv, TypeOK, Lease
<1>5. LeasesOf(x) = {l} /\ GrantOf[x] = l.key.graph
  BY <1>3, <1>4, GrantedByLease DEF RInv, IInv
<1>6. x \in Attempts!Running
  BY <1>3, <1>4, RunningLeased DEF RInv, IInv
<1>7. GrantOf[x] = current
  BY <1>2, <1>3, <1>5 DEF KeyOf
<1>8. OutcomesOf(x) = {} /\ OutcomesOf(x)' = {r}
  <2>1. LeasesOf(x)' = {l}
    BY <1>1, <1>5 DEF LeasesOf
  <2> QED
    BY <1>2, <1>3, <1>5, <2>1 DEF OutcomesOf
<1>9. OutcomeOf[x] = Attempts!Undecided
  BY <1>4, <1>8 DEF OutcomeOf, Attempts!Undecided
<1>10. OutcomeOf' = [OutcomeOf EXCEPT ![x] = r.kind]
  <2>1. OutcomeOf'[x] = r.kind
    <3>1. Only(OutcomesOf(x)') = r
      BY <1>8 DEF Only
    <3> QED
      BY <1>4, <1>8, <3>1 DEF OutcomeOf
  <2>2. ASSUME NEW y \in Task \X Attempt, y # x PROVE OutcomesOf(y)' = OutcomesOf(y)
    <3>1. LeasesOf(y)' = LeasesOf(y)
      BY <1>1 DEF LeasesOf
    <3>2. \A m \in LeasesOf(y) : PairOf(m.key) = y
      BY <2>2 DEF LeasesOf, PairOf
    <3>3. \A m \in LeasesOf(y) : KeyOf(r) # m.key
      BY <2>2, <3>2
    <3> QED
      BY <1>2, <3>1, <3>3 DEF OutcomesOf
  <2>3. ASSUME NEW y \in Task \X Attempt, y # x PROVE OutcomeOf'[y] = OutcomeOf[y]
    BY <2>2, <2>3 DEF OutcomeOf
  <2>4. OutcomeOf = [y \in Task \X Attempt |-> OutcomeOf[y]]
        /\ OutcomeOf' = [y \in Task \X Attempt |-> OutcomeOf'[y]]
    BY DEF OutcomeOf
  <2> QED
    BY <2>1, <2>3, <2>4
<1>11. GrantOf' = GrantOf /\ Settled' = Settled
  <2>1. ASSUME NEW y \in Task \X Attempt PROVE LeasesOf(y)' = LeasesOf(y)
    BY <1>1 DEF LeasesOf
  <2> QED
    BY <2>1 DEF GrantOf, Settled
<1> QED
  BY <1>1, <1>4, <1>6, <1>7, <1>9, <1>10, <1>11 DEF Attempts!Decide

LEMMA ReleaseSettles ==
  ASSUME RInv, NEW p \in Proc, Release(p), NEW k, k = req[p].key
  PROVE  /\ PairOf(k) \in Task \X Attempt
         /\ Attempts!Settle(PairOf(k))
<1> DEFINE x == PairOf(k)
<1>1. ledger' = ledger /\ current' = current
  BY DEF Release, graphVars
<1>2. PICK l \in Active(leases) :
        /\ l.key = k
        /\ leases' = (leases \ {l}) \cup
             {[key |-> l.key, status |-> "released", proof |-> req[p].record]}
  BY ReleaseChange DEF RInv, IInv
<1>3. PICK r : /\ r = req[p].record
               /\ r \in ledger
               /\ r.kind \in Terminal
               /\ KeyOf(r) = k
  BY ReleaseChange DEF RInv, IInv, Backed
<1> DEFINE n == [key |-> l.key, status |-> "released", proof |-> r]
<1>4. l \in leases /\ l.key \in Key /\ x \in Task \X Attempt
  BY <1>2, PairType DEF Active, RInv, IInv, TypeOK, Lease
<1>5. x \in Attempts!Running
  BY <1>2, <1>4, RunningLeased DEF RInv, IInv
<1>6. LeasesOf(x) = {l}
  BY <1>2, <1>4, GrantedByLease DEF RInv, IInv
<1>7. LeasesOf(x)' = {n}
  <2>1. \A m \in leases : m.key.task = x[1] /\ m.key.attempt = x[2] => m = l
    BY <1>6 DEF LeasesOf
  <2>2. n.key.task = x[1] /\ n.key.attempt = x[2]
    BY <1>2 DEF PairOf
  <2>3. leases' = (leases \ {l}) \cup {n}
    BY <1>2, <1>3
  <2> QED
    BY <2>1, <2>2, <2>3 DEF LeasesOf
<1>8. ASSUME NEW y \in Task \X Attempt, y # x PROVE LeasesOf(y)' = LeasesOf(y)
  <2>1. ~(l.key.task = y[1] /\ l.key.attempt = y[2])
    BY <1>2, <1>8 DEF PairOf
  <2>2. ~(n.key.task = y[1] /\ n.key.attempt = y[2])
    BY <2>1
  <2>3. leases' = (leases \ {l}) \cup {n}
    BY <1>2, <1>3
  <2> QED
    BY <2>1, <2>2, <2>3 DEF LeasesOf
<1>9. OutcomeOf[x] # Attempts!Undecided
  <2>1. OutcomeOf[x] = r.kind
    BY <1>2, <1>3, <1>4, DecidedByRecord DEF RInv, IInv
  <2> QED
    BY <1>3, <2>1 DEF Attempts!Undecided, Terminal
<1>10. OutcomeOf' = OutcomeOf
  <2>1. ASSUME NEW y \in Task \X Attempt PROVE OutcomesOf(y)' = OutcomesOf(y)
    <3>1. CASE y = x
      <4>1. n.key = l.key
        OBVIOUS
      <4>2. \A q : (\E m \in LeasesOf(x)' : KeyOf(q) = m.key)
                    <=> (\E m \in LeasesOf(x) : KeyOf(q) = m.key)
        BY <1>6, <1>7, <4>1
      <4> QED
        BY <1>1, <3>1, <4>2 DEF OutcomesOf
    <3>2. CASE y # x
      BY <1>1, <1>8, <3>2 DEF OutcomesOf
    <3> QED
      BY <3>1, <3>2
  <2> QED
    BY <2>1 DEF OutcomeOf
<1>11. GrantOf' = GrantOf
  <2>1. ASSUME NEW y \in Task \X Attempt PROVE GrantOf'[y] = GrantOf[y]
    <3>1. CASE y = x
      <4>1. Only(LeasesOf(x)') = n /\ Only(LeasesOf(x)) = l
        BY <1>6, <1>7 DEF Only
      <4> QED
        BY <1>4, <1>6, <1>7, <3>1, <4>1 DEF GrantOf
    <3>2. CASE y # x
      BY <1>8, <3>2 DEF GrantOf
    <3> QED
      BY <3>1, <3>2
  <2>2. GrantOf = [y \in Task \X Attempt |-> GrantOf[y]]
        /\ GrantOf' = [y \in Task \X Attempt |-> GrantOf'[y]]
    BY DEF GrantOf
  <2> QED
    BY <2>1, <2>2
<1>12. Settled' = Settled \cup {x}
  <2>1. x \in Settled'
    <3>1. n \in LeasesOf(x)' /\ n.status = "released"
      BY <1>7
    <3> HIDE DEF n
    <3> QED
      BY <1>4, <3>1 DEF Settled
  <2>2. ASSUME NEW y \in Task \X Attempt, y # x PROVE y \in Settled' <=> y \in Settled
    BY <1>8, <2>2 DEF Settled
  <2>3. Settled \subseteq Task \X Attempt /\ Settled' \subseteq Task \X Attempt
    BY DEF Settled
  <2> QED
    BY <1>4, <2>1, <2>2, <2>3
<1> QED
  BY <1>1, <1>4, <1>5, <1>9, <1>10, <1>11, <1>12 DEF Attempts!Settle

-----------------------------------------------------------------------------
\* Every write of every Lead is a legal step of TaskAttempts, and everything
\* else a stutter, whatever the instance.
THEOREM TaskAttemptsImplemented == Spec => ImplementsTaskAttempts
<1>1. Init => Attempts!Init
  <2> SUFFICES ASSUME Init PROVE Attempts!Init
    OBVIOUS
  <2>1. \A x : LeasesOf(x) = {} /\ OutcomesOf(x) = {}
    BY DEF Init, LeasesOf, OutcomesOf
  <2> QED
    BY <2>1 DEF Init, GrantOf, OutcomeOf, Settled, Attempts!Init, Attempts!Pair,
                Attempts!Undecided
<1>2. RInv /\ [Next]_vars => [Attempts!Next]_<<current, GrantOf, OutcomeOf, Settled>>
  <2> SUFFICES ASSUME RInv, [Next]_vars
               PROVE  \/ Attempts!Next
                      \/ UNCHANGED <<current, GrantOf, OutcomeOf, Settled>>
    OBVIOUS
  <2>1. ASSUME NEW p \in Proc, Publish(p) PROVE Attempts!Next
    BY <2>1, PublishRevises DEF Attempts!Next
  <2>2. ASSUME NEW p \in Proc, Acquire(p) PROVE Attempts!Next
    BY <2>2, AcquireGrants DEF Attempts!Next, Attempts!Pair
  <2>3. ASSUME NEW p \in Proc, Append(p)
        PROVE  \/ Attempts!Next
               \/ UNCHANGED <<current, GrantOf, OutcomeOf, Settled>>
    <3>1. CASE req[p].record.kind \in Terminal
      BY <2>3, <3>1, AppendDecides DEF Attempts!Next, Attempts!Pair
    <3>2. CASE req[p].record.kind \notin Terminal
      BY <2>3, <3>2, NoteDecidesNothing DEF Append, graphVars
    <3> QED
      BY <3>1, <3>2
  <2>4. ASSUME NEW p \in Proc, Release(p) PROVE Attempts!Next
    BY <2>4, ReleaseSettles DEF Attempts!Next, Attempts!Pair
  <2>5. CASE leases' = leases /\ ledger' = ledger /\ current' = current
    BY <2>5, SameFiles
  <2> QED
    BY <2>1, <2>2, <2>3, <2>4, <2>5, LedgerChange, LeasesChange, GraphChange
<1> QED
  BY <1>1, <1>2, RInvKept, PTL DEF Spec, ImplementsTaskAttempts, Attempts!Spec, Attempts!vars

=============================================================================
