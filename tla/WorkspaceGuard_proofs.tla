------------------------ MODULE WorkspaceGuard_proofs ------------------------
(***************************************************************************)
(* Proofs about the current-workspace guard: for any number of processes,  *)
(* attempts, files and commits, with processes stopping and operations     *)
(* failing at every step.                                                  *)
(*                                                                         *)
(* An operation decides by what it read when it got the lock and writes    *)
(* several steps later.  The invariant says that what it read is still     *)
(* there (Underway), that only the holder of the lock is under way         *)
(* (Exclusive), and that a baseline once given to a worker stays that of   *)
(* the open guard until the attempt is completed (Baselines).              *)
(***************************************************************************)
EXTENDS WorkspaceGuard, TLAPS

Exclusive ==
  \A p \in Proc :
    /\ stage[p] \in Locked => lock = p
    /\ stage[p] # "idle" => key[p] \in Key

UnderwayOf(p) ==
  /\ stage[p] \in Beginning \ {"begun"} => ~Completed(key[p])
  /\ At(p, "create") => current = Missing
  /\ At(p, "unwritten") => current = Unwritten
  /\ stage[p] \in {"baseline", "activate", "rebaseline", "reactivate"} =>
       current = InitializingGuard(key[p])
  /\ stage[p] \in {"activate", "reactivate", "compare", "record", "release"} =>
       observed[p] \in Snapshot
  /\ stage[p] \in Completing \ {"checked"} => Own(p) /\ current.baseline # Nothing
  /\ At(p, "record") => ~Completed(key[p]) /\ ~Moved(p) /\ OutsideWrites(p) = {}
  /\ At(p, "release") => Completed(key[p])

Underway == \A p \in Proc : UnderwayOf(p)

Baselines ==
  /\ current.baseline # Nothing => start[current.key] = current.baseline
  /\ \A k \in Key : start[k] # Nothing /\ ~Completed(k) =>
       current.key = k /\ current.baseline # Nothing

IInv ==
  /\ TypeOK
  /\ Exclusive
  /\ Underway
  /\ Baselines
  /\ WritersOwn
  /\ CompletedWithin

-----------------------------------------------------------------------------
(* Data. *)

LEMMA NothingIsNoSnapshot == Nothing \notin Snapshot
  BY DEF Nothing, Snapshot

\* What current.json may be, and that only a guard past its initialization has
\* a baseline.
File == Guard \cup Initializing \cup {Missing, Unwritten}

LEMMA FileTypes ==
  ASSUME NEW k \in Key
  PROVE  /\ Missing \in File /\ Unwritten \in File
         /\ InitializingGuard(k) \in File
         /\ \A s \in Snapshot : ActiveGuard(k, s) \in File
  BY DEF File, Guard, Initializing, InitializingGuard, ActiveGuard

LEMMA BaselineGuard ==
  ASSUME NEW f \in File
  PROVE  /\ f.baseline # Nothing => f \in Guard /\ f.key \in Key /\ f.baseline \in Snapshot
         /\ f.key \in Key /\ f.status # "initializing" => f \in Guard /\ f.baseline # Nothing
  BY NothingIsNoSnapshot, GuardAssumption DEF File, Guard, Initializing, Missing, Unwritten

LEMMA BlockedGuard ==
  ASSUME NEW f \in File, f.baseline # Nothing,
         NEW s \in {"write-set-violation", "reconcile-required"}
  PROVE  /\ [f EXCEPT !.status = s] \in File
         /\ [f EXCEPT !.status = s].key = f.key
         /\ [f EXCEPT !.status = s].baseline = f.baseline
<1>1. f \in Guard
  BY BaselineGuard
<1> QED
  BY <1>1 DEF File, Guard

-----------------------------------------------------------------------------
(* What most steps have in common. *)

\* A process that does not hold the lock is at no stage Underway speaks of.
LEMMA Outside ==
  ASSUME NEW p \in Proc, stage[p] \notin Locked
  PROVE  UnderwayOf(p)
  BY DEF UnderwayOf, At, Locked, Beginning, Completing

LEMMA OutsideNext ==
  ASSUME NEW p \in Proc, stage'[p] \notin Locked
  PROVE  UnderwayOf(p)'
  BY DEF UnderwayOf, At, Locked, Beginning, Completing

\* The holder of the lock ends its operation, whatever it does to the files.
LEMMA FinishKeeps ==
  ASSUME TypeOK, Exclusive, NEW p \in Proc, stage[p] \in Locked, Finish(p)
  PROVE  Exclusive' /\ Underway'
<1>1. ASSUME NEW q \in Proc
      PROVE  stage'[q] \notin Locked /\ (stage'[q] # "idle" => key'[q] \in Key)
  BY <1>1 DEF TypeOK, Exclusive, Finish, Locked, Beginning, Completing
<1> QED
  BY <1>1, OutsideNext DEF Exclusive, Underway

\* The holder of the lock goes on to the next stage of its operation.
LEMMA GoToKeeps ==
  ASSUME TypeOK, Exclusive, NEW p \in Proc, stage[p] \in Locked,
         NEW s \in Locked, GoTo(p, s), UnderwayOf(p)'
  PROVE  Exclusive' /\ Underway'
<1>1. stage[p] # "idle" /\ lock' = lock /\ key' = key
  BY DEF GoTo, Locked, Beginning, Completing
<1>2. ASSUME NEW q \in Proc, q # p
      PROVE  stage'[q] = stage[q] /\ stage[q] \notin Locked
  BY <1>2 DEF TypeOK, Exclusive, GoTo
<1>3. Exclusive'
  BY <1>1, <1>2 DEF Exclusive
<1>4. ASSUME NEW q \in Proc PROVE UnderwayOf(q)'
  BY <1>2, OutsideNext
<1> QED
  BY <1>3, <1>4 DEF Underway

\* What the guard has decided depends on its files, permits and first snapshots.
LEMMA Quiet ==
  ASSUME Baselines, WritersOwn, CompletedWithin,
         UNCHANGED <<files, permit, start>>
  PROVE  Baselines' /\ WritersOwn' /\ CompletedWithin'
  BY DEF files, Baselines, WritersOwn, CompletedWithin, Completed, Changed

\* A guard without baseline may come, go and change while nobody has a permit.
LEMMA NoBaseline ==
  ASSUME Baselines, WritersOwn, CompletedWithin,
         current.baseline = Nothing, current'.baseline = Nothing,
         UNCHANGED <<history, permit, start>>
  PROVE  Baselines' /\ WritersOwn' /\ CompletedWithin'
  BY DEF Baselines, WritersOwn, CompletedWithin, Completed, Changed

LEMMA FinishType ==
  ASSUME TypeOK, NEW p \in Proc, Finish(p)
  PROVE  /\ lock' \in Proc \cup {NoProc}
         /\ stage' \in [Proc -> Stage]
         /\ key' \in [Proc -> Key \cup {NoKey}]
         /\ observed' \in [Proc -> Snapshot \cup {Nothing}]
  BY DEF TypeOK, Finish, Stage

LEMMA GoToType ==
  ASSUME TypeOK, NEW p \in Proc, NEW s \in Locked, GoTo(p, s)
  PROVE  /\ lock' \in Proc \cup {NoProc}
         /\ stage' \in [Proc -> Stage]
         /\ key' \in [Proc -> Key \cup {NoKey}]
  BY DEF TypeOK, GoTo, Stage

-----------------------------------------------------------------------------
(* Calls and the lock. *)

LEMMA RefuseKeeps ==
  ASSUME IInv, NEW p \in Proc, stage[p] \in Locked, Refuse(p)
  PROVE  IInv'
<1>1. TypeOK'
  BY FinishType DEF IInv, TypeOK, Refuse, files, others
<1>2. Exclusive' /\ Underway'
  BY FinishKeeps DEF IInv, Refuse
<1> QED
  BY <1>1, <1>2, Quiet DEF IInv, Refuse

LEMMA CallKeeps ==
  ASSUME IInv, NEW p \in Proc, NEW k \in Key, NEW s \in {"begin", "complete"},
         Call(p, k, s)
  PROVE  IInv'
<1>1. TypeOK'
  BY DEF IInv, TypeOK, Call, Stage, files, others
<1>2. \A q \in Proc : q # p => stage'[q] = stage[q] /\ key'[q] = key[q]
  BY DEF IInv, TypeOK, Call
<1>3. stage'[p] \notin Locked /\ key'[p] = k
  BY DEF IInv, TypeOK, Call, Locked, Beginning, Completing
<1>4. Exclusive'
  BY <1>2, <1>3 DEF IInv, Exclusive, Call
<1>5. ASSUME NEW q \in Proc PROVE UnderwayOf(q)'
  <2>1. CASE q = p
    BY <2>1, <1>3, OutsideNext
  <2>2. CASE q # p
    BY <2>2, <1>2 DEF IInv, Underway, UnderwayOf, At, Call, files, Completed,
       Own, Moved, OutsideWrites, Changed
  <2> QED
    BY <2>1, <2>2
<1> QED
  BY <1>1, <1>4, <1>5, Quiet DEF IInv, Underway, Call

\* Whoever stopped with the lock is no longer under way when it is taken.
LEMMA TakeLockKeeps ==
  ASSUME IInv, NEW p \in Proc, TakeLock(p)
  PROVE  IInv'
<1>1. TypeOK'
  BY DEF IInv, TypeOK, TakeLock, Stage, Locked, Beginning, Completing, files, others
<1>2. stage'[p] \in {"begun", "checked"} /\ key' = key /\ lock' = p
  BY DEF IInv, TypeOK, TakeLock
<1>3. ASSUME NEW q \in Proc, q # p
      PROVE  stage'[q] = stage[q] /\ stage[q] \notin Locked
  BY <1>3 DEF IInv, TypeOK, Exclusive, TakeLock, Free
<1>4. key[p] \in Key
  BY DEF IInv, Exclusive, TakeLock
<1>5. Exclusive'
  BY <1>2, <1>3, <1>4 DEF IInv, Exclusive
<1>6. UnderwayOf(p)'
  BY <1>2 DEF UnderwayOf, At, Beginning, Completing
<1>7. ASSUME NEW q \in Proc PROVE UnderwayOf(q)'
  BY <1>3, <1>6, OutsideNext
<1> QED
  BY <1>1, <1>5, <1>7, Quiet DEF IInv, Underway, TakeLock

\* A process leaves the waiting room, or stops anywhere; the rest stays.
LEMMA LeaveKeeps ==
  ASSUME IInv, NEW p \in Proc,
         stage' = [stage EXCEPT ![p] = "idle"],
         key' = [key EXCEPT ![p] = NoKey],
         observed' \in {observed, [observed EXCEPT ![p] = Nothing]},
         UNCHANGED <<files, repo, permit, lock, start, others>>
  PROVE  IInv'
<1>1. TypeOK'
  BY DEF IInv, TypeOK, Stage, files, others
<1>2. \A q \in Proc : q # p =>
        stage'[q] = stage[q] /\ key'[q] = key[q] /\ observed'[q] = observed[q]
  BY DEF IInv, TypeOK
<1>3. stage'[p] = "idle"
  BY DEF IInv, TypeOK
<1>4. Exclusive'
  BY <1>2, <1>3 DEF IInv, Exclusive, Locked, Beginning, Completing
<1>5. ASSUME NEW q \in Proc PROVE UnderwayOf(q)'
  <2>1. CASE q = p
    BY <2>1, <1>3, OutsideNext DEF Locked, Beginning, Completing
  <2>2. CASE q # p
    BY <2>2, <1>2 DEF IInv, Underway, UnderwayOf, At, files, Completed,
       Own, Moved, OutsideWrites, Changed
  <2> QED
    BY <2>1, <2>2
<1> QED
  BY <1>1, <1>4, <1>5, Quiet DEF IInv, Underway

-----------------------------------------------------------------------------
(* begin. *)

\* An attempt that is not completed has no first snapshot until its guard has
\* a baseline.
LEMMA NotStarted ==
  ASSUME Baselines, NEW k \in Key, ~Completed(k), current.baseline = Nothing
  PROVE  start[k] = Nothing
  BY DEF Baselines

LEMMA ReplayKeeps ==
  ASSUME IInv, NEW p \in Proc, Replay(p)
  PROVE  IInv'
<1>1. stage[p] \in Locked /\ key[p] \in Key /\ current \in File
  BY DEF IInv, TypeOK, Exclusive, Replay, At, Locked, Beginning, File
<1>2. current.key = key[p] /\ current.baseline # Nothing /\ current.baseline \in Snapshot
  BY <1>1, BaselineGuard DEF Replay, Own
<1>3. start[key[p]] = current.baseline
  BY <1>2 DEF IInv, Baselines
<1>4. start' = start
  BY <1>1, <1>2, <1>3 DEF IInv, TypeOK, Replay, Permit
<1>5. TypeOK'
  BY <1>1, <1>4, FinishType DEF IInv, TypeOK, Replay, Permit, files, others
<1>6. Exclusive' /\ Underway'
  BY <1>1, FinishKeeps DEF IInv, Replay, Permit
<1>7. Baselines' /\ CompletedWithin'
  BY <1>4 DEF IInv, Baselines, CompletedWithin, Completed, Changed, Replay, files
<1>8. WritersOwn'
  BY <1>2 DEF IInv, WritersOwn, Replay, Permit, files
<1> QED
  BY <1>5, <1>6, <1>7, <1>8 DEF IInv

LEMMA AdmitKeeps ==
  ASSUME IInv, NEW p \in Proc, Admit(p)
  PROVE  IInv'
<1>1. stage[p] \in Locked /\ key[p] \in Key /\ current \in File
  BY DEF IInv, TypeOK, Exclusive, Admit, At, Locked, Beginning, File
<1>2. PICK s \in {"create", "rebaseline"} :
        /\ GoTo(p, s)
        /\ s = "create" => current = Missing
        /\ s = "rebaseline" => Own(p) /\ current.status = "initializing"
  BY DEF Admit
<1>3. s \in Locked
  BY DEF Locked, Beginning
<1>4. TypeOK'
  BY <1>2, <1>3, GoToType DEF IInv, TypeOK, Admit, files, others
<1>5. s = "rebaseline" => current = InitializingGuard(key[p])
  BY <1>1, <1>2 DEF File, Guard, Initializing, Missing, Unwritten, InitializingGuard, Own
<1>6. stage'[p] = s /\ key' = key
  BY <1>2 DEF IInv, TypeOK, GoTo
<1>7. UnderwayOf(p)'
  BY <1>2, <1>5, <1>6 DEF UnderwayOf, At, Admit, Completing, Completed, files
<1>8. Exclusive' /\ Underway'
  BY <1>1, <1>2, <1>3, <1>7, GoToKeeps DEF IInv
<1> QED
  BY <1>4, <1>8, Quiet DEF IInv, Admit

LEMMA CreateKeeps ==
  ASSUME IInv, NEW p \in Proc, Create(p)
  PROVE  IInv'
<1>1. stage[p] \in Locked /\ "unwritten" \in Locked
  BY DEF Create, At, Locked, Beginning
<1>2. current = Missing /\ ~Completed(key[p])
  BY DEF IInv, Underway, UnderwayOf, Create, At, Beginning
<1>3. TypeOK'
  BY <1>1, GoToType DEF IInv, TypeOK, Create, others
<1>4. stage'[p] = "unwritten" /\ key' = key
  BY DEF IInv, TypeOK, Create, GoTo
<1>5. UnderwayOf(p)'
  BY <1>2, <1>4 DEF UnderwayOf, At, Create, Completing, Completed
<1>6. Exclusive' /\ Underway'
  BY <1>1, <1>5, GoToKeeps DEF IInv, Create
<1>7. Baselines' /\ WritersOwn' /\ CompletedWithin'
  BY <1>2, NoBaseline DEF IInv, Create, Missing, Unwritten
<1> QED
  BY <1>3, <1>6, <1>7 DEF IInv

LEMMA InitializeKeeps ==
  ASSUME IInv, NEW p \in Proc, Initialize(p)
  PROVE  IInv'
<1>1. stage[p] \in Locked /\ "baseline" \in Locked /\ key[p] \in Key
  BY DEF IInv, Exclusive, Initialize, At, Locked, Beginning
<1>2. current = Unwritten /\ ~Completed(key[p])
  BY DEF IInv, Underway, UnderwayOf, Initialize, At, Beginning
<1>3. InitializingGuard(key[p]) \in File
  BY <1>1, FileTypes
<1>4. TypeOK'
  BY <1>1, <1>3, GoToType DEF IInv, TypeOK, File, Initialize, others
<1>5. stage'[p] = "baseline" /\ key' = key
  BY DEF IInv, TypeOK, Initialize, GoTo
<1>6. UnderwayOf(p)'
  BY <1>2, <1>5 DEF UnderwayOf, At, Initialize, InitializingGuard, Completing, Completed
<1>7. Exclusive' /\ Underway'
  BY <1>1, <1>6, GoToKeeps DEF IInv, Initialize
<1>8. Baselines' /\ WritersOwn' /\ CompletedWithin'
  BY <1>2, NoBaseline DEF IInv, Initialize, InitializingGuard, Unwritten
<1> QED
  BY <1>4, <1>7, <1>8 DEF IInv

LEMMA BaselineKeeps ==
  ASSUME IInv, NEW p \in Proc, Baseline(p)
  PROVE  IInv'
<1>1. PICK s \in {"activate", "reactivate"} : GoTo(p, s)
  BY DEF Baseline
<1>2. stage[p] \in Locked /\ s \in Locked
  BY DEF Baseline, At, Locked, Beginning
<1>3. current = InitializingGuard(key[p]) /\ ~Completed(key[p])
  BY DEF IInv, Underway, UnderwayOf, Baseline, At, Beginning
<1>4. stage'[p] = s /\ key' = key /\ observed'[p] = repo /\ repo \in Snapshot
  BY <1>1 DEF IInv, TypeOK, Baseline, GoTo
<1>5. TypeOK'
  BY <1>1, <1>2, GoToType DEF IInv, TypeOK, Baseline, files, others
<1>6. UnderwayOf(p)'
  BY <1>3, <1>4 DEF UnderwayOf, At, Baseline, InitializingGuard, Completing, Completed, files
<1>7. Exclusive' /\ Underway'
  BY <1>1, <1>2, <1>6, GoToKeeps DEF IInv
<1> QED
  BY <1>5, <1>7, Quiet DEF IInv, Baseline

\* The one step that gives a guard its baseline: nobody had a permit.
LEMMA ActivateKeeps ==
  ASSUME IInv, NEW p \in Proc, Activate(p)
  PROVE  IInv'
<1>1. stage[p] \in Locked /\ key[p] \in Key /\ observed[p] \in Snapshot
  BY DEF IInv, Exclusive, Underway, UnderwayOf, Activate, Locked, Beginning
<1>2. current = InitializingGuard(key[p]) /\ ~Completed(key[p])
  BY DEF IInv, Underway, UnderwayOf, Activate, Beginning
<1>3. current.baseline = Nothing
  BY <1>2 DEF InitializingGuard
<1>4. permit = {}
  BY <1>3 DEF IInv, WritersOwn
<1>5. start' = [start EXCEPT ![key[p]] = observed[p]]
  BY <1>1, <1>2, <1>3, NotStarted DEF IInv, TypeOK, Activate, Permit
<1>6. current'.key = key[p] /\ current'.baseline = observed[p]
  BY DEF Activate, ActiveGuard
<1>7. current' \in File
  BY <1>1, FileTypes DEF Activate
<1>8. TypeOK'
  BY <1>1, <1>5, <1>7, FinishType DEF IInv, TypeOK, Activate, Permit, File, others
<1>9. Exclusive' /\ Underway'
  BY <1>1, FinishKeeps DEF IInv, Activate, Permit
<1>10. Baselines'
  <2>1. start'[key[p]] = observed[p]
    BY <1>1, <1>5 DEF IInv, TypeOK
  <2>2. ASSUME NEW k \in Key, start'[k] # Nothing, ~Completed(k)'
        PROVE  k = key[p]
    BY <2>2, <1>3, <1>5, NotStarted DEF IInv, TypeOK, Activate, Completed
  <2> QED
    BY <2>1, <2>2, <1>1, <1>6, NothingIsNoSnapshot DEF Baselines
<1>11. WritersOwn'
  BY <1>1, <1>4, <1>6, NothingIsNoSnapshot DEF WritersOwn, Activate, Permit
<1>12. CompletedWithin'
  BY <1>2, <1>5 DEF IInv, TypeOK, CompletedWithin, Completed, Changed, Activate
<1> QED
  BY <1>8, <1>9, <1>10, <1>11, <1>12 DEF IInv

-----------------------------------------------------------------------------
(* complete. *)

LEMMA ObserveKeeps ==
  ASSUME IInv, NEW p \in Proc, Observe(p)
  PROVE  IInv'
<1>1. stage[p] \in Locked /\ "compare" \in Locked /\ key[p] \in Key /\ current \in File
  BY DEF IInv, TypeOK, Exclusive, Observe, At, Locked, Completing, File
<1>2. Own(p) /\ current.baseline # Nothing
  BY <1>1, BaselineGuard DEF Observe, Own
<1>3. stage'[p] = "compare" /\ key' = key /\ observed'[p] = repo /\ repo \in Snapshot
  BY DEF IInv, TypeOK, Observe, GoTo
<1>4. TypeOK'
  BY <1>1, GoToType DEF IInv, TypeOK, Observe, files, others
<1>5. UnderwayOf(p)'
  BY <1>2, <1>3 DEF UnderwayOf, At, Observe, Own, Beginning, files
<1>6. Exclusive' /\ Underway'
  BY <1>1, <1>5, GoToKeeps DEF IInv, Observe
<1> QED
  BY <1>4, <1>6, Quiet DEF IInv, Observe

LEMMA BlockKeeps ==
  ASSUME IInv, NEW p \in Proc, Block(p)
  PROVE  IInv'
<1>1. stage[p] \in Locked /\ current \in File /\ current.baseline # Nothing
  BY DEF IInv, TypeOK, Underway, UnderwayOf, Block, At, Locked, Completing, File
<1>2. PICK s \in {"write-set-violation", "reconcile-required"} :
        current' = [current EXCEPT !.status = s]
  BY DEF Block
<1>3. current' \in File /\ current'.key = current.key /\ current'.baseline = current.baseline
  BY <1>1, <1>2, BlockedGuard
<1>4. TypeOK'
  BY <1>3, FinishType DEF IInv, TypeOK, Block, File, others
<1>5. Exclusive' /\ Underway'
  BY <1>1, FinishKeeps DEF IInv, Block
<1>6. Baselines' /\ WritersOwn' /\ CompletedWithin'
  BY <1>3 DEF IInv, Baselines, WritersOwn, CompletedWithin, Completed, Changed, Block
<1> QED
  BY <1>4, <1>5, <1>6 DEF IInv

LEMMA AcceptKeeps ==
  ASSUME IInv, NEW p \in Proc, Accept(p)
  PROVE  IInv'
<1>1. stage[p] \in Locked /\ {"record", "release"} \subseteq Locked
  BY DEF Accept, At, Locked, Completing
<1>2. Own(p) /\ current.baseline # Nothing /\ observed[p] \in Snapshot
  BY DEF IInv, Underway, UnderwayOf, Accept, At, Completing
<1>3. CASE Finish(p)
  <2>1. TypeOK'
    BY <1>3, FinishType DEF IInv, TypeOK, Accept, files, others
  <2>2. Exclusive' /\ Underway'
    BY <1>1, <1>3, FinishKeeps DEF IInv
  <2> QED
    BY <2>1, <2>2, Quiet DEF IInv, Accept
<1>4. ASSUME NEW s \in {"record", "release"}, GoTo(p, s), observed' = observed,
             s = "record" => ~Completed(key[p]),
             s = "release" => Completed(key[p])
      PROVE  IInv'
  <2>1. stage'[p] = s /\ key' = key
    BY <1>4 DEF IInv, TypeOK, GoTo
  <2>2. TypeOK'
    BY <1>1, <1>4, GoToType DEF IInv, TypeOK, Accept, files, others
  <2>3. UnderwayOf(p)'
    BY <1>2, <1>4, <2>1 DEF UnderwayOf, At, Accept, Own, Moved, OutsideWrites, Changed,
       Completed, Beginning, files
  <2>4. Exclusive' /\ Underway'
    BY <1>1, <1>4, <2>3, GoToKeeps DEF IInv
  <2> QED
    BY <2>2, <2>4, Quiet DEF IInv, Accept
<1>5. history[key[p]] = observed[p] => Completed(key[p])
  BY <1>2, NothingIsNoSnapshot DEF Completed
<1> QED
  BY <1>3, <1>4, <1>5 DEF Accept

\* The observation that is recorded was compared with the baseline of the open
\* guard, which is the first snapshot of the attempt.
LEMMA RecordKeeps ==
  ASSUME IInv, NEW p \in Proc, Record(p)
  PROVE  IInv'
<1>1. stage[p] \in Locked /\ "release" \in Locked /\ key[p] \in Key
  BY DEF IInv, Exclusive, Record, At, Locked, Completing
<1>2. /\ current.key = key[p] /\ current.baseline # Nothing
      /\ observed[p] \in Snapshot
      /\ ~Moved(p) /\ OutsideWrites(p) = {}
  BY DEF IInv, Underway, UnderwayOf, Own, Record, At, Completing
<1>3. start[key[p]] = current.baseline
  BY <1>2 DEF IInv, Baselines
<1>4. stage'[p] = "release" /\ key' = key /\ history'[key[p]] = observed[p]
  BY <1>1 DEF IInv, TypeOK, Record, GoTo
<1>5. TypeOK'
  BY <1>1, <1>2, GoToType DEF IInv, TypeOK, Record, others
<1>6. UnderwayOf(p)'
  BY <1>2, <1>4, NothingIsNoSnapshot DEF UnderwayOf, At, Record, Own, Completed, Beginning
<1>7. Exclusive' /\ Underway'
  BY <1>1, <1>6, GoToKeeps DEF IInv, Record
<1>8. \A k \in Key : k # key[p] => history'[k] = history[k]
  BY DEF IInv, TypeOK, Record
<1>9. CompletedWithin'
  <2>1. SUFFICES ASSUME NEW k \in Key, Completed(k)'
                 PROVE  /\ history'[k].head = start[k].head
                        /\ Changed(start[k], history'[k]) \subseteq Writes[k]
    BY DEF CompletedWithin, Record, Changed
  <2>2. CASE k = key[p]
    BY <2>2, <1>2, <1>3, <1>4 DEF Moved, OutsideWrites
  <2>3. CASE k # key[p]
    BY <2>1, <2>3, <1>8 DEF IInv, CompletedWithin, Completed
  <2> QED
    BY <2>2, <2>3
<1>10. Baselines' /\ WritersOwn'
  BY <1>2, <1>4, <1>8, NothingIsNoSnapshot DEF IInv, Baselines, WritersOwn, Completed, Record
<1> QED
  BY <1>5, <1>7, <1>9, <1>10 DEF IInv

LEMMA ReleaseKeeps ==
  ASSUME IInv, NEW p \in Proc, Release(p)
  PROVE  IInv'
<1>1. stage[p] \in Locked /\ key[p] \in Key
  BY DEF IInv, Exclusive, Release, At, Locked, Completing
<1>2. current.key = key[p] /\ Completed(key[p])
  BY DEF IInv, Underway, UnderwayOf, Own, Release, At, Completing
<1>3. TypeOK'
  BY FinishType DEF IInv, TypeOK, Release, others
<1>4. Exclusive' /\ Underway'
  BY <1>1, FinishKeeps DEF IInv, Release
<1>5. permit' = {}
  BY <1>2 DEF IInv, WritersOwn, Release
<1>6. Baselines' /\ WritersOwn'
  BY <1>2, <1>5 DEF IInv, Baselines, WritersOwn, Completed, Release, Missing
<1>7. CompletedWithin'
  BY DEF IInv, CompletedWithin, Completed, Changed, Release
<1> QED
  BY <1>3, <1>4, <1>6, <1>7 DEF IInv

LEMMA FaultKeeps ==
  ASSUME IInv, NEW p \in Proc, Fault(p)
  PROVE  IInv'
<1>1. stage[p] \in Locked
  BY DEF Fault
<1>2. Exclusive' /\ Underway'
  BY <1>1, FinishKeeps DEF IInv, Fault
<1>3. TypeOK'
  BY FinishType DEF IInv, TypeOK, Fault, others
<1>4. CASE UNCHANGED current
  BY <1>2, <1>3, <1>4, Quiet DEF IInv, Fault, files
<1>5. CASE stage[p] \in {"baseline", "activate"} /\ current' = Missing
  <2>1. current.baseline = Nothing /\ current'.baseline = Nothing
    BY <1>5 DEF IInv, Underway, UnderwayOf, InitializingGuard, Missing
  <2> QED
    BY <1>2, <1>3, <2>1, NoBaseline DEF IInv, Fault
<1> QED
  BY <1>4, <1>5 DEF Fault

-----------------------------------------------------------------------------
(* Around the guard. *)

\* Neither leases nor what anybody does to the repository matter to the guard.
LEMMA AroundKeeps ==
  ASSUME IInv, TypeOK', UNCHANGED <<files, permit, lock, stage, key, observed, start>>
  PROVE  IInv'
<1>1. Exclusive' /\ Underway'
  BY DEF IInv, Exclusive, Underway, UnderwayOf, At, Own, Moved, OutsideWrites, Changed,
     Completed, files
<1> QED
  BY <1>1, Quiet DEF IInv

LEMMA InvInit == Init => IInv
<1> SUFFICES ASSUME Init PROVE IInv
  OBVIOUS
<1>1. TypeOK
  BY GuardAssumption DEF Init, TypeOK, Snapshot, Stage
<1>2. Exclusive /\ Underway
  BY Outside DEF Init, Exclusive, Underway, Locked, Beginning, Completing
<1>3. Baselines /\ WritersOwn /\ CompletedWithin
  BY DEF Init, Baselines, WritersOwn, CompletedWithin, Completed, Missing
<1> QED
  BY <1>1, <1>2, <1>3 DEF IInv

LEMMA InvNext == IInv /\ [Next]_vars => IInv'
<1> SUFFICES ASSUME IInv, [Next]_vars PROVE IInv'
  OBVIOUS
<1>1. ASSUME NEW p \in Proc, NEW k \in Key, NEW s \in {"begin", "complete"}, Call(p, k, s)
      PROVE  IInv'
  BY <1>1, CallKeeps
<1>2. ASSUME NEW p \in Proc, TakeLock(p) PROVE IInv'
  BY <1>2, TakeLockKeeps
<1>3. ASSUME NEW p \in Proc, LockTimeout(p) \/ Stop(p) PROVE IInv'
  <2>1. observed' \in {observed, [observed EXCEPT ![p] = Nothing]}
    BY <1>3 DEF LockTimeout, Stop
  <2> QED
    BY <1>3, <2>1, LeaveKeeps DEF LockTimeout, Stop
<1>4. ASSUME NEW p \in Proc, Begin(p) PROVE IInv'
  <2>1. CASE RefuseBegin(p)
    BY <2>1, RefuseKeeps DEF RefuseBegin, At, Locked, Beginning
  <2> QED
    BY <1>4, <2>1, ReplayKeeps, AdmitKeeps, CreateKeeps, InitializeKeeps, BaselineKeeps,
       ActivateKeeps DEF Begin
<1>5. ASSUME NEW p \in Proc, Complete(p) PROVE IInv'
  <2>1. CASE AnswerComplete(p)
    BY <2>1, RefuseKeeps DEF AnswerComplete, At, Locked, Completing
  <2> QED
    BY <1>5, <2>1, ObserveKeeps, BlockKeeps, AcceptKeeps, RecordKeeps, ReleaseKeeps DEF Complete
<1>6. ASSUME NEW p \in Proc, Fault(p) PROVE IInv'
  BY <1>6, FaultKeeps
<1>7. ASSUME NEW k \in Key, Lease(k) PROVE IInv'
  <2>1. TypeOK'
    BY <1>7 DEF IInv, TypeOK, Lease, files
  <2> QED
    BY <1>7, <2>1, AroundKeeps DEF Lease
<1>8. ASSUME NEW k \in Key, NEW x \in Path, NEW v \in Value, Work(k, x, v) PROVE IInv'
  <2>1. repo' \in Snapshot
    BY <1>8 DEF IInv, TypeOK, Work, Snapshot
  <2>2. TypeOK'
    BY <1>8, <2>1 DEF IInv, TypeOK, Work, files, others
  <2> QED
    BY <1>8, <2>2, AroundKeeps DEF Work
<1>9. ASSUME Interfere PROVE IInv'
  <2>1. repo' \in Snapshot /\ edits' \in 0..MaxEdits
    BY <1>9, GuardAssumption DEF IInv, TypeOK, Interfere, Snapshot
  <2>2. TypeOK'
    BY <1>9, <2>1 DEF IInv, TypeOK, Interfere, files
  <2> QED
    BY <1>9, <2>2, AroundKeeps DEF Interfere
<1>10. CASE UNCHANGED vars
  <2>1. TypeOK'
    BY <1>10 DEF IInv, TypeOK, vars
  <2> QED
    BY <1>10, <2>1, AroundKeeps DEF vars, files
<1> QED
  BY <1>1, <1>2, <1>3, <1>4, <1>5, <1>6, <1>7, <1>8, <1>9, <1>10 DEF Next

\* The guard's files, locks and permits are what the code expects of them, and
\* what an operation has read under the lock is still there when it writes.
THEOREM GuardInvariant == Spec => []IInv
  BY InvInit, InvNext, PTL DEF Spec

\* The files hold what the code can read back.
THEOREM TypeCorrect == Spec => []TypeOK
<1>1. IInv => TypeOK
  BY DEF IInv
<1> QED
  BY <1>1, GuardInvariant, PTL

\* A spawned worker has the one guard of the repository.
THEOREM WritersOwnTheGuard == Spec => []WritersOwn
<1>1. IInv => WritersOwn
  BY DEF IInv
<1> QED
  BY <1>1, GuardInvariant, PTL

\* A completed attempt changed nothing outside its write set, however often its
\* guard was replayed or recovered.
THEOREM CompletedAttemptsWithin == Spec => []CompletedWithin
<1>1. IInv => CompletedWithin
  BY DEF IInv
<1> QED
  BY <1>1, GuardInvariant, PTL

-----------------------------------------------------------------------------
(* Steps. *)

\* Only Record changes a result, and only that of an attempt that has none.
LEMMA HistoryStep ==
  ASSUME IInv, [Next]_vars
  PROVE  \/ history' = history
         \/ \E p \in Proc : Record(p) /\ ~Completed(key[p]) /\ Own(p) /\ key[p] \in Key
<1>1. ASSUME NEW p \in Proc, Record(p)
      PROVE  ~Completed(key[p]) /\ Own(p) /\ key[p] \in Key
  BY <1>1 DEF IInv, Exclusive, Underway, UnderwayOf, Record, At, Completing
<1>2. ASSUME NEW p \in Proc, Begin(p) PROVE history' = history
  BY <1>2 DEF Begin, RefuseBegin, Refuse, Replay, Admit, Create, Initialize, Baseline,
     Activate, files
<1>3. ASSUME NEW p \in Proc, Complete(p), ~Record(p) PROVE history' = history
  BY <1>3 DEF Complete, AnswerComplete, Refuse, Observe, Block, Accept, Release, files
<1> QED
  BY <1>1, <1>2, <1>3 DEF Next, vars, files, Call, TakeLock, LockTimeout, Fault, Stop,
     Lease, Work, Interfere

\* The result of an attempt is written once.
THEOREM ResultsFinal == Spec => ResultFinal
<1>1. IInv /\ [Next]_vars => [\A k \in Key : Completed(k) => history'[k] = history[k]]_history
  <2>1. SUFFICES ASSUME IInv, [Next]_vars, NEW p \in Proc, Record(p), ~Completed(key[p]),
                        NEW k \in Key, Completed(k)
                 PROVE  history'[k] = history[k]
    BY HistoryStep
  <2> QED
    BY <2>1 DEF IInv, TypeOK, Record
<1> QED
  BY <1>1, GuardInvariant, PTL DEF Spec, ResultFinal

Owner == IF current.baseline # Nothing THEN current.key ELSE NoKey

\* What the single writer sees of a step, by what happens to the guard.
LEMMA Unseen ==
  ASSUME history' = history,
         current' = current \/ (current.baseline = Nothing /\ current'.baseline = Nothing)
  PROVE  Owner' = Owner /\ Closed' = Closed
  BY DEF Owner, Closed, Completed

LEMMA BeginSeen ==
  ASSUME IInv, NEW p \in Proc, Begin(p)
  PROVE  \/ Owner' = Owner /\ Closed' = Closed
         \/ \E k \in Key : Owner = NoKey /\ k \notin Closed /\ Owner' = k /\ Closed' = Closed
<1>1. CASE RefuseBegin(p) \/ Replay(p) \/ Admit(p) \/ Baseline(p)
  BY <1>1, Unseen DEF RefuseBegin, Refuse, Replay, Admit, Baseline, files
<1>2. CASE Create(p)
  <2>1. current = Missing
    BY <1>2 DEF IInv, Underway, UnderwayOf, Create
  <2> QED
    BY <1>2, <2>1, Unseen DEF Create, Missing, Unwritten
<1>3. CASE Initialize(p)
  <2>1. current = Unwritten
    BY <1>3 DEF IInv, Underway, UnderwayOf, Initialize
  <2> QED
    BY <1>3, <2>1, Unseen DEF Initialize, InitializingGuard, Unwritten
<1>4. CASE Activate(p)
  <2>1. key[p] \in Key /\ observed[p] \in Snapshot
    BY <1>4 DEF IInv, Exclusive, Underway, UnderwayOf, Activate
  <2>2. current = InitializingGuard(key[p]) /\ ~Completed(key[p])
    BY <1>4 DEF IInv, Underway, UnderwayOf, Activate, Beginning
  <2>3. Owner = NoKey /\ Owner' = key[p]
    BY <1>4, <2>1, <2>2, NothingIsNoSnapshot DEF Owner, Activate, ActiveGuard, InitializingGuard
  <2>4. key[p] \notin Closed /\ Closed' = Closed
    BY <1>4, <2>2 DEF Closed, Completed, Activate
  <2> QED
    BY <2>1, <2>3, <2>4
<1> QED
  BY <1>1, <1>2, <1>3, <1>4 DEF Begin

LEMMA CompleteSeen ==
  ASSUME IInv, NEW p \in Proc, Complete(p)
  PROVE  \/ Owner' = Owner /\ Closed' = Closed
         \/ Owner # NoKey /\ Closed' = Closed \cup {Owner} /\ Owner' = Owner
         \/ Owner \in Closed /\ Owner' = NoKey /\ Closed' = Closed
<1>1. CASE AnswerComplete(p) \/ Observe(p) \/ Accept(p)
  BY <1>1, Unseen DEF AnswerComplete, Refuse, Observe, Accept, files
<1>2. CASE Block(p)
  <2>1. current \in File /\ current.baseline # Nothing
    BY <1>2 DEF IInv, TypeOK, Underway, UnderwayOf, Block, At, Completing, File
  <2>2. PICK s \in {"write-set-violation", "reconcile-required"} :
          current' = [current EXCEPT !.status = s]
    BY <1>2 DEF Block
  <2>3. current'.key = current.key /\ current'.baseline = current.baseline
    BY <2>1, <2>2, BlockedGuard
  <2> QED
    BY <1>2, <2>3 DEF Owner, Closed, Completed, Block
<1>3. CASE Record(p) \/ Release(p)
  <2>1. key[p] \in Key /\ current.key = key[p] /\ current.baseline # Nothing
    BY <1>3 DEF IInv, Exclusive, Underway, UnderwayOf, Own, Record, Release, At, Completing
  <2>2. Owner = key[p] /\ Owner # NoKey
    BY <2>1, GuardAssumption DEF Owner
  <2>3. CASE Record(p)
    <3>1. observed[p] \in Snapshot
      BY <2>3 DEF IInv, Underway, UnderwayOf, Record, At
    <3>2. Owner' = Owner
      BY <2>3 DEF Owner, Record
    <3>3. Closed' = Closed \cup {key[p]}
      BY <2>1, <2>3, <3>1, NothingIsNoSnapshot DEF IInv, TypeOK, Closed, Completed, Record
    <3> QED
      BY <2>2, <3>2, <3>3
  <2>4. CASE Release(p)
    <3>1. Owner \in Closed
      BY <2>1, <2>2, <2>4 DEF IInv, Underway, UnderwayOf, Closed, Release
    <3>2. Owner' = NoKey /\ Closed' = Closed
      BY <2>4 DEF Owner, Closed, Completed, Release, Missing
    <3> QED
      BY <3>1, <3>2
  <2> QED
    BY <1>3, <2>3, <2>4
<1> QED
  BY <1>1, <1>2, <1>3 DEF Complete

LEMMA SingleWriterInit == Init => SW!Init
  BY DEF Init, SW!Init, Missing, Closed, Completed

LEMMA SingleWriterNext == IInv /\ [Next]_vars => [SW!Next]_SW!vars
<1> SUFFICES ASSUME IInv, [Next]_vars PROVE [SW!Next]_SW!vars
  OBVIOUS
<1>1. ASSUME NEW p \in Proc, Begin(p) PROVE [SW!Next]_SW!vars
  BY <1>1, BeginSeen DEF Owner, SW!Next, SW!Open, SW!vars
<1>2. ASSUME NEW p \in Proc, Complete(p) PROVE [SW!Next]_SW!vars
  BY <1>2, CompleteSeen DEF Owner, SW!Next, SW!Deliver, SW!Leave, SW!vars
<1>3. ASSUME NEW p \in Proc, Fault(p) PROVE [SW!Next]_SW!vars
  <2>1. CASE UNCHANGED current
    BY <1>3, <2>1, Unseen DEF Fault, Owner, SW!vars
  <2>2. CASE stage[p] \in {"baseline", "activate"} /\ current' = Missing
    <3>1. current.baseline = Nothing /\ current'.baseline = Nothing
      BY <2>2 DEF IInv, Underway, UnderwayOf, InitializingGuard, Missing
    <3> QED
      BY <1>3, <3>1, Unseen DEF Fault, Owner, SW!vars
  <2> QED
    BY <1>3, <2>1, <2>2 DEF Fault
<1>4. CASE UNCHANGED files
  BY <1>4, Unseen DEF files, Owner, SW!vars
<1> QED
  BY <1>1, <1>2, <1>3, <1>4 DEF Next, vars, files, Call, TakeLock, LockTimeout, Stop, Lease,
     Work, Interfere

\* The guard implements the single writer of the repository.
THEOREM GuardIsSingleWriter == Spec => ImplementsSingleWriter
  BY SingleWriterInit, SingleWriterNext, GuardInvariant, PTL DEF Spec, ImplementsSingleWriter, SW!Spec

=============================================================================
