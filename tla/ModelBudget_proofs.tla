-------------------------- MODULE ModelBudget_proofs --------------------------
(***************************************************************************)
(* Proofs about the model budget: for any number of processes, attempts,   *)
(* routes, receipts and limits, with processes stopping and operations     *)
(* failing at every step.                                                  *)
(*                                                                         *)
(* A process decides on the store it loaded (view) and writes it back      *)
(* whole.  The invariant says that it is still the file then (Fresh), that *)
(* what has been answered is in the file (Backed), and that the file keeps *)
(* the limit (Sound).                                                      *)
(***************************************************************************)
EXTENDS ModelBudget, FiniteSetTheorems, TLAPS

Exclusive ==
  \A p \in Proc :
    /\ stage[p] \in Locked => lock = p
    /\ stage[p] \in {"reserve", "decide", "reserved"} => req[p] \in Request
    /\ stage[p] \in {"approve", "judge"} => req[p] \in Receipt

Fresh ==
  \A p \in Proc :
    /\ stage[p] \in {"decide", "judge"} => view[p] \in Loaded
    /\ At(p, "reserved") => req[p] \in store.reservations

Backed == spawned \subseteq granted /\ granted \subseteq store.reservations

\* A store within its limit, with one route for each attempt.
SoundStore(s) ==
  /\ IsFiniteSet(s.reservations)
  /\ Cardinality(s.reservations) <= s.limit
  /\ \A r1, r2 \in s.reservations : r1.attempt = r2.attempt => r1 = r2

Sound == SoundStore(store) /\ (store # Missing => store.limit > 0)

IInv ==
  /\ TypeOK
  /\ Exclusive
  /\ Fresh
  /\ Backed
  /\ Sound

-----------------------------------------------------------------------------
(* Data. *)

LEMMA NewStore ==
  ASSUME NEW n \in Initial
  PROVE  New(n) \in Store /\ SoundStore(New(n)) /\ New(n).limit > 0
<1>1. n \in Nat /\ n > 0
  BY BudgetAssumption
<1>2. IsFiniteSet({}) /\ Cardinality({}) = 0
  BY FS_EmptySet
<1> QED
  BY <1>1, <1>2 DEF New, Store, SoundStore

\* What a load returns is a sound store with a positive limit, which has
\* everything the file has.
LEMMA LoadedStore ==
  ASSUME TypeOK, Sound, NEW s \in Loaded
  PROVE  /\ s \in Store /\ SoundStore(s) /\ s.limit > 0
         /\ store.reservations \subseteq s.reservations
<1>1. CASE store # Missing
  BY <1>1 DEF TypeOK, Sound, Loaded
<1>2. CASE store = Missing
  BY <1>2, NewStore DEF Loaded, Missing
<1> QED
  BY <1>1, <1>2

LEMMA ReservedStore ==
  ASSUME NEW s \in Store, SoundStore(s), s.limit > 0, NEW r \in Request,
         Cardinality(s.reservations) < s.limit,
         \A c \in s.reservations : c.attempt # r.attempt
  PROVE  LET t == [s EXCEPT !.reservations = @ \cup {r}]
         IN  /\ t \in Store /\ SoundStore(t) /\ t.limit = s.limit /\ t.approvals = s.approvals
             /\ t.reservations = s.reservations \cup {r}
             /\ t # Missing
<1> DEFINE t == [s EXCEPT !.reservations = @ \cup {r}]
<1>1. t \in Store /\ t.limit = s.limit /\ t.approvals = s.approvals
      /\ t.reservations = s.reservations \cup {r}
  BY DEF Store
<1>2. IsFiniteSet(s.reservations) /\ Cardinality(s.reservations) \in Nat
  BY FS_CardinalityType DEF SoundStore
<1>3. r \notin s.reservations
  OBVIOUS
<1>4. IsFiniteSet(t.reservations) /\ Cardinality(t.reservations) = Cardinality(s.reservations) + 1
  BY <1>1, <1>2, <1>3, FS_AddElement
<1>5. Cardinality(t.reservations) <= t.limit
  BY <1>1, <1>2, <1>4 DEF Store
<1>6. \A r1, r2 \in t.reservations : r1.attempt = r2.attempt => r1 = r2
  BY <1>1 DEF SoundStore
<1>7. t # Missing
  BY <1>1 DEF Missing
<1> QED
  BY <1>1, <1>4, <1>5, <1>6, <1>7 DEF SoundStore

LEMMA ApprovedStore ==
  ASSUME NEW s \in Store, SoundStore(s), s.limit > 0, NEW t \in Receipt, t.from = s.limit
  PROVE  LET u == [s EXCEPT !.limit = t.to, !.approvals = @ \cup {t}]
         IN  /\ u \in Store /\ SoundStore(u) /\ u.limit = t.to /\ u.limit > 0
             /\ u.reservations = s.reservations /\ u.approvals = s.approvals \cup {t}
             /\ u # Missing
<1> DEFINE u == [s EXCEPT !.limit = t.to, !.approvals = @ \cup {t}]
<1>1. t.from \in Nat /\ t.to \in Nat /\ t.to > t.from
  BY BudgetAssumption
<1>2. u \in Store /\ u.limit = t.to /\ u.reservations = s.reservations
      /\ u.approvals = s.approvals \cup {t}
  BY <1>1 DEF Store
<1>3. Cardinality(s.reservations) \in Nat
  BY FS_CardinalityType DEF SoundStore
<1>4. SoundStore(u) /\ u.limit > 0
  BY <1>1, <1>2, <1>3 DEF SoundStore
<1> QED
  BY <1>2, <1>4 DEF Missing

LEMMA FinishType ==
  ASSUME TypeOK, NEW p \in Proc, Finish(p)
  PROVE  /\ lock' \in Proc \cup {NoProc}
         /\ stage' \in [Proc -> Stage]
         /\ req' \in [Proc -> Request \cup Receipt \cup {NoRequest}]
         /\ view' \in [Proc -> Store \cup {Missing}]
  BY DEF TypeOK, Finish, GoTo, Stage

\* The holder of the lock is the only one under way; when it is done nobody is.
LEMMA FinishKeeps ==
  ASSUME TypeOK, Exclusive, NEW p \in Proc, stage[p] \in Locked, Finish(p)
  PROVE  Exclusive' /\ Fresh'
<1>1. ASSUME NEW q \in Proc
      PROVE  /\ stage'[q] \notin Locked
             /\ \/ stage'[q] = "idle"
                \/ stage'[q] = stage[q] /\ req'[q] = req[q]
  <2>1. CASE q = p
    <3>1. stage'[q] = "idle"
      BY <2>1 DEF TypeOK, Finish, GoTo
    <3> QED
      BY <3>1 DEF Locked
  <2>2. CASE q # p
    <3>1. stage'[q] = stage[q] /\ req'[q] = req[q]
      BY <2>2 DEF TypeOK, Finish, GoTo
    <3>2. stage[q] \notin Locked
      BY <2>2 DEF Exclusive
    <3> QED
      BY <3>1, <3>2
  <2> QED
    BY <2>1, <2>2
<1> QED
  BY <1>1 DEF Exclusive, Fresh, At, Locked

LEMMA LeaveKeeps ==
  ASSUME IInv, NEW p \in Proc, stage[p] \in Locked, Leave(p)
  PROVE  IInv'
<1>1. TypeOK'
  BY FinishType DEF IInv, TypeOK, Leave
<1>2. Exclusive' /\ Fresh'
  BY FinishKeeps DEF IInv, Leave
<1>3. Backed' /\ Sound'
  BY DEF IInv, Backed, Sound, SoundStore, Leave
<1> QED
  BY <1>1, <1>2, <1>3 DEF IInv

LEMMA GrantKeeps ==
  ASSUME IInv, NEW p \in Proc, stage[p] \in Locked, req[p] \in Request,
         req[p] \in store.reservations, Grant(p), UNCHANGED <<store, spawned>>
  PROVE  IInv'
<1>1. TypeOK'
  BY FinishType DEF IInv, TypeOK, Grant
<1>2. Exclusive' /\ Fresh'
  BY FinishKeeps DEF IInv, Grant
<1>3. Backed' /\ Sound'
  BY DEF IInv, Backed, Sound, SoundStore, Grant
<1> QED
  BY <1>1, <1>2, <1>3 DEF IInv

-----------------------------------------------------------------------------
(* Steps. *)

LEMMA CallKeeps ==
  ASSUME IInv, NEW p \in Proc, NEW s, NEW r,
         \/ s = "reserve" /\ r \in Request
         \/ s = "approve" /\ r \in Receipt,
         Call(p, s, r)
  PROVE  IInv'
<1>1. TypeOK'
  BY DEF IInv, TypeOK, Call, GoTo, Stage
<1>2. stage'[p] = s /\ req'[p] = r
  BY DEF IInv, TypeOK, Call, GoTo
<1>3. \A q \in Proc : q # p => stage'[q] = stage[q] /\ req'[q] = req[q]
  BY DEF IInv, TypeOK, Call, GoTo
<1>4. Exclusive'
  BY <1>2, <1>3 DEF IInv, Exclusive, Call, Locked
<1>5. Fresh'
  BY <1>2, <1>3 DEF IInv, Fresh, At, Loaded, Call
<1>6. Backed' /\ Sound'
  BY DEF IInv, Backed, Sound, SoundStore, Call
<1> QED
  BY <1>1, <1>4, <1>5, <1>6 DEF IInv

LEMMA TakeLockKeeps ==
  ASSUME IInv, NEW p \in Proc, TakeLock(p)
  PROVE  IInv'
<1>1. PICK s \in Loaded : view' = [view EXCEPT ![p] = s]
  BY DEF TakeLock
<1>2. s \in Store
  BY LoadedStore DEF IInv
<1>3. TypeOK'
  BY <1>1, <1>2 DEF IInv, TypeOK, TakeLock, GoTo, Stage
<1>4. /\ stage'[p] \in {"decide", "judge"} /\ view'[p] = s
      /\ stage'[p] = "decide" => stage[p] = "reserve"
      /\ stage'[p] = "judge" => stage[p] = "approve"
  BY <1>1 DEF IInv, TypeOK, TakeLock, At, GoTo
<1>5. ASSUME NEW q \in Proc, q # p
      PROVE  stage'[q] = stage[q] /\ stage[q] \notin Locked
  BY <1>5 DEF IInv, TypeOK, Exclusive, TakeLock, Free, GoTo
<1>6. Exclusive'
  BY <1>4, <1>5 DEF IInv, Exclusive, TakeLock
<1>7. Fresh'
  BY <1>1, <1>4, <1>5 DEF Fresh, At, Loaded, TakeLock, Locked
<1>8. Backed' /\ Sound'
  BY DEF IInv, Backed, Sound, SoundStore, TakeLock
<1> QED
  BY <1>3, <1>6, <1>7, <1>8 DEF IInv

\* A process gives up waiting, or stops anywhere.
LEMMA QuitKeeps ==
  ASSUME IInv, NEW p \in Proc, LockTimeout(p) \/ Stop(p)
  PROVE  IInv'
<1>1. TypeOK'
  BY DEF IInv, TypeOK, LockTimeout, Stop, GoTo, Stage
<1>2. stage'[p] = "idle"
  BY DEF IInv, TypeOK, LockTimeout, Stop, GoTo
<1>3. \A q \in Proc : q # p => stage'[q] = stage[q] /\ req'[q] = req[q] /\ view'[q] = view[q]
  BY DEF IInv, TypeOK, LockTimeout, Stop, GoTo
<1>4. Exclusive'
  BY <1>2, <1>3 DEF IInv, Exclusive, LockTimeout, Stop, Locked
<1>5. Fresh'
  BY <1>2, <1>3 DEF IInv, Fresh, At, Loaded, LockTimeout, Stop
<1>6. Backed' /\ Sound'
  BY DEF IInv, Backed, Sound, SoundStore, LockTimeout, Stop
<1> QED
  BY <1>1, <1>4, <1>5, <1>6 DEF IInv

LEMMA ReplayKeeps ==
  ASSUME IInv, NEW p \in Proc, Replay(p)
  PROVE  IInv'
<1>1. stage[p] \in Locked /\ req[p] \in Request /\ view[p] \in Loaded
  BY DEF IInv, Exclusive, Fresh, Replay, At, Locked
<1>2. req[p] \in view[p].reservations
  BY DEF Replay, SameAttempt
<1>3. req[p] \in store.reservations
  BY <1>1, <1>2 DEF Loaded, New
<1> QED
  BY <1>1, <1>3, GrantKeeps DEF IInv, Replay

LEMMA AnswerKeeps ==
  ASSUME IInv, NEW p \in Proc, Answer(p)
  PROVE  IInv'
  BY GrantKeeps DEF IInv, Exclusive, Fresh, Answer, At, Locked

\* What reserve has established when it writes.
LEMMA Reserving ==
  ASSUME IInv, NEW p \in Proc, Reserve(p)
  PROVE  /\ view[p] \in Loaded /\ view[p] \in Store /\ SoundStore(view[p])
         /\ view[p].limit > 0 /\ req[p] \in Request
         /\ store.reservations \subseteq view[p].reservations
         /\ Cardinality(view[p].reservations) < view[p].limit
         /\ \A c \in view[p].reservations : c.attempt # req[p].attempt
<1>1. view[p] \in Loaded /\ req[p] \in Request
  BY DEF IInv, Exclusive, Fresh, Reserve, At
<1>2. /\ view[p] \in Store /\ SoundStore(view[p]) /\ view[p].limit > 0
      /\ store.reservations \subseteq view[p].reservations
  BY <1>1, LoadedStore DEF IInv
<1>3. Cardinality(view[p].reservations) \in Nat /\ view[p].limit \in Nat
  BY <1>2, FS_CardinalityType DEF SoundStore, Store
<1>4. Cardinality(view[p].reservations) < view[p].limit
  BY <1>3 DEF Reserve, Exhausted
<1>5. \A c \in view[p].reservations : c.attempt # req[p].attempt
  BY DEF Reserve, SameAttempt
<1> QED
  BY <1>1, <1>2, <1>4, <1>5

LEMMA ReserveKeeps ==
  ASSUME IInv, NEW p \in Proc, Reserve(p)
  PROVE  IInv'
<1>1. /\ store' \in Store /\ SoundStore(store') /\ store'.limit > 0
      /\ store'.reservations = view[p].reservations \cup {req[p]}
  BY Reserving, ReservedStore DEF Reserve
<1>2. TypeOK'
  BY <1>1 DEF IInv, TypeOK, Reserve, GoTo, Stage
<1>3. stage'[p] = "reserved" /\ req[p] \in Request
  BY Reserving DEF IInv, TypeOK, Reserve, GoTo
<1>4. lock = p
  BY DEF IInv, Exclusive, Reserve, At, Locked
<1>5. ASSUME NEW q \in Proc, q # p
      PROVE  stage'[q] = stage[q] /\ stage[q] \notin Locked
  BY <1>4, <1>5 DEF IInv, TypeOK, Exclusive, Reserve, GoTo
<1>6. Exclusive'
  BY <1>3, <1>4, <1>5 DEF IInv, Exclusive, Reserve
<1>7. Fresh'
  BY <1>1, <1>3, <1>5 DEF Fresh, At, Reserve, Locked
<1>8. Backed'
  BY <1>1, Reserving DEF IInv, Backed, Reserve
<1>9. Sound'
  BY <1>1 DEF Sound, SoundStore
<1> QED
  BY <1>2, <1>6, <1>7, <1>8, <1>9 DEF IInv

LEMMA Approving ==
  ASSUME IInv, NEW p \in Proc, Approve(p)
  PROVE  /\ view[p] \in Loaded /\ view[p] \in Store /\ SoundStore(view[p])
         /\ view[p].limit > 0 /\ req[p] \in Receipt
         /\ store.reservations \subseteq view[p].reservations
         /\ req[p].from = view[p].limit
         /\ \A t \in view[p].approvals : t.id # req[p].id
<1>1. view[p] \in Loaded /\ req[p] \in Receipt
  BY DEF IInv, Exclusive, Fresh, Approve, At
<1> QED
  BY <1>1, LoadedStore DEF IInv, Approve, SameReceipt

LEMMA ApproveKeeps ==
  ASSUME IInv, NEW p \in Proc, Approve(p)
  PROVE  IInv'
<1>1. /\ store' \in Store /\ SoundStore(store') /\ store'.limit > 0
      /\ store'.reservations = view[p].reservations
  BY Approving, ApprovedStore DEF Approve
<1>2. TypeOK'
  BY <1>1 DEF IInv, TypeOK, Approve, GoTo, Stage
<1>3. stage'[p] = "approved"
  BY DEF IInv, TypeOK, Approve, GoTo
<1>4. lock = p
  BY DEF IInv, Exclusive, Approve, At, Locked
<1>5. ASSUME NEW q \in Proc, q # p
      PROVE  stage'[q] = stage[q] /\ stage[q] \notin Locked
  BY <1>4, <1>5 DEF IInv, TypeOK, Exclusive, Approve, GoTo
<1>6. Exclusive'
  BY <1>3, <1>4, <1>5 DEF IInv, Exclusive, Approve
<1>7. Fresh'
  BY <1>3, <1>5 DEF Fresh, At, Locked
<1>8. Backed'
  BY <1>1, Approving DEF IInv, Backed, Approve
<1>9. Sound'
  BY <1>1 DEF Sound, SoundStore
<1> QED
  BY <1>2, <1>6, <1>7, <1>8, <1>9 DEF IInv

LEMMA VerifyKeeps ==
  ASSUME IInv, NEW r \in Request, Verify(r)
  PROVE  IInv'
<1>1. TypeOK'
  BY DEF IInv, TypeOK, Verify
<1>2. Exclusive' /\ Fresh' /\ Backed' /\ Sound'
  BY DEF IInv, Exclusive, Fresh, At, Loaded, Backed, Sound, SoundStore, Verify
<1> QED
  BY <1>1, <1>2 DEF IInv

LEMMA InvInit == Init => IInv
<1> SUFFICES ASSUME Init PROVE IInv
  OBVIOUS
<1>1. TypeOK
  BY DEF Init, TypeOK, Stage
<1>2. Exclusive /\ Fresh /\ Backed
  BY DEF Init, Exclusive, Fresh, Backed, At, Locked
<1>3. Sound
  BY FS_EmptySet DEF Init, Sound, SoundStore, Missing
<1> QED
  BY <1>1, <1>2, <1>3 DEF IInv

LEMMA InvNext == IInv /\ [Next]_vars => IInv'
<1> SUFFICES ASSUME IInv, [Next]_vars PROVE IInv'
  OBVIOUS
<1>1. ASSUME NEW p \in Proc, NEW r \in Request, Call(p, "reserve", r) PROVE IInv'
  BY <1>1, CallKeeps
<1>2. ASSUME NEW p \in Proc, NEW t \in Receipt, Call(p, "approve", t) PROVE IInv'
  BY <1>2, CallKeeps
<1>3. ASSUME NEW p \in Proc, RefuseReserve(p) \/ RefuseApprove(p) \/ AnswerApprove(p) \/ Fault(p)
      PROVE  IInv'
  BY <1>3, LeaveKeeps DEF RefuseReserve, RefuseApprove, AnswerApprove, Fault, At, Locked
<1>4. ASSUME NEW p \in Proc, Step(p) PROVE IInv'
  BY <1>3, <1>4, TakeLockKeeps, QuitKeeps, ReplayKeeps, AnswerKeeps, ReserveKeeps,
     ApproveKeeps DEF Step
<1>5. ASSUME NEW r \in Request, Verify(r) PROVE IInv'
  BY <1>5, VerifyKeeps
<1>6. CASE UNCHANGED vars
  BY <1>6 DEF IInv, TypeOK, Exclusive, Fresh, At, Loaded, Backed, Sound, SoundStore, vars
<1> QED
  BY <1>1, <1>2, <1>4, <1>5, <1>6 DEF Next

\* What a process loaded under the lock is the file until it writes, and what it
\* has answered is in the file.
THEOREM BudgetInvariant == Spec => []IInv
  BY InvInit, InvNext, PTL DEF Spec

\* The file holds what the code can read back.
THEOREM TypeCorrect == Spec => []TypeOK
<1>1. IInv => TypeOK
  BY DEF IInv
<1> QED
  BY <1>1, BudgetInvariant, PTL

\* No more workers are spawned than the limit allows, each attempt with one
\* route.
THEOREM SpawnsBounded == Spec => []SpawnsWithinLimit
<1>1. IInv => SpawnsWithinLimit
  <2> SUFFICES ASSUME IInv PROVE SpawnsWithinLimit
    OBVIOUS
  <2>1. spawned \subseteq store.reservations /\ IsFiniteSet(store.reservations)
    BY DEF IInv, Backed, Sound, SoundStore
  <2>2. /\ Cardinality(spawned) \in Nat
        /\ Cardinality(store.reservations) \in Nat
        /\ Cardinality(spawned) <= Cardinality(store.reservations)
    BY <2>1, FS_Subset, FS_CardinalityType
  <2>3. store.limit \in Nat /\ Cardinality(store.reservations) <= store.limit
    BY DEF IInv, TypeOK, Store, Missing, Sound, SoundStore
  <2>4. Cardinality(spawned) <= store.limit
    BY <2>2, <2>3
  <2> QED
    BY <2>1, <2>4 DEF SpawnsWithinLimit, IInv, Sound, SoundStore
<1> QED
  BY <1>1, BudgetInvariant, PTL

\* A request that is reserved is never refused.
THEOREM ReplaysAnswered == Spec => []ReservedAnswered
<1>1. IInv => ReservedAnswered
  <2> SUFFICES ASSUME IInv, NEW p \in Proc, At(p, "decide"), req[p] \in store.reservations
               PROVE  ~Refused(p)
    BY DEF ReservedAnswered
  <2>1. store.reservations \subseteq view[p].reservations
    BY LoadedStore DEF IInv, Fresh, At
  <2> QED
    BY <2>1 DEF Refused, SameAttempt
<1> QED
  BY <1>1, BudgetInvariant, PTL

-----------------------------------------------------------------------------
(* The allowance. *)

\* The limit a loaded store starts from is one the allowance may start from.
LEMMA LoadedLimit ==
  ASSUME IInv, NEW s \in Loaded
  PROVE  /\ s.limit \in AL!Limits
         /\ s.reservations = store.reservations /\ s.approvals = store.approvals
<1>1. CASE store # Missing
  <2>1. s = store /\ store.limit > 0 /\ store.limit \in Nat
    BY <1>1 DEF IInv, TypeOK, Store, Sound, Loaded
  <2> QED
    BY <2>1 DEF AL!Limits
<1>2. CASE store = Missing
  BY <1>2 DEF AL!Limits, Loaded, New, Missing
<1> QED
  BY <1>1, <1>2

LEMMA SameCardinality == \A S : AL!Cardinality(S) = Cardinality(S)
  BY DEF AL!Cardinality, Cardinality

LEMMA AllowanceStep == IInv /\ [Next]_vars => [AL!Next]_AL!vars
<1> SUFFICES ASSUME IInv, [Next]_vars PROVE [AL!Next]_AL!vars
  OBVIOUS
<1>1. ASSUME NEW p \in Proc, Reserve(p) PROVE AL!Next
  <2> DEFINE r == req[p]
  <2>1. /\ view[p] \in Loaded /\ view[p] \in Store /\ SoundStore(view[p])
        /\ view[p].limit > 0 /\ r \in Request
        /\ Cardinality(view[p].reservations) < view[p].limit
        /\ \A c \in view[p].reservations : c.attempt # r.attempt
    BY <1>1, Reserving
  <2>2. /\ view[p].limit \in AL!Limits
        /\ view[p].reservations = store.reservations /\ view[p].approvals = store.approvals
    BY <2>1, LoadedLimit
  <2>3. /\ store'.limit = view[p].limit /\ store'.approvals = view[p].approvals
        /\ store'.reservations = view[p].reservations \cup {r}
    BY <1>1, <2>1, ReservedStore DEF Reserve
  <2>4. r.attempt \in Attempt /\ r.route \in Route
        /\ r = [attempt |-> r.attempt, route |-> r.route]
    BY <2>1 DEF Request
  <2>5. AL!Charge(r.attempt, r.route)
    BY <2>1, <2>2, <2>3, <2>4, SameCardinality DEF AL!Charge
  <2> QED
    BY <2>4, <2>5 DEF AL!Next
<1>2. ASSUME NEW p \in Proc, Approve(p) PROVE AL!Next
  <2> DEFINE t == req[p]
  <2>1. /\ view[p] \in Loaded /\ view[p] \in Store /\ SoundStore(view[p])
        /\ view[p].limit > 0 /\ t \in Receipt /\ t.from = view[p].limit
        /\ \A u \in view[p].approvals : u.id # t.id
    BY <1>2, Approving
  <2>2. /\ view[p].limit \in AL!Limits
        /\ view[p].reservations = store.reservations /\ view[p].approvals = store.approvals
    BY <2>1, LoadedLimit
  <2>3. /\ store'.limit = t.to /\ store'.reservations = view[p].reservations
        /\ store'.approvals = view[p].approvals \cup {t}
    BY <1>2, <2>1, ApprovedStore DEF Approve
  <2>4. AL!Raise(t)
    BY <2>1, <2>2, <2>3, BudgetAssumption DEF AL!Raise
  <2> QED
    BY <2>1, <2>4 DEF AL!Next
<1>3. CASE UNCHANGED store
  BY <1>3 DEF AL!vars
<1> QED
  BY <1>1, <1>2, <1>3 DEF Next, Step, Call, TakeLock, LockTimeout, Replay, RefuseReserve,
     Answer, RefuseApprove, AnswerApprove, Fault, Stop, Leave, Verify, vars

\* The store implements the allowance: attempts are charged once, within the
\* limit, and the limit is raised by receipts only.
THEOREM BudgetIsAllowance == Spec => ImplementsAllowance
<1>1. Init => AL!Init
  BY DEF Init, Missing, AL!Init
<1> QED
  BY <1>1, AllowanceStep, BudgetInvariant, PTL DEF Spec, ImplementsAllowance, AL!Spec

=============================================================================
