----------------------------- MODULE ModelBudget -----------------------------
(***************************************************************************)
(* The budget of expensive model calls of a run (core/routing/budget.mjs): *)
(* MODEL-BUDGET.json holds a limit, the stage attempts that have reserved  *)
(* a call and the user's receipts that raised the limit.                   *)
(*                                                                         *)
(* reserve and approveLimit load, decide and write under .model-budget.lock*)
(* and answer afterwards; verify, which a Lead calls right before it       *)
(* spawns the worker, reads without the lock.  The file is replaced        *)
(* atomically.  The lock of a process that stopped is reclaimed            *)
(* (AdvisoryLock is about that).                                           *)
(*                                                                         *)
(* An attempt is a stage and an attempt id; a route is everything else the *)
(* request's fingerprint covers, so a request, its fingerprint, its        *)
(* reservation and its authorization are the same pair.  Routes to models  *)
(* outside the budget return before anything is read and are left out.     *)
(***************************************************************************)
EXTENDS Integers, FiniteSets

CONSTANTS
  Proc,       \* processes of the Leads
  Mortal,     \* those that may stop at any step
  NoProc,     \* a free lock
  Attempt,    \* stage attempts
  Route,      \* routes to a budgeted model
  Receipt,    \* approvals the user has signed
  Initial,    \* initial limits callers may ask for
  PolicyDefault,
  NoRequest

Request == [attempt : Attempt, route : Route]

ASSUME BudgetAssumption ==
  /\ NoProc \notin Proc
  /\ PolicyDefault \in Nat
  /\ Initial \subseteq 1..PolicyDefault
  /\ \A t \in Receipt : t.from \in Nat /\ t.to \in Nat /\ t.to > t.from
  /\ NoRequest \notin Request /\ NoRequest \notin Receipt

VARIABLES
  store,     \* MODEL-BUDGET.json
  lock,      \* owner of .model-budget.lock
  stage,     \* where each process is
  req,       \* what it was asked
  view,      \* the store it loaded
  granted,   \* authorizations that reserve has returned
  spawned    \* requests that verify has let through

vars == <<store, lock, stage, req, view, granted, spawned>>

-----------------------------------------------------------------------------
Store == [initial : Initial, limit : Nat, reservations : SUBSET Request, approvals : SUBSET Receipt]

\* No file yet, or nothing loaded.
Missing == [initial |-> 0, limit |-> 0, reservations |-> {}, approvals |-> {}]

Stage == {"idle", "reserve", "approve", "decide", "judge", "reserved", "approved"}
Locked == {"decide", "judge", "reserved", "approved"}

TypeOK ==
  /\ store \in Store \cup {Missing}
  /\ lock \in Proc \cup {NoProc}
  /\ stage \in [Proc -> Stage]
  /\ req \in [Proc -> Request \cup Receipt \cup {NoRequest}]
  /\ view \in [Proc -> Store \cup {Missing}]
  /\ granted \subseteq Request
  /\ spawned \subseteq Request

Init ==
  /\ store = Missing
  /\ lock = NoProc
  /\ stage = [p \in Proc |-> "idle"]
  /\ req = [p \in Proc |-> NoRequest]
  /\ view = [p \in Proc |-> Missing]
  /\ granted = {}
  /\ spawned = {}

At(p, s) == stage[p] = s
GoTo(p, s) == stage' = [stage EXCEPT ![p] = s]

\* The operation ends, and with it the lock.
Finish(p) ==
  /\ GoTo(p, "idle")
  /\ req' = [req EXCEPT ![p] = NoRequest]
  /\ view' = [view EXCEPT ![p] = Missing]
  /\ lock' = NoProc

\* It ends without an authorization and leaves the file as it is.
Leave(p) == Finish(p) /\ UNCHANGED <<store, granted, spawned>>

-----------------------------------------------------------------------------
(* Calls and the lock. *)

Call(p, s, r) ==
  /\ At(p, "idle")
  /\ GoTo(p, s)
  /\ req' = [req EXCEPT ![p] = r]
  /\ UNCHANGED <<store, lock, view, granted, spawned>>

\* Nobody holds the lock, or who held it has stopped.
Free == \A q \in Proc : lock = q => stage[q] \notin Locked

New(n) == [initial |-> n, limit |-> n, reservations |-> {}, approvals |-> {}]

\* What a load under the lock returns: the file, or a new store with the limit
\* the caller asks for.
Loaded == IF store # Missing THEN {store} ELSE {New(n) : n \in Initial}

TakeLock(p) ==
  /\ Free
  /\ \/ At(p, "reserve") /\ GoTo(p, "decide")
     \/ At(p, "approve") /\ GoTo(p, "judge")
  /\ lock' = p
  /\ \E s \in Loaded : view' = [view EXCEPT ![p] = s]
  /\ UNCHANGED <<store, req, granted, spawned>>

LockTimeout(p) ==
  /\ stage[p] \in {"reserve", "approve"}
  /\ lock # NoProc
  /\ GoTo(p, "idle")
  /\ req' = [req EXCEPT ![p] = NoRequest]
  /\ UNCHANGED <<store, lock, view, granted, spawned>>

-----------------------------------------------------------------------------
(***************************************************************************)
(* reserve.  The same request again is answered again; another route for   *)
(* the same attempt is fenced; then the limit counts.                      *)
(***************************************************************************)
SameAttempt(p) == {r \in view[p].reservations : r.attempt = req[p].attempt}
\* Mutant of Exhausted: off by one.
ExhaustedLate(p) == Cardinality(view[p].reservations) > view[p].limit
Exhausted(p) == Cardinality(view[p].reservations) >= view[p].limit

\* reserve succeeds: the caller has the authorization.
Grant(p) == granted' = granted \cup {req[p]} /\ Finish(p)

Replay(p) ==
  /\ At(p, "decide")
  /\ req[p] \in SameAttempt(p)
  /\ Grant(p)
  /\ UNCHANGED <<store, spawned>>

\* Mutant of Refused: an exhausted budget refuses a replay as well.
RefusedReplay(p) == SameAttempt(p) \ {req[p]} # {} \/ Exhausted(p)

Refused(p) ==
  /\ req[p] \notin SameAttempt(p)
  /\ SameAttempt(p) # {} \/ Exhausted(p)

RefuseReserve(p) == At(p, "decide") /\ Refused(p) /\ Leave(p)

Reserve(p) ==
  /\ At(p, "decide")
  /\ SameAttempt(p) = {} /\ ~Exhausted(p)
  /\ store' = [view[p] EXCEPT !.reservations = @ \cup {req[p]}]
  /\ GoTo(p, "reserved")
  /\ UNCHANGED <<lock, req, view, granted, spawned>>

Answer(p) ==
  /\ At(p, "reserved")
  /\ Grant(p)
  /\ UNCHANGED <<store, spawned>>

-----------------------------------------------------------------------------
\* Mutant of SameReceipt: a receipt is recognised by its content only.
SameContent(p) == view[p].approvals \cap {req[p]}

(***************************************************************************)
(* approveLimit.  A receipt counts once, and only for the limit it was     *)
(* issued for.  A replay changes nothing and answers the same.             *)
(***************************************************************************)
SameReceipt(p) == {t \in view[p].approvals : t.id = req[p].id}

RefuseApprove(p) ==
  /\ At(p, "judge")
  /\ SameReceipt(p) # {} \/ req[p].from # view[p].limit
  /\ Leave(p)

Approve(p) ==
  /\ At(p, "judge")
  /\ SameReceipt(p) = {} /\ req[p].from = view[p].limit
  /\ store' = [view[p] EXCEPT !.limit = req[p].to, !.approvals = @ \cup {req[p]}]
  /\ GoTo(p, "approved")
  /\ UNCHANGED <<lock, req, view, granted, spawned>>

AnswerApprove(p) == At(p, "approved") /\ Leave(p)

-----------------------------------------------------------------------------
\* verify, without the lock: the caller holds the authorization and the store
\* has the same reservation.
Verify(r) ==
  /\ r \in granted
  /\ r \in store.reservations
  /\ spawned' = spawned \cup {r}
  /\ UNCHANGED <<store, lock, stage, req, view, granted>>

\* A file operation fails: before the file is replaced, or after it.
Fault(p) == stage[p] \in Locked /\ Leave(p)

\* A process stops and leaves its lock.
Stop(p) ==
  /\ p \in Mortal
  /\ ~At(p, "idle")
  /\ GoTo(p, "idle")
  /\ req' = [req EXCEPT ![p] = NoRequest]
  /\ view' = [view EXCEPT ![p] = Missing]
  /\ UNCHANGED <<store, lock, granted, spawned>>

Step(p) ==
  \/ TakeLock(p) \/ LockTimeout(p)
  \/ Replay(p) \/ RefuseReserve(p) \/ Reserve(p) \/ Answer(p)
  \/ RefuseApprove(p) \/ Approve(p) \/ AnswerApprove(p)
  \/ Fault(p) \/ Stop(p)

Next ==
  \/ \E p \in Proc :
       \/ \E r \in Request : Call(p, "reserve", r)
       \/ \E t \in Receipt : Call(p, "approve", t)
       \/ Step(p)
  \/ \E r \in Request : Verify(r)

Spec == Init /\ [][Next]_vars

-----------------------------------------------------------------------------
\* Whatever is retried, raced or broken off: no more workers are spawned than
\* the limit allows, each attempt with one route.
SpawnsWithinLimit ==
  /\ Cardinality(spawned) <= store.limit
  /\ \A r1, r2 \in spawned : r1.attempt = r2.attempt => r1 = r2

\* A caller that lost the answer gets it again: a request that is reserved is
\* never refused, also when the budget is exhausted.
ReservedAnswered ==
  \A p \in Proc : At(p, "decide") /\ req[p] \in store.reservations => ~Refused(p)

\* The store implements the allowance.
AL == INSTANCE Allowance WITH
  limit <- store.limit, charged <- store.reservations, used <- store.approvals
ImplementsAllowance == AL!Spec

=============================================================================
