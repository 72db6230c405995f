--------------------------- MODULE IntegrationQueue ---------------------------
(***************************************************************************)
(* The durable integration queue of core/worktree: the patches of a wave   *)
(* are applied to the main workspace one by one, in task order, and a      *)
(* journal under the Git directory records what was done:                  *)
(*                                                                         *)
(*   .git/hybrid/integration/<queue-id>.json     one journal per queue     *)
(*   .git/hybrid/integration/<queue-id>.json.lock                          *)
(*                                                                         *)
(* The journal is replaced atomically.  The workspace is not: git apply,   *)
(* git reset and git clean write file by file, and a stop in the middle    *)
(* leaves a patch torn.  A workspace hash stands for its content, so it is *)
(* modelled as the content.  The lock of a stopped process is reclaimed at *)
(* once, because its pid is dead (AdvisoryLock is about that protocol; git *)
(* commands are taken to stop with the process that runs them).            *)
(*                                                                         *)
(* A step is one git command, or one hash of the workspace with the        *)
(* journal write that follows it.                                          *)
(***************************************************************************)
EXTENDS Naturals, Sequences

CONSTANTS
  Proc,       \* processes that integrate or look up integrations
  Mortal,     \* those that may stop at any step
  NoProc,     \* a free lock
  Queue,      \* queue ids
  Patch,      \* patches; one per task attempt
  Order,      \* the patches of each queue, in task order
  Adds,       \* patches that only add files: untracked once applied
  Hand,       \* an edit of tracked files that no queue made
  Clashes,    \* the conflict relations to consider
  FaultSets,  \* the sets of stages to consider at which a command may fail
  MaxEdits    \* how often somebody else touches the repository

PatchesOf(q) == {Order[q][i] : i \in DOMAIN Order[q]}

ASSUME OrderAssumption == Order \in [Queue -> Seq(Patch) \ {<<>>}]
ASSUME DisjointAssumption ==
  \A q, r \in Queue : q # r => PatchesOf(q) \cap PatchesOf(r) = {}
\* A wave with two results of one task is refused (orderedIntegrationResults).
ASSUME DistinctAssumption ==
  \A q \in Queue : \A i, k \in DOMAIN Order[q] : Order[q][i] = Order[q][k] => i = k
ASSUME QueueAssumption == Queue # {}
ASSUME NamesAssumption == Hand \notin Patch /\ NoProc \notin Proc /\ Adds \subseteq Patch
ASSUME EditsAssumption == MaxEdits \in Nat

VARIABLES
  clash,     \* which contents do not fit together (never changes)
  faults,    \* the stages at which a command may fail (never changes)
  journal,   \* the journal file of each queue
  ws,        \* the main workspace against HEAD: its diff and untracked files
  moved,     \* HEAD is no longer the base commit
  lock,      \* owner of each queue's lock
  stage,     \* where each process is
  op,        \* its operation: the queue it works on or the patch it looks up,
             \* the workspace hash it holds, why it rolls back
  answer,    \* how its last operation ended
  edits      \* how often somebody else touched the repository

vars == <<clash, faults, journal, ws, moved, lock, stage, op, answer, edits>>
rigid == <<clash, faults>>

-----------------------------------------------------------------------------
(***************************************************************************)
(* The workspace.                                                          *)
(***************************************************************************)
Content == Patch \cup {Hand}
Workspace == [whole : SUBSET Content, torn : SUBSET Patch]
Clean == [whole |-> {}, torn |-> {}]

Present(w) == w.whole \cup w.torn
Clashing(x, y) == <<x, y>> \in clash \/ <<y, x>> \in clash

\* git apply --check: the patch still applies to what is there.
Fits(w, x) == x \notin Present(w) /\ \A y \in Present(w) : ~Clashing(x, y)

\* Mutant of Reverses: anything of the patch will do.
ReversesTorn(w, x) == x \in Present(w)
\* git apply --reverse --check: the patch is there and can be taken out.
Reverses(w, x) == x \in w.whole /\ \A y \in Present(w) : ~Clashing(x, y)

Added(w, x) == [w EXCEPT !.whole = @ \cup {x}]
Torn(w, x) == [w EXCEPT !.torn = @ \cup {x}]
Without(w, S) == [whole |-> w.whole \ S, torn |-> w.torn \ S]

\* What an interrupted removal of the contents S can leave.
Interrupted(w, S) ==
  {[whole |-> w.whole \ gone, torn |-> (w.torn \ lost) \cup half] :
     gone \in SUBSET (w.whole \cap S), lost \in SUBSET (w.torn \cap S),
     half \in SUBSET (w.whole \cap S \cap Patch)}
  \cap {w2 \in Workspace : w2.whole \cap w2.torn = {}}

Tracked == Content \ Adds

(***************************************************************************)
(* The journal.  preWorkspaceHash and currentTaskId are functions of the   *)
(* applied prefix, so they are left out; so are the identities that make   *)
(* a journal belong to its queue.                                          *)
(***************************************************************************)
Status == {"pending", "applying", "completed", "rolled-back"}
Cause == {"none", "conflict", "fault"}
NoJournal == [status |-> "missing", applied |-> <<>>, lastError |-> "none"]
Fresh == [status |-> "pending", applied |-> <<>>, lastError |-> "none"]

QueueOf(x) == CHOOSE q \in Queue : x \in PatchesOf(q)

\* The workspace hash after the applied prefix; of a completed journal the final one.
Prefix(j) == IF j.applied = <<>> THEN Clean ELSE j.applied[Len(j.applied)]
Current(q) == Order[q][Len(journal[q].applied) + 1]

\* validateIntegrationJournal, and that a queue rolled back has nothing applied.
Valid(q, j) ==
  /\ Len(j.applied) <= Len(Order[q])
  /\ j.status = "completed" <=> Len(j.applied) = Len(Order[q])
  /\ j.status \in {"missing", "rolled-back"} => j.applied = <<>>

\* The journal once its next patch is recorded with workspace hash h.
Recorded(q, h) ==
  LET j == journal[q]
      last == Len(j.applied) + 1 = Len(Order[q])
  IN [status |-> IF last THEN "completed" ELSE "pending",
      applied |-> Append(j.applied, h), lastError |-> j.lastError]

NoOp == [queue |-> CHOOSE q \in Queue : TRUE, patch |-> CHOOSE x \in Patch : TRUE,
         seen |-> Clean, cause |-> "none"]

-----------------------------------------------------------------------------
Init ==
  /\ clash \in Clashes
  /\ faults \in FaultSets
  /\ journal = [q \in Queue |-> NoJournal]
  /\ ws = Clean
  /\ moved = FALSE
  /\ lock = [q \in Queue |-> NoProc]
  /\ stage = [p \in Proc |-> "idle"]
  /\ op = [p \in Proc |-> NoOp]
  /\ answer = [p \in Proc |-> "none"]
  /\ edits = 0

At(p, s) == stage[p] = s
GoTo(p, s) == stage' = [stage EXCEPT ![p] = s]
Answer(p, a) ==
  /\ GoTo(p, "idle")
  /\ op' = [op EXCEPT ![p] = NoOp]
  /\ answer' = [answer EXCEPT ![p] = a]

\* The operation ends and its finally block gives the lock back.
Finish(p, a) == Answer(p, a) /\ lock' = [lock EXCEPT ![op[p].queue] = NoProc]

\* The operation goes on, or goes to the rollback.
Continue(p, s) == GoTo(p, s) /\ UNCHANGED <<lock, op, answer>>
RollBackFor(p, c) ==
  /\ GoTo(p, "reset")
  /\ op' = [op EXCEPT ![p].cause = c]
  /\ UNCHANGED <<lock, answer>>

Write(p, j) == journal' = [journal EXCEPT ![op[p].queue] = j]

(***************************************************************************)
(* integrateWorktreeResults.                                               *)
(***************************************************************************)
Integrate(p, q) ==
  /\ At(p, "idle")
  /\ GoTo(p, "lock")
  /\ op' = [op EXCEPT ![p].queue = q]
  /\ answer' = [answer EXCEPT ![p] = "none"]
  /\ UNCHANGED <<rigid, journal, ws, moved, lock, edits>>

TakeLock(p) ==
  /\ At(p, "lock")
  /\ lock[op[p].queue] = NoProc
  /\ lock' = [lock EXCEPT ![op[p].queue] = p]
  /\ GoTo(p, "open")
  /\ UNCHANGED <<rigid, journal, ws, moved, op, answer, edits>>

LockTimeout(p) ==
  /\ At(p, "lock")
  /\ lock[op[p].queue] # NoProc
  /\ Answer(p, "timeout")
  /\ UNCHANGED <<rigid, journal, ws, moved, lock, edits>>

\* Mutant of Open: a completed queue starts again.
OpenForgets(p) ==
  /\ At(p, "open")
  /\ \/ /\ moved
        /\ Finish(p, "moved")
     \/ /\ ~moved
        /\ Continue(p, IF journal[op[p].queue].status \in {"missing", "completed"} THEN "create" ELSE "reconcile")
  /\ UNCHANGED <<rigid, journal, ws, moved, edits>>

\* Load the journal and compare HEAD with the base commit.
Open(p) ==
  /\ At(p, "open")
  /\ \/ /\ moved
        /\ Finish(p, "moved")
     \/ /\ ~moved
        /\ Continue(p, IF journal[op[p].queue] = NoJournal THEN "create" ELSE "reconcile")
  /\ UNCHANGED <<rigid, journal, ws, moved, edits>>

\* A new queue starts on a clean workspace only.
Create(p) ==
  /\ At(p, "create")
  /\ \/ /\ ws = Clean
        /\ Write(p, Fresh)
        /\ Continue(p, "reconcile")
     \/ /\ ws # Clean
        /\ Finish(p, "dirty")
        /\ UNCHANGED journal
  /\ UNCHANGED <<rigid, ws, moved, edits>>

\* Mutant of Reconcile: an in-flight patch is always applied again.
ReconcileResumes(p) ==
  /\ At(p, "reconcile")
  /\ LET j == journal[op[p].queue]
         same == ws = Prefix(j)
     IN \/ /\ j.status = "completed"
           /\ Finish(p, IF same THEN "replayed" ELSE "unexplained")
        \/ /\ j.status = "rolled-back"
           /\ Continue(p, "restart")
        \/ /\ j.status = "pending"
           /\ IF same THEN Continue(p, "begin") ELSE Finish(p, "unexplained")
        \/ /\ j.status = "applying"
           /\ Continue(p, "check")
  /\ UNCHANGED <<rigid, journal, ws, moved, edits>>

\* reconcileIntegrationJournal: does the workspace match what is recorded?
Reconcile(p) ==
  /\ At(p, "reconcile")
  /\ LET j == journal[op[p].queue]
         same == ws = Prefix(j)
     IN \/ /\ j.status = "completed"
           /\ Finish(p, IF same THEN "replayed" ELSE "unexplained")
        \/ /\ j.status = "rolled-back"
           /\ Continue(p, "restart")
        \/ /\ j.status \in {"pending", "applying"} /\ same
           /\ Continue(p, "begin")
        \/ /\ j.status = "pending" /\ ~same
           /\ Finish(p, "unexplained")
        \/ /\ j.status = "applying" /\ ~same
           /\ GoTo(p, "prove")
           /\ op' = [op EXCEPT ![p].seen = ws]
           /\ UNCHANGED <<lock, answer>>
  /\ UNCHANGED <<rigid, journal, ws, moved, edits>>

\* The workspace moved on while a patch was in flight: if that patch can be
\* taken out it is recorded, with the hash read before.
Prove(p) ==
  /\ At(p, "prove")
  /\ \/ /\ Reverses(ws, Current(op[p].queue))
        /\ LET j == Recorded(op[p].queue, op[p].seen)
           IN /\ Write(p, j)
              /\ \/ /\ j.status = "completed"
                    /\ Finish(p, "replayed")
                 \/ /\ j.status = "pending"
                    /\ Continue(p, "begin")
     \/ /\ ~Reverses(ws, Current(op[p].queue))
        /\ Finish(p, "unexplained")
        /\ UNCHANGED journal
  /\ UNCHANGED <<rigid, ws, moved, edits>>

\* A queue that was rolled back starts again from a clean workspace.
Restart(p) ==
  /\ At(p, "restart")
  /\ \/ /\ ws = Clean
        /\ Write(p, Fresh)
        /\ Continue(p, "begin")
     \/ /\ ws # Clean
        /\ Finish(p, "unexplained")
        /\ UNCHANGED journal
  /\ UNCHANGED <<rigid, ws, moved, edits>>

\* Mutant of Begin: the journal is written after the patch only.
BeginUndeclared(p) ==
  /\ At(p, "begin")
  /\ \/ ws = Prefix(journal[op[p].queue]) /\ Continue(p, "check")
     \/ ws # Prefix(journal[op[p].queue]) /\ Finish(p, "unexplained")
  /\ UNCHANGED <<rigid, journal, ws, moved, edits>>

\* Before a patch is applied the journal says so.
Begin(p) ==
  /\ At(p, "begin")
  /\ LET j == journal[op[p].queue]
     IN \/ /\ ws = Prefix(j)
           /\ Write(p, [status |-> "applying", applied |-> j.applied, lastError |-> "none"])
           /\ Continue(p, "check")
        \/ /\ ws # Prefix(j)
           /\ Finish(p, "unexplained")
           /\ UNCHANGED journal
  /\ UNCHANGED <<rigid, ws, moved, edits>>

\* git apply --check
Check(p) ==
  /\ At(p, "check")
  /\ \/ Fits(ws, Current(op[p].queue)) /\ Continue(p, "apply")
     \/ ~Fits(ws, Current(op[p].queue)) /\ RollBackFor(p, "conflict")
  /\ UNCHANGED <<rigid, journal, ws, moved, edits>>

\* git apply
Apply(p) ==
  /\ At(p, "apply")
  /\ \/ /\ Fits(ws, Current(op[p].queue))
        /\ ws' = Added(ws, Current(op[p].queue))
        /\ Continue(p, "record")
     \/ /\ ~Fits(ws, Current(op[p].queue))
        /\ RollBackFor(p, "conflict")
        /\ UNCHANGED ws
  /\ UNCHANGED <<rigid, journal, moved, edits>>

Record(p) ==
  /\ At(p, "record")
  /\ LET j == Recorded(op[p].queue, ws)
     IN /\ Write(p, j)
        /\ \/ j.status = "completed" /\ Finish(p, "committed")
           \/ j.status = "pending" /\ Continue(p, "begin")
  /\ UNCHANGED <<rigid, ws, moved, edits>>

(***************************************************************************)
(* rollbackIntegration, and the journal write that follows it.             *)
(***************************************************************************)

\* git reset --hard <base commit>
Reset(p) ==
  /\ At(p, "reset")
  /\ ws' = Without(ws, Tracked)
  /\ moved' = FALSE
  /\ Continue(p, "clean")
  /\ UNCHANGED <<rigid, journal, edits>>

\* git clean -fd
CleanUp(p) ==
  /\ At(p, "clean")
  /\ ws' = Without(ws, Adds)
  /\ Continue(p, "rolled")
  /\ UNCHANGED <<rigid, journal, moved, edits>>

\* Mutant of RollBack: the queue is tried again at once.
RollBackRetries(p) ==
  /\ At(p, "rolled")
  /\ Write(p, [status |-> "rolled-back", applied |-> <<>>, lastError |-> op[p].cause])
  /\ Continue(p, "restart")
  /\ UNCHANGED <<rigid, ws, moved, edits>>

RollBack(p) ==
  /\ At(p, "rolled")
  /\ Write(p, [status |-> "rolled-back", applied |-> <<>>, lastError |-> op[p].cause])
  /\ Finish(p, "conflict")
  /\ UNCHANGED <<rigid, ws, moved, edits>>

-----------------------------------------------------------------------------
(***************************************************************************)
(* A git command or a journal write fails, or the process stops.           *)
(***************************************************************************)

\* What is left of the workspace when the command of this stage breaks off.
Damaged(p) ==
  CASE At(p, "apply") /\ Fits(ws, Current(op[p].queue)) -> {ws, Torn(ws, Current(op[p].queue))}
    [] At(p, "reset") -> Interrupted(ws, Tracked)
    [] At(p, "clean") -> Interrupted(ws, Adds)
    [] OTHER          -> {ws}

Looping == {"begin", "check", "apply", "record"}
Locked == Looping \cup {"open", "create", "reconcile", "prove", "restart", "reset", "clean", "rolled"}

\* Inside the loop a failure rolls the queue back; elsewhere the operation fails.
Fault(p) ==
  /\ stage[p] \in faults
  /\ ws' \in Damaged(p)
  /\ \/ stage[p] \in Looping /\ RollBackFor(p, "fault")
     \/ stage[p] \in Locked \ Looping /\ Finish(p, "failed")
  /\ UNCHANGED <<rigid, journal, moved, edits>>

Stop(p) ==
  /\ p \in Mortal
  /\ ~At(p, "idle")
  /\ ws' \in Damaged(p)
  /\ GoTo(p, "idle")
  /\ op' = [op EXCEPT ![p] = NoOp]
  /\ lock' = [q \in Queue |-> IF lock[q] = p THEN NoProc ELSE lock[q]]
  /\ UNCHANGED <<rigid, journal, moved, answer, edits>>

\* Mutant of FindCompleted: a journal counts before it is completed.
FindCompletedAny(p, x) ==
  /\ At(p, "idle")
  /\ LET j == journal[QueueOf(x)]
     IN \/ /\ j.applied # <<>>
           /\ GoTo(p, "head")
           /\ op' = [op EXCEPT ![p].patch = x, ![p].seen = Prefix(j)]
           /\ answer' = [answer EXCEPT ![p] = "none"]
        \/ /\ j.applied = <<>>
           /\ Answer(p, "absent")
  /\ UNCHANGED <<rigid, journal, ws, moved, lock, edits>>

(***************************************************************************)
(* findCompletedWorktreeIntegration reads without the lock.  Queues do not *)
(* share patches, so at most one journal can match.                        *)
(***************************************************************************)
FindCompleted(p, x) ==
  /\ At(p, "idle")
  /\ LET j == journal[QueueOf(x)]
     IN \/ /\ j.status = "completed"
           /\ GoTo(p, "head")
           /\ op' = [op EXCEPT ![p].patch = x, ![p].seen = Prefix(j)]
           /\ answer' = [answer EXCEPT ![p] = "none"]
        \/ /\ j.status # "completed"
           /\ Answer(p, "absent")
          
  /\ UNCHANGED <<rigid, journal, ws, moved, lock, edits>>

ReadHead(p) ==
  /\ At(p, "head")
  /\ \/ moved /\ Answer(p, "unexplained")
     \/ ~moved /\ GoTo(p, "match") /\ UNCHANGED <<op, answer>>
  /\ UNCHANGED <<rigid, journal, ws, moved, lock, edits>>

Match(p) ==
  /\ At(p, "match")
  /\ Answer(p, IF ws = op[p].seen THEN "receipt" ELSE "unexplained")
  /\ UNCHANGED <<rigid, journal, ws, moved, lock, edits>>

(***************************************************************************)
(* Somebody else: an edit by hand, also of what was integrated, or a       *)
(* commit, of everything or of nothing.                                    *)
(***************************************************************************)
Edit(w) ==
  /\ edits < MaxEdits
  /\ w.whole \subseteq ws.whole \cup {Hand}
  /\ w.torn \subseteq ws.torn
  /\ ws' = w
  /\ edits' = edits + 1
  /\ UNCHANGED <<rigid, journal, moved, lock, stage, op, answer>>

Commit ==
  /\ edits < MaxEdits
  /\ moved' = TRUE
  /\ ws' \in {ws, Clean}
  /\ edits' = edits + 1
  /\ UNCHANGED <<rigid, journal, lock, stage, op, answer>>

-----------------------------------------------------------------------------
Step(p) ==
  \/ TakeLock(p) \/ LockTimeout(p)
  \/ Open(p) \/ Create(p) \/ Reconcile(p) \/ Prove(p) \/ Restart(p)
  \/ Begin(p) \/ Check(p) \/ Apply(p) \/ Record(p)
  \/ Reset(p) \/ CleanUp(p) \/ RollBack(p)
  \/ ReadHead(p) \/ Match(p)

Next ==
  \/ \E p \in Proc :
       \/ \E q \in Queue : Integrate(p, q)
       \/ \E x \in UNION {PatchesOf(q) : q \in Queue} : FindCompleted(p, x)
       \/ Step(p) \/ Fault(p) \/ Stop(p)
  \/ \E w \in Workspace : Edit(w)
  \/ Commit

Spec == Init /\ [][Next]_vars

(***************************************************************************)
(* A process that does not stop goes on with the operation it began; that  *)
(* is all the code's scheduling gives.                                     *)
(***************************************************************************)
FairSpec == Spec /\ \A p \in Proc \ Mortal : WF_vars(Step(p))

-----------------------------------------------------------------------------
(* Properties                                                              *)

\* Files, locks and operations are well-formed; every journal passes the checks
\* of validateIntegrationJournal, which compare it with its queue.
TypeOK ==
  /\ journal \in [Queue -> [status : Status \cup {"missing"}, applied : Seq(Workspace), lastError : Cause]]
  /\ \A q \in Queue : Valid(q, journal[q])
  /\ ws \in Workspace /\ moved \in BOOLEAN
  /\ lock \in [Queue -> Proc \cup {NoProc}]
  /\ stage \in [Proc -> Locked \cup {"idle", "lock", "head", "match"}]
  /\ op \in [Proc -> [queue : Queue, patch : Patch, seen : Workspace, cause : Cause]]
  /\ answer \in [Proc -> {"none", "timeout", "moved", "dirty", "unexplained", "replayed",
                           "committed", "conflict", "failed", "absent", "receipt"}]
  /\ edits \in 0..MaxEdits

Untouched == edits = 0

\* The workspace is never ahead of the journals: a patch in it, whole or torn, is
\* recorded or is the one its queue's journal declares in flight, whichever
\* process stopped where (write-ahead 'applying', rollback before 'rolled-back').
WorkspaceJournaled ==
  /\ TypeOK
  /\ \A q \in Queue : \A i \in DOMAIN Order[q] :
       Order[q][i] \in Present(ws) =>
          \/ i <= Len(journal[q].applied)
          \/ i = Len(journal[q].applied) + 1 /\ journal[q].status = "applying"

\* A completed journal's final hash is of a workspace with every patch of the
\* queue whole in it, unless somebody else touched the repository meanwhile: this
\* is the evidence that findCompletedWorktreeIntegration and, behind it, task
\* completion rely on.
CompletedWhole ==
  Untouched => \A q \in Queue :
     journal[q].status = "completed" =>
        PatchesOf(q) \subseteq Prefix(journal[q]).whole /\ Prefix(journal[q]).torn = {}

\* A queue is rolled back for a conflict only if two of its patches do conflict
\* or somebody else edited the workspace: finding its own patch applied by a
\* process that stopped is never taken for a conflict.  And where patches do not
\* conflict, commands do not fail and nobody interferes, a stop needs
\* reconciliation by hand only if it tore a patch.
RecoveryExplained ==
  /\ \A q \in Queue :
       Untouched /\ journal[q].lastError = "conflict" =>
          \E x, y \in PatchesOf(q) : Clashing(x, y)
  /\ \A p \in Proc :
       Untouched /\ clash = {} /\ faults = {} /\ answer[p] = "unexplained" => ws.torn # {}

\* A receipt for a patch is given only while the patch is whole in the workspace.
ReceiptWhole ==
  [][\A p \in Proc : Untouched /\ At(p, "match") /\ answer'[p] = "receipt" => op[p].patch \in ws.whole]_vars

Queues == INSTANCE PatchQueue WITH
  Size <- [q \in Queue |-> Len(Order[q])],
  taken <- [q \in Queue |-> Len(journal[q].applied)]

\* Patches are recorded one at a time, given up only together, and a completed
\* queue is final, whatever is replayed, restarted or rolled back.
ImplementsPatchQueue == Queues!Spec

\* Every operation of a process that does not stop ends, whoever else stopped
\* with the lock or rolled back.
OperationsEnd == \A p \in Proc \ Mortal : ~At(p, "idle") ~> At(p, "idle")

\* A queue never removes what it did not bring: the documentation says that
\* unexplained drift is not reset.
ForeignKept ==
  [][\A p \in Proc : At(p, "reset") /\ edits' = edits =>
        ws.whole \ ws'.whole \subseteq PatchesOf(op[p].queue)]_vars

=============================================================================
