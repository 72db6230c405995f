----------------------- MODULE IntegrationQueue_proofs -----------------------
(***************************************************************************)
(* Proofs about the integration queues: for any processes, queues, patches,*)
(* conflicts, faults and edits, with processes stopping anywhere.          *)
(*                                                                         *)
(* What a process knows of the journal and the workspace it learnt some    *)
(* steps ago, so the invariant says what is still true of them at each     *)
(* stage: that it owns its queue's lock (Owned), which states its journal  *)
(* can be in (Placed) and how far a rollback has come (Undone).            *)
(* What a lookup has read without the lock is Lookup.  Where there is one  *)
(* queue, AloneInv adds what is in the workspace at each stage: the patches*)
(* the journal counts, whole, and the next one or a part of it.            *)
(***************************************************************************)
EXTENDS IntegrationQueue, SequenceTheorems, TLAPS

\* A process in the middle of a queue owns its lock.
OwnedOf(p) == stage[p] \in Locked => lock[op[p].queue] = p
Owned == \A p \in Proc : OwnedOf(p)

\* The journals a process can find its queue with at stage s.
Fitting(s) ==
  CASE s = "create"                                   -> {"missing"}
    [] s = "reconcile"                                -> Status
    [] s \in {"prove", "check", "apply", "record"}    -> {"applying"}
    [] s = "restart"                                  -> {"rolled-back"}
    [] s \in {"begin", "reset", "clean", "rolled"}    -> {"pending", "applying"}
    [] OTHER                                          -> Status \cup {"missing"}

PlacedOf(p) == journal[op[p].queue].status \in Fitting(stage[p])
Placed == \A p \in Proc : PlacedOf(p)

\* A journal that is not there holds nothing.
Absent == \A q \in Queue : journal[q].status = "missing" => journal[q] = NoJournal

\* How far the rollback of a queue has come.
UndoneOf(p) ==
  /\ stage[p] = "clean" => PatchesOf(op[p].queue) \cap Present(ws) \subseteq Adds
  /\ stage[p] = "rolled" => PatchesOf(op[p].queue) \cap Present(ws) = {}
Undone == \A p \in Proc : UndoneOf(p)

IInv == TypeOK /\ Owned /\ Placed /\ Absent /\ Undone /\ WorkspaceJournaled

\* A lookup under way has read a completed journal, and has not been answered.
LookupOf(p) ==
  stage[p] \in {"head", "match"} =>
    /\ answer[p] = "none"
    /\ \E q \in Queue :
         /\ op[p].patch \in PatchesOf(q)
         /\ journal[q].status = "completed"
         /\ op[p].seen = Prefix(journal[q])
Lookup == \A p \in Proc : LookupOf(p)

-----------------------------------------------------------------------------
(***************************************************************************)
(* A single queue in a repository nobody else touches.  With a second one  *)
(* the rest does not hold: a rollback resets the whole workspace           *)
(* (ForeignKept is violated).                                              *)
(***************************************************************************)
Alone == \E q \in Queue : Queue = {q}

\* The first n patches of a queue, and the one after them.
Upto(q, n) == {Order[q][i] : i \in 1..n}
Done(q, j) == Upto(q, Len(j.applied))
After(q, j) == Order[q][Len(j.applied) + 1]

Exactly(w, S) == w.whole = S /\ w.torn = {}
Conflicting(q) == \E x, y \in PatchesOf(q) : Clashing(x, y)

\* Nothing conflicts and nothing fails.
Smooth == clash = {} /\ faults = {}

\* The workspace w and what the journal j records hold nothing but the queue's
\* patches; if recording does not fail, what is recorded is whole; if nothing
\* fails, nothing is rolled back, and a workspace that is neither what is recorded
\* nor that and the patch in flight has a torn patch.
QueueSettled(q, j, w) ==
  /\ Present(w) \subseteq PatchesOf(q)
  /\ Present(Prefix(j)) \subseteq Done(q, j)
  /\ j.lastError = "conflict" => Conflicting(q)
  /\ "record" \notin faults =>
       /\ Exactly(Prefix(j), Done(q, j))
       /\ j.status = "applying" /\ After(q, j) \in w.whole =>
            Exactly(w, Done(q, j) \cup {After(q, j)})
  /\ Smooth =>
       /\ j.status # "rolled-back"
       /\ w.torn = {} => w = Prefix(j) \/ (j.status = "applying" /\ After(q, j) \in w.whole)

\* What a process at stage s with operation o has seen of the workspace is still
\* so; a and the queue's state are its last answer and the repository's.
ProcSettled(q, s, o, j, w, a) ==
  /\ s \in {"begin", "check", "apply"} => w = Prefix(j)
  /\ s = "prove" => o.seen = w /\ w # Prefix(j)
  /\ o.cause = "conflict" => Conflicting(q)
  /\ "record" \notin faults =>
       /\ s = "record" => After(q, j) \in w.whole
       /\ s \in {"reset", "clean", "rolled"} => After(q, j) \notin w.whole
  /\ Smooth =>
       /\ s \notin {"reset", "clean", "rolled", "restart"}
       /\ a = "unexplained" => w.torn # {}

AloneInv ==
  Untouched =>
    \A q \in Queue :
      /\ QueueSettled(q, journal[q], ws)
      /\ Smooth => ~moved
      /\ \A p \in Proc : ProcSettled(q, stage[p], op[p], journal[q], ws, answer[p])

-----------------------------------------------------------------------------
(***************************************************************************)
(* Names for the parts of TypeOK and of the steps.                         *)
(***************************************************************************)
JournalType == [status : Status \cup {"missing"}, applied : Seq(Workspace), lastError : Cause]
OpType == [queue : Queue, patch : Patch, seen : Workspace, cause : Cause]
Stages == Locked \cup {"idle", "lock", "head", "match"}
Answers == {"none", "timeout", "moved", "dirty", "unexplained", "replayed",
            "committed", "conflict", "failed", "absent", "receipt"}

\* The part of WorkspaceJournaled about one queue, of any workspace and journal.
Journaled(w, q, j) ==
  \A i \in DOMAIN Order[q] :
    Order[q][i] \in Present(w) =>
      \/ i <= Len(j.applied)
      \/ i = Len(j.applied) + 1 /\ j.status = "applying"

\* A step of the owner of a lock: it goes on at stage s with operation o, or ends,
\* and its queue's journal becomes k.
Works(p, s, o, k) ==
  /\ stage[p] \in Locked
  /\ stage' = [stage EXCEPT ![p] = s]
  /\ op' = [op EXCEPT ![p] = o]
  /\ journal' = [journal EXCEPT ![op[p].queue] = k]
  /\ \/ lock' = lock /\ s \in Locked /\ o.queue = op[p].queue
     \/ lock' = [lock EXCEPT ![op[p].queue] = NoProc] /\ s = "idle"

\* What such a step has to establish; w is the workspace it leaves.
Sound(q, s, k, w) ==
  /\ k \in JournalType
  /\ Valid(q, k)
  /\ k.status \in Fitting(s)
  /\ k.status = "missing" => k = NoJournal
  /\ w \in Workspace
  /\ Journaled(w, q, k)
  /\ s = "clean" => PatchesOf(q) \cap Present(w) \subseteq Adds
  /\ s = "rolled" => PatchesOf(q) \cap Present(w) = {}

Progress(p) ==
  \E s \in Stages, o \in OpType, k \in JournalType :
    /\ Works(p, s, o, k)
    /\ Sound(op[p].queue, s, k, ws')
    /\ Present(ws') \subseteq Present(ws) \cup PatchesOf(op[p].queue)
    /\ moved' \in BOOLEAN
    /\ answer' \in [Proc -> Answers]
    /\ edits' = edits

LEMMA Patches ==
  /\ Patch # {}
  /\ \A q \in Queue : PatchesOf(q) \subseteq Patch /\ Len(Order[q]) \in Nat \ {0}
  /\ \A q \in Queue : DOMAIN Order[q] = 1..Len(Order[q])
<1>1. \A q \in Queue : Order[q] \in Seq(Patch) /\ Order[q] # <<>>
  BY OrderAssumption
<1>2. \A q \in Queue : /\ Len(Order[q]) \in Nat \ {0} 
                       /\ DOMAIN Order[q] = 1..Len(Order[q]) 
                       /\ \A i \in 1..Len(Order[q]) : Order[q][i] \in Patch
  BY <1>1, LenProperties, EmptySeq, ElementOfSeq
<1>3. \A q \in Queue : 1 \in 1..Len(Order[q])
  BY <1>2
<1> QED
  BY <1>2, <1>3, QueueAssumption DEF PatchesOf

LEMMA NoOpTyped == NoOp \in OpType
<1>1. (CHOOSE q \in Queue : TRUE) \in Queue
  BY QueueAssumption
<1>2. (CHOOSE x \in Patch : TRUE) \in Patch
  BY Patches
<1> QED
  BY <1>1, <1>2 DEF NoOp, OpType, Clean, Workspace, Cause

LEMMA TypeParts ==
  TypeOK <=>
    /\ journal \in [Queue -> JournalType]
    /\ \A q \in Queue : Valid(q, journal[q])
    /\ ws \in Workspace /\ moved \in BOOLEAN
    /\ lock \in [Queue -> Proc \cup {NoProc}]
    /\ stage \in [Proc -> Stages]
    /\ op \in [Proc -> OpType]
    /\ answer \in [Proc -> Answers]
    /\ edits \in 0..MaxEdits
BY DEF TypeOK, JournalType, Stages, OpType, Answers

LEMMA JournaledParts ==
  WorkspaceJournaled <=> TypeOK /\ \A q \in Queue : Journaled(ws, q, journal[q])
BY DEF WorkspaceJournaled, Journaled

\* Only the owner of a queue's lock works on it.
LEMMA OwnersApart ==
  ASSUME IInv, NEW p \in Proc, NEW r \in Proc, p # r, stage[p] \in Locked, stage[r] \in Locked
  PROVE  op[p].queue # op[r].queue
BY DEF IInv, Owned, OwnedOf

LEMMA ProgressKeeps ==
  ASSUME IInv, NEW p \in Proc, Progress(p)
  PROVE  IInv'
<1> USE TypeParts DEF IInv
<1> DEFINE q == op[p].queue
<1>1. PICK s \in Stages, o \in OpType, k \in JournalType :
        /\ Works(p, s, o, k)
        /\ Sound(q, s, k, ws')
        /\ Present(ws') \subseteq Present(ws) \cup PatchesOf(q)
        /\ moved' \in BOOLEAN
        /\ answer' \in [Proc -> Answers]
        /\ edits' = edits
  BY DEF Progress
<1>2. q \in Queue /\ NoProc \notin Proc
  BY NamesAssumption DEF OpType
<1>3. \A r \in Proc \ {p} : stage'[r] = stage[r] /\ op'[r] = op[r]
  BY <1>1 DEF Works
<1>4. stage'[p] = s /\ op'[p] = o
  BY <1>1 DEF Works
<1>5. \A x \in Queue : journal'[x] = IF x = q THEN k ELSE journal[x]
  BY <1>1, <1>2 DEF Works
<1>a. \A x \in Queue : journal'[x] \in JournalType
  BY <1>1, <1>5
<1>6. TypeOK'
  <2>1. journal' \in [Queue -> JournalType] /\ stage' \in [Proc -> Stages] /\ op' \in [Proc -> OpType]
    BY <1>1, <1>2 DEF Works
  <2>2. lock' \in [Queue -> Proc \cup {NoProc}]
    BY <1>1, <1>2 DEF Works
  <2>3. \A x \in Queue : Valid(x, journal'[x])
    BY <1>1, <1>5 DEF Sound
  <2> QED
    BY <1>1, <2>1, <2>2, <2>3 DEF Sound, TypeOK, JournalType, Stages, OpType, Answers
<1>7. Owned'
  <2>1. ASSUME NEW r \in Proc, r # p, stage[r] \in Locked PROVE lock'[op[r].queue] = r
    <3>1. op[r].queue # q /\ op[r].queue \in Queue /\ lock[op[r].queue] = r
      BY <2>1, <1>1, OwnersApart DEF Works, Owned, OwnedOf, OpType
    <3> QED
      BY <3>1, <1>1, <1>2 DEF Works
  <2>2. s \in Locked => lock'[o.queue] = p
    BY <1>1 DEF Works, Owned, OwnedOf, Locked, Looping
  <2> QED
    BY <1>3, <1>4, <2>1, <2>2 DEF Owned, OwnedOf
<1>8. Placed'
  <2>1. ASSUME NEW r \in Proc, r # p PROVE journal'[op[r].queue].status \in Fitting(stage[r])
    <3>1. CASE stage[r] \in Locked
      BY <3>1, <2>1, <1>1, <1>5, OwnersApart DEF Works, Placed, PlacedOf, OpType
    <3>2. CASE stage[r] \notin Locked
      <4>1. Fitting(stage[r]) = Status \cup {"missing"}
        BY <3>2 DEF Fitting, Locked, Looping
      <4>2. journal'[op[r].queue] \in JournalType
        BY <1>a DEF OpType
      <4> QED
        BY <4>1, <4>2 DEF JournalType
    <3> QED
      BY <3>1, <3>2
  <2>2. journal'[o.queue].status \in Fitting(s)
    <3>1. CASE s \in Locked
      BY <3>1, <1>1, <1>5, <1>2 DEF Works, Sound, Locked, Looping
    <3>2. CASE s \notin Locked
      <4>1. Fitting(s) = Status \cup {"missing"}
        BY <3>2 DEF Fitting, Locked, Looping
      <4>2. journal'[o.queue] \in JournalType
        BY <1>a DEF OpType
      <4> QED
        BY <4>1, <4>2 DEF JournalType
    <3> QED
      BY <3>1, <3>2
  <2> QED
    BY <1>3, <1>4, <2>1, <2>2 DEF Placed, PlacedOf
<1>9. Absent'
  BY <1>1, <1>5 DEF Absent, Sound
<1>10. Undone'
  <2>1. ASSUME NEW r \in Proc, r # p, stage[r] \in {"clean", "rolled"}
        PROVE  PatchesOf(op[r].queue) \cap Present(ws') \subseteq PatchesOf(op[r].queue) \cap Present(ws)
    <3>1. op[r].queue # q /\ op[r].queue \in Queue
      BY <2>1, <1>1, OwnersApart DEF Works, OpType, Locked, Looping
    <3> QED
      BY <3>1, <1>1, <1>2, DisjointAssumption
  <2>2. ASSUME s \in {"clean", "rolled"} PROVE o.queue = q
    BY <2>2, <1>1 DEF Works
  <2> QED
    BY <1>1, <1>3, <1>4, <2>1, <2>2 DEF Undone, UndoneOf, Sound
<1>11. WorkspaceJournaled'
  <2>1. ASSUME NEW x \in Queue, x # q PROVE Journaled(ws', x, journal[x])
    <3>1. PatchesOf(x) \cap Present(ws') \subseteq Present(ws)
      BY <2>1, <1>1, <1>2, DisjointAssumption
    <3>2. \A i \in DOMAIN Order[x] : Order[x][i] \in PatchesOf(x)
      BY DEF PatchesOf
    <3> QED
      BY <3>1, <3>2, JournaledParts DEF Journaled
  <2>2. Journaled(ws', q, k)
    BY <1>1 DEF Sound
  <2> QED
    BY <1>5, <1>6, <2>1, <2>2 DEF WorkspaceJournaled, Journaled
<1> QED
  BY <1>6, <1>7, <1>8, <1>9, <1>10, <1>11

-----------------------------------------------------------------------------
(***************************************************************************)
(* The steps of the owner of a lock.                                       *)
(***************************************************************************)
LEMMA Known ==
  ASSUME IInv, NEW p \in Proc
  PROVE  /\ op[p] \in OpType /\ op[p].queue \in Queue
         /\ journal[op[p].queue] \in JournalType
         /\ journal = [journal EXCEPT ![op[p].queue] = journal[op[p].queue]]
         /\ Valid(op[p].queue, journal[op[p].queue])
         /\ journal[op[p].queue].status \in Fitting(stage[p])
         /\ journal[op[p].queue].status = "missing" => journal[op[p].queue] = NoJournal
         /\ Journaled(ws, op[p].queue, journal[op[p].queue])
         /\ ws \in Workspace /\ moved \in BOOLEAN /\ answer \in [Proc -> Answers]
         /\ stage \in [Proc -> Stages] /\ op \in [Proc -> OpType]
BY TypeParts, JournaledParts DEF IInv, OpType, Placed, PlacedOf, Absent

\* How the operators the actions share end or go on.
LEMMA Ways ==
  ASSUME IInv, NEW p \in Proc, stage[p] \in Locked,
         NEW k \in JournalType, journal' = [journal EXCEPT ![op[p].queue] = k]
  PROVE  /\ \A a \in Answers : Finish(p, a) =>
              Works(p, "idle", NoOp, k) /\ answer' \in [Proc -> Answers]
         /\ \A s \in Locked : Continue(p, s) =>
              Works(p, s, op[p], k) /\ answer' \in [Proc -> Answers]
         /\ \A c \in Cause : RollBackFor(p, c) =>
              /\ Works(p, "reset", [op[p] EXCEPT !.cause = c], k)
              /\ [op[p] EXCEPT !.cause = c] \in OpType
              /\ answer' \in [Proc -> Answers]
<1> USE Known
<1>1. ASSUME NEW a \in Answers, Finish(p, a)
      PROVE  Works(p, "idle", NoOp, k) /\ answer' \in [Proc -> Answers]
  BY <1>1 DEF Finish, Answer, GoTo, Works
<1>2. ASSUME NEW s \in Locked, Continue(p, s)
      PROVE  Works(p, s, op[p], k) /\ answer' \in [Proc -> Answers]
  BY <1>2 DEF Continue, GoTo, Works
<1>3. ASSUME NEW c \in Cause, RollBackFor(p, c)
      PROVE  /\ Works(p, "reset", [op[p] EXCEPT !.cause = c], k)
             /\ [op[p] EXCEPT !.cause = c] \in OpType
             /\ answer' \in [Proc -> Answers]
  BY <1>3 DEF RollBackFor, GoTo, Works, OpType, Locked, Looping
<1> QED
  BY <1>1, <1>2, <1>3

\* A step that leaves the journal alone and adds nothing to the workspace.
LEMMA StillSound ==
  ASSUME IInv, NEW p \in Proc, NEW s \in Stages, NEW w \in Workspace,
         Present(w) \subseteq Present(ws),
         journal[op[p].queue].status \in Fitting(s), s \notin {"clean", "rolled"}
  PROVE  Sound(op[p].queue, s, journal[op[p].queue], w)
BY Known DEF Sound, Journaled

LEMMA FinishSound ==
  ASSUME IInv, NEW p \in Proc, stage[p] \in Locked, NEW a \in Answers, Finish(p, a),
         journal' = journal, ws' \in Workspace, Present(ws') \subseteq Present(ws),
         moved' \in BOOLEAN, edits' = edits
  PROVE  Progress(p)
<1>1. Works(p, "idle", NoOp, journal[op[p].queue]) /\ answer' \in [Proc -> Answers]
  BY Known, Ways
<1>2. journal[op[p].queue].status \in Fitting("idle")
  BY Known DEF Fitting, JournalType
<1>3. Sound(op[p].queue, "idle", journal[op[p].queue], ws')
  BY <1>2, StillSound DEF Stages
<1> QED
  BY <1>1, <1>3, Known, NoOpTyped DEF Progress, Stages

LEMMA ContinueSound ==
  ASSUME IInv, NEW p \in Proc, stage[p] \in Locked, NEW s \in Locked, Continue(p, s),
         NEW k \in JournalType, journal' = [journal EXCEPT ![op[p].queue] = k],
         Sound(op[p].queue, s, k, ws'),
         Present(ws') \subseteq Present(ws) \cup PatchesOf(op[p].queue),
         moved' \in BOOLEAN, edits' = edits
  PROVE  Progress(p)
<1>1. Works(p, s, op[p], k) /\ answer' \in [Proc -> Answers]
  BY Ways
<1> QED
  BY <1>1, Known DEF Progress, Stages

LEMMA RollBackForSound ==
  ASSUME IInv, NEW p \in Proc, stage[p] \in Looping, NEW c \in Cause, RollBackFor(p, c),
         journal' = journal, ws' \in Workspace,
         Present(ws') \subseteq Present(ws) \cup PatchesOf(op[p].queue),
         Journaled(ws', op[p].queue, journal[op[p].queue]),
         moved' \in BOOLEAN, edits' = edits
  PROVE  Progress(p)
<1> DEFINE o == [op[p] EXCEPT !.cause = c]
<1>1. Works(p, "reset", o, journal[op[p].queue]) /\ o \in OpType /\ answer' \in [Proc -> Answers]
  BY Known, Ways DEF Locked
<1>2. journal[op[p].queue].status \in Fitting("reset")
  BY Known DEF Fitting, Looping
<1>3. Sound(op[p].queue, "reset", journal[op[p].queue], ws')
  BY <1>2, Known DEF Sound
<1> QED
  BY <1>1, <1>3, Known DEF Progress, Stages, Locked

\* A queue that is not completed has a patch to come.
LEMMA CurrentIn ==
  ASSUME IInv, NEW q \in Queue, journal[q].status # "completed"
  PROVE  /\ Len(journal[q].applied) \in Nat
         /\ Len(journal[q].applied) + 1 \in DOMAIN Order[q]
         /\ Current(q) \in PatchesOf(q)
         /\ Current(q) \in Patch
<1>1. journal[q] \in JournalType /\ Valid(q, journal[q])
  BY TypeParts DEF IInv
<1>2. Len(journal[q].applied) \in Nat
  BY <1>1, LenProperties DEF JournalType
<1>3. Len(journal[q].applied) < Len(Order[q])
  BY <1>1, <1>2, Patches DEF Valid
<1>4. Len(journal[q].applied) + 1 \in DOMAIN Order[q]
  BY <1>2, <1>3, Patches
<1> QED
  BY <1>2, <1>4, Patches DEF Current, PatchesOf

\* The workspace may hold the patch a journal declares in flight.
LEMMA DeclaredSound ==
  ASSUME IInv, NEW q \in Queue, journal[q].status = "applying",
         NEW w, Present(w) \subseteq Present(ws) \cup {Current(q)}
  PROVE  Journaled(w, q, journal[q])
<1>1. \A i \in DOMAIN Order[q] : Order[q][i] = Current(q) => i = Len(journal[q].applied) + 1
  BY CurrentIn, DistinctAssumption DEF Current
<1> QED
  BY <1>1, JournaledParts DEF IInv, Journaled

\* Recording the patch in flight.
LEMMA RecordedSound ==
  ASSUME IInv, NEW q \in Queue, journal[q].status = "applying", NEW h \in Workspace
  PROVE  /\ Recorded(q, h) \in JournalType
         /\ Valid(q, Recorded(q, h))
         /\ Recorded(q, h).status \in {"pending", "completed"}
         /\ Recorded(q, h).applied = Append(journal[q].applied, h)
         /\ Recorded(q, h).lastError = journal[q].lastError
         /\ Len(Recorded(q, h).applied) = Len(journal[q].applied) + 1
         /\ Prefix(Recorded(q, h)) = h
         /\ Journaled(ws, q, Recorded(q, h))
<1> DEFINE j == journal[q]
           k == Recorded(q, h)
           st == IF Len(j.applied) + 1 = Len(Order[q]) THEN "completed" ELSE "pending"
<1>1. j \in JournalType /\ Valid(q, j)
  BY TypeParts DEF IInv
<1>2. k = [status |-> st, applied |-> Append(j.applied, h), lastError |-> j.lastError]
  BY DEF Recorded
<1>3. /\ Append(j.applied, h) \in Seq(Workspace)
      /\ Len(Append(j.applied, h)) = Len(j.applied) + 1
      /\ Append(j.applied, h)[Len(j.applied) + 1] = h
  BY <1>1, AppendProperties DEF JournalType
<1>4. Len(j.applied) \in Nat /\ Len(j.applied) + 1 \in 1..Len(Order[q])
  BY CurrentIn, Patches
<1>5. k \in JournalType
  BY <1>1, <1>2, <1>3 DEF JournalType, Status
<1>6. Valid(q, k)
  BY <1>2, <1>3, <1>4, Patches DEF Valid
<1>7. Prefix(k) = h
  <2>1. Append(j.applied, h) # <<>>
    BY <1>3, <1>4, EmptySeq
  <2> QED
    BY <2>1, <1>2, <1>3 DEF Prefix
<1>8. Journaled(ws, q, k)
  <2>1. Journaled(ws, q, j)
    BY JournaledParts DEF IInv
  <2> QED
    BY <2>1, <1>2, <1>3, <1>4, Patches DEF Journaled
<1> QED
  BY <1>2, <1>3, <1>5, <1>6, <1>7, <1>8

LEMMA FreshSound ==
  /\ Fresh \in JournalType
  /\ Fresh.status = "pending" /\ Fresh.applied = <<>> /\ Fresh.lastError = "none"
  /\ Prefix(Fresh) = Clean
  /\ \A q \in Queue : Valid(q, Fresh) /\ Journaled(Clean, q, Fresh)
<1>1. <<>> \in Seq(Workspace) /\ Len(<<>>) = 0
  BY EmptySeq
<1>2. \A q \in Queue : Valid(q, Fresh)
  BY <1>1, Patches DEF Valid, Fresh
<1>3. Present(Clean) = {}
  BY DEF Present, Clean
<1> QED
  BY <1>1, <1>2, <1>3 DEF Fresh, JournalType, Status, Cause, Journaled, Prefix

LEMMA OpenSound ==
  ASSUME IInv, NEW p \in Proc, Open(p)
  PROVE  Progress(p)
<1> USE Known DEF Open, At
<1>1. CASE moved /\ Finish(p, "moved")
  BY <1>1, FinishSound DEF Answers, Locked
<1>2. ASSUME journal[op[p].queue] = NoJournal, Continue(p, "create") PROVE Progress(p)
  BY <1>2, ContinueSound, StillSound DEF Locked, Looping, Stages, Fitting, NoJournal
<1>3. ASSUME journal[op[p].queue] # NoJournal, Continue(p, "reconcile") PROVE Progress(p)
  BY <1>3, ContinueSound, StillSound DEF Locked, Looping, Stages, Fitting, JournalType
<1> QED
  BY <1>1, <1>2, <1>3

LEMMA CreateSound ==
  ASSUME IInv, NEW p \in Proc, Create(p)
  PROVE  Progress(p)
<1> USE Known DEF Create, At
<1>1. CASE ws # Clean
  BY <1>1, FinishSound DEF Answers, Locked
<1>2. CASE ws = Clean
  <2>1. Sound(op[p].queue, "reconcile", Fresh, ws')
    BY <1>2, FreshSound DEF Sound, Fitting, Status
  <2> QED
    BY <1>2, <2>1, FreshSound, ContinueSound DEF Locked, Write
<1> QED
  BY <1>1, <1>2

LEMMA ReconcileSound ==
  ASSUME IInv, NEW p \in Proc, Reconcile(p)
  PROVE  Progress(p)
<1> USE Known DEF Reconcile, At
<1> DEFINE j == journal[op[p].queue]
<1>1. ASSUME NEW a \in {"replayed", "unexplained"}, Finish(p, a) PROVE Progress(p)
  BY <1>1, FinishSound DEF Answers, Locked
<1>2. ASSUME j.status = "rolled-back", Continue(p, "restart") PROVE Progress(p)
  BY <1>2, ContinueSound, StillSound DEF Locked, Looping, Stages, Fitting
<1>3. ASSUME j.status \in {"pending", "applying"}, Continue(p, "begin") PROVE Progress(p)
  BY <1>3, ContinueSound, StillSound DEF Locked, Looping, Stages, Fitting
<1>4. ASSUME j.status = "applying", GoTo(p, "prove"), op' = [op EXCEPT ![p].seen = ws],
             UNCHANGED <<lock, answer>>
      PROVE  Progress(p)
  <2> DEFINE o == [op[p] EXCEPT !.seen = ws]
  <2>1. o \in OpType /\ o.queue = op[p].queue
    BY DEF OpType
  <2>2. Works(p, "prove", o, j)
    BY <1>4, <2>1 DEF Works, GoTo, Locked
  <2>3. Sound(op[p].queue, "prove", j, ws')
    BY <1>4, StillSound DEF Stages, Locked, Fitting
  <2> QED
    BY <1>4, <2>1, <2>2, <2>3 DEF Progress, Stages, Locked
<1> QED
  BY <1>1, <1>2, <1>3, <1>4

LEMMA ProveSound ==
  ASSUME IInv, NEW p \in Proc, Prove(p)
  PROVE  Progress(p)
<1> USE Known DEF Prove, At
<1> DEFINE q == op[p].queue
           k == Recorded(q, op[p].seen)
<1>1. CASE ~Reverses(ws, Current(q))
  BY <1>1, FinishSound DEF Answers, Locked
<1>2. CASE Reverses(ws, Current(q))
  <2>1. journal[q].status = "applying" /\ op[p].seen \in Workspace
    BY DEF Fitting, OpType
  <2>2. k \in JournalType /\ Valid(q, k) /\ k.status \in {"pending", "completed"} /\ Journaled(ws, q, k)
    BY <2>1, RecordedSound
  <2>3. journal' = [journal EXCEPT ![q] = k]
    BY <1>2 DEF Write
  <2>4. CASE k.status = "completed" /\ Finish(p, "replayed")
    <3>1. Works(p, "idle", NoOp, k) /\ answer' \in [Proc -> Answers]
      BY <2>2, <2>3, <2>4, Ways DEF Answers, Locked
    <3>2. Sound(q, "idle", k, ws')
      BY <2>2, <2>4 DEF Sound, Fitting, Status
    <3> QED
      BY <3>1, <3>2, <2>2, NoOpTyped DEF Progress, Stages
  <2>5. CASE k.status = "pending" /\ Continue(p, "begin")
    <3>1. Sound(q, "begin", k, ws')
      BY <2>2, <2>5 DEF Sound, Fitting
    <3> QED
      BY <3>1, <2>2, <2>3, <2>5, ContinueSound DEF Locked, Looping
  <2> QED
    BY <1>2, <2>2, <2>4, <2>5
<1> QED
  BY <1>1, <1>2

LEMMA RestartSound ==
  ASSUME IInv, NEW p \in Proc, Restart(p)
  PROVE  Progress(p)
<1> USE Known DEF Restart, At
<1>1. CASE ws # Clean
  BY <1>1, FinishSound DEF Answers, Locked
<1>2. CASE ws = Clean
  <2>1. Sound(op[p].queue, "begin", Fresh, ws')
    BY <1>2, FreshSound DEF Sound, Fitting
  <2> QED
    BY <1>2, <2>1, FreshSound, ContinueSound DEF Locked, Looping, Write
<1> QED
  BY <1>1, <1>2

LEMMA BeginSound ==
  ASSUME IInv, NEW p \in Proc, Begin(p)
  PROVE  Progress(p)
<1> USE Known DEF Begin, At
<1> DEFINE q == op[p].queue
           j == journal[q]
           k == [status |-> "applying", applied |-> j.applied, lastError |-> "none"]
<1>1. CASE ws # Prefix(j)
  BY <1>1, FinishSound DEF Answers, Locked, Looping
<1>2. CASE ws = Prefix(j)
  <2>1. k \in JournalType /\ j.status # "completed"
    BY DEF JournalType, Fitting, Status, Cause
  <2>2. Valid(q, k)
    BY <2>1 DEF Valid
  <2>3. Journaled(ws, q, k)
    BY DEF Journaled
  <2>4. Sound(q, "check", k, ws')
    BY <2>1, <2>2, <2>3 DEF Sound, Fitting
  <2> QED
    BY <1>2, <2>1, <2>4, ContinueSound DEF Locked, Looping, Write
<1> QED
  BY <1>1, <1>2

LEMMA CheckSound ==
  ASSUME IInv, NEW p \in Proc, Check(p)
  PROVE  Progress(p)
<1> USE Known DEF Check, At
<1>1. CASE Continue(p, "apply")
  BY <1>1, ContinueSound, StillSound DEF Locked, Looping, Stages, Fitting
<1>2. CASE RollBackFor(p, "conflict")
  BY <1>2, RollBackForSound DEF Looping, Cause
<1> QED
  BY <1>1, <1>2

\* What git apply adds, whole or torn.
LEMMA Adding ==
  ASSUME NEW w \in Workspace, NEW x \in Patch
  PROVE  /\ Added(w, x) \in Workspace /\ Present(Added(w, x)) = Present(w) \cup {x}
         /\ Added(w, x).whole = w.whole \cup {x} /\ Added(w, x).torn = w.torn
         /\ Torn(w, x) \in Workspace /\ Present(Torn(w, x)) = Present(w) \cup {x}
         /\ Torn(w, x).whole = w.whole /\ Torn(w, x).torn = w.torn \cup {x}
BY DEF Added, Torn, Workspace, Content, Present

\* What is left when contents are taken out, or half taken out.
LEMMA Removing ==
  ASSUME NEW w \in Workspace, NEW S
  PROVE  /\ Without(w, S) \in Workspace /\ Present(Without(w, S)) = Present(w) \ S
         /\ Without(w, S).whole = w.whole \ S /\ Without(w, S).torn = w.torn \ S
         /\ \A v \in Interrupted(w, S) :
              v \in Workspace /\ Present(v) \subseteq Present(w) /\ v.whole \subseteq w.whole
<1>1. Without(w, S) \in Workspace
  BY DEF Without, Workspace
<1>2. ASSUME NEW v \in Interrupted(w, S)
      PROVE  v \in Workspace /\ Present(v) \subseteq Present(w) /\ v.whole \subseteq w.whole
  <2>1. v \in Workspace
    BY <1>2 DEF Interrupted
  <2>2. PICK gone \in SUBSET (w.whole \cap S), lost \in SUBSET (w.torn \cap S),
             half \in SUBSET (w.whole \cap S \cap Patch) :
          v = [whole |-> w.whole \ gone, torn |-> (w.torn \ lost) \cup half]
    BY <1>2 DEF Interrupted
  <2> QED
    BY <2>1, <2>2 DEF Present
<1> QED
  BY <1>1, <1>2 DEF Without, Present

LEMMA ApplySound ==
  ASSUME IInv, NEW p \in Proc, Apply(p)
  PROVE  Progress(p)
<1> USE Known DEF Apply, At
<1> DEFINE q == op[p].queue
<1>1. journal[q].status = "applying"
  BY DEF Fitting
<1>2. Current(q) \in PatchesOf(q) /\ Current(q) \in Patch
  BY <1>1, CurrentIn
<1>3. CASE ws' = Added(ws, Current(q)) /\ Continue(p, "record")
  <2>1. ws' \in Workspace /\ Present(ws') = Present(ws) \cup {Current(q)}
    BY <1>2, <1>3, Adding
  <2>2. Sound(q, "record", journal[q], ws')
    BY <1>1, <2>1, DeclaredSound DEF Sound, Fitting
  <2> QED
    BY <1>2, <1>3, <2>1, <2>2, ContinueSound DEF Locked, Looping
<1>4. CASE RollBackFor(p, "conflict") /\ UNCHANGED ws
  BY <1>4, RollBackForSound DEF Looping, Cause
<1> QED
  BY <1>3, <1>4

LEMMA RecordSound ==
  ASSUME IInv, NEW p \in Proc, Record(p)
  PROVE  Progress(p)
<1> USE Known DEF Record, At
<1> DEFINE q == op[p].queue
           k == Recorded(q, ws)
<1>1. journal[q].status = "applying"
  BY DEF Fitting
<1>2. k \in JournalType /\ Valid(q, k) /\ k.status \in {"pending", "completed"} /\ Journaled(ws, q, k)
  BY <1>1, RecordedSound
<1>3. journal' = [journal EXCEPT ![q] = k]
  BY DEF Write
<1>4. CASE k.status = "completed" /\ Finish(p, "committed")
  <2>1. Works(p, "idle", NoOp, k) /\ answer' \in [Proc -> Answers]
    BY <1>2, <1>3, <1>4, Ways DEF Answers, Locked, Looping
  <2>2. Sound(q, "idle", k, ws')
    BY <1>2, <1>4 DEF Sound, Fitting, Status
  <2> QED
    BY <2>1, <2>2, <1>2, NoOpTyped DEF Progress, Stages
<1>5. CASE k.status = "pending" /\ Continue(p, "begin")
  <2>1. Sound(q, "begin", k, ws')
    BY <1>2, <1>5 DEF Sound, Fitting
  <2> QED
    BY <2>1, <1>2, <1>3, <1>5, ContinueSound DEF Locked, Looping
<1> QED
  BY <1>4, <1>5

LEMMA ResetSound ==
  ASSUME IInv, NEW p \in Proc, Reset(p)
  PROVE  Progress(p)
<1> USE Known DEF Reset, At
<1> DEFINE q == op[p].queue
<1>1. ws' \in Workspace /\ Present(ws') = Present(ws) \ Tracked
  BY Removing
<1>2. PatchesOf(q) \cap Present(ws') \subseteq Adds
  BY <1>1 DEF Tracked, Content, Present, Workspace
<1>3. Sound(q, "clean", journal[q], ws')
  BY <1>1, <1>2 DEF Sound, Fitting, Journaled
<1> QED
  BY <1>1, <1>3, ContinueSound DEF Locked

LEMMA CleanUpSound ==
  ASSUME IInv, NEW p \in Proc, CleanUp(p)
  PROVE  Progress(p)
<1> USE Known DEF CleanUp, At
<1> DEFINE q == op[p].queue
<1>1. ws' \in Workspace /\ Present(ws') = Present(ws) \ Adds
  BY Removing
<1>2. PatchesOf(q) \cap Present(ws') = {}
  BY <1>1 DEF IInv, Undone, UndoneOf
<1>3. Sound(q, "rolled", journal[q], ws')
  BY <1>1, <1>2 DEF Sound, Fitting, Journaled
<1> QED
  BY <1>1, <1>3, ContinueSound DEF Locked

LEMMA RollBackSound ==
  ASSUME IInv, NEW p \in Proc, RollBack(p)
  PROVE  Progress(p)
<1> USE Known DEF RollBack, At
<1> DEFINE q == op[p].queue
           k == [status |-> "rolled-back", applied |-> <<>>, lastError |-> op[p].cause]
<1>1. k \in JournalType /\ Len(k.applied) = 0
  BY EmptySeq DEF JournalType, Status, OpType
<1>2. Valid(q, k)
  BY <1>1, Patches DEF Valid
<1>3. PatchesOf(q) \cap Present(ws) = {}
  BY DEF IInv, Undone, UndoneOf
<1>4. Journaled(ws, q, k)
  BY <1>3 DEF Journaled, PatchesOf
<1>5. Works(p, "idle", NoOp, k) /\ answer' \in [Proc -> Answers]
  BY <1>1, Ways DEF Answers, Locked, Write
<1>6. Sound(q, "idle", k, ws')
  BY <1>1, <1>2, <1>4 DEF Sound, Fitting, Status
<1> QED
  BY <1>1, <1>5, <1>6, NoOpTyped DEF Progress, Stages

LEMMA FaultSound ==
  ASSUME IInv, NEW p \in Proc, Fault(p)
  PROVE  Progress(p)
<1> USE Known DEF Fault, At
<1> DEFINE q == op[p].queue
<1>1. CASE stage[p] \in Looping /\ RollBackFor(p, "fault")
  <2>1. ws' \in Workspace /\ Present(ws') \subseteq Present(ws) \cup PatchesOf(q)
        /\ Journaled(ws', q, journal[q])
    <3>1. CASE stage[p] = "apply" /\ ws' = Torn(ws, Current(q))
      <4>1. journal[q].status = "applying"
        BY <3>1 DEF Fitting
      <4>2. Current(q) \in PatchesOf(q) /\ Current(q) \in Patch
        BY <4>1, CurrentIn
      <4>3. ws' \in Workspace /\ Present(ws') = Present(ws) \cup {Current(q)}
        BY <3>1, <4>2, Adding
      <4> QED
        BY <4>1, <4>2, <4>3, DeclaredSound
    <3>2. CASE ws' = ws
      BY <3>2
    <3> QED
      BY <1>1, <3>1, <3>2 DEF Damaged, Looping
  <2> QED
    BY <1>1, <2>1, RollBackForSound DEF Cause
<1>2. CASE stage[p] \in Locked \ Looping /\ Finish(p, "failed")
  <2>1. ws' \in Workspace /\ Present(ws') \subseteq Present(ws)
    BY <1>2, Removing DEF Damaged, Looping
  <2> QED
    BY <1>2, <2>1, FinishSound DEF Answers
<1> QED
  BY <1>1, <1>2

LEMMA OwnerSteps ==
  ASSUME IInv, NEW p \in Proc,
         \/ Open(p) \/ Create(p) \/ Reconcile(p) \/ Prove(p) \/ Restart(p)
         \/ Begin(p) \/ Check(p) \/ Apply(p) \/ Record(p)
         \/ Reset(p) \/ CleanUp(p) \/ RollBack(p) \/ Fault(p)
  PROVE  Progress(p)
BY OpenSound, CreateSound, ReconcileSound, ProveSound, RestartSound, BeginSound, CheckSound,
   ApplySound, RecordSound, ResetSound, CleanUpSound, RollBackSound, FaultSound

-----------------------------------------------------------------------------
(***************************************************************************)
(* The other steps: none of them writes a journal or adds a patch.         *)
(***************************************************************************)
LEMMA LeavingKeeps ==
  ASSUME IInv, NEW p \in Proc, NEW s \in Stages \ (Locked \ {"open"}), NEW o \in OpType,
         stage' = [stage EXCEPT ![p] = s], op' = [op EXCEPT ![p] = o],
         journal' = journal, ws' \in Workspace,
         \/ Present(ws') \subseteq Present(ws)
         \/ /\ stage[p] \in Locked
            /\ Present(ws') \subseteq Present(ws) \cup PatchesOf(op[p].queue)
            /\ Journaled(ws', op[p].queue, journal[op[p].queue]),
         moved' \in BOOLEAN, answer' \in [Proc -> Answers], edits' = edits,
         lock' \in [Queue -> Proc \cup {NoProc}],
         s = "open" => lock'[o.queue] = p,
         \A r \in Proc \ {p} : stage[r] \in Locked => lock'[op[r].queue] = r
  PROVE  IInv'
<1> USE Known
<1>1. \A r \in Proc \ {p} : stage'[r] = stage[r] /\ op'[r] = op[r]
  OBVIOUS
<1>2. stage'[p] = s /\ op'[p] = o
  OBVIOUS
<1>3. TypeOK'
  <2>1. /\ journal' \in [Queue -> JournalType] /\ \A q \in Queue : Valid(q, journal[q])
        /\ edits \in 0..MaxEdits
    BY TypeParts DEF IInv
  <2>2. stage' \in [Proc -> Stages] /\ op' \in [Proc -> OpType]
    OBVIOUS
  <2> QED
    BY <2>1, <2>2 DEF TypeOK, JournalType, Stages, OpType, Answers, Valid
<1>4. Owned'
  BY <1>1, <1>2 DEF Owned, OwnedOf
<1>5. Placed'
  <2>1. Fitting(s) = Status \cup {"missing"}
    BY DEF Fitting, Stages, Locked, Looping
  <2>2. journal[o.queue] \in JournalType
    BY TypeParts DEF IInv, OpType
  <2>3. journal[o.queue].status \in Fitting(s)
    BY <2>1, <2>2 DEF JournalType
  <2> QED
    BY <1>1, <1>2, <2>3 DEF IInv, Placed, PlacedOf
<1>6. Absent'
  BY DEF IInv, Absent
<1>7. \A q \in Queue : q # op[p].queue => PatchesOf(q) \cap Present(ws') \subseteq Present(ws)
  BY DisjointAssumption
<1>8. Undone'
  <2>1. ASSUME NEW r \in Proc \ {p}, stage[r] \in {"clean", "rolled"}
        PROVE  PatchesOf(op[r].queue) \cap Present(ws') \subseteq Present(ws)
    BY <1>7, <2>1, OwnersApart DEF Locked, Looping, OpType
  <2>2. s \notin {"clean", "rolled"}
    BY DEF Locked, Looping
  <2> QED
    BY <1>1, <1>2, <2>1, <2>2 DEF IInv, Undone, UndoneOf
<1>9. WorkspaceJournaled'
  <2>1. Journaled(ws', op[p].queue, journal[op[p].queue])
    BY DEF Journaled
  <2>2. ASSUME NEW q \in Queue, q # op[p].queue PROVE Journaled(ws', q, journal[q])
    BY <1>7, <2>2, JournaledParts DEF IInv, Journaled, PatchesOf
  <2> QED
    BY <1>3, <2>1, <2>2 DEF WorkspaceJournaled, Journaled
<1> QED
  BY <1>3, <1>4, <1>5, <1>6, <1>8, <1>9 DEF IInv

LEMMA AsideKeeps ==
  ASSUME IInv, NEW p \in Proc, NEW s \in Stages \ (Locked \ {"open"}), NEW o \in OpType,
         stage' = [stage EXCEPT ![p] = s], op' = [op EXCEPT ![p] = o],
         UNCHANGED <<journal, ws, edits>>,
         moved' \in BOOLEAN, answer' \in [Proc -> Answers],
         lock' \in [Queue -> Proc \cup {NoProc}],
         s = "open" => lock'[o.queue] = p,
         \A r \in Proc \ {p} : stage[r] \in Locked => lock'[op[r].queue] = r
  PROVE  IInv'
BY Known, LeavingKeeps

LEMMA OutsideKeeps ==
  ASSUME IInv, UNCHANGED <<journal, lock, stage, op, answer>>,
         ws' \in Workspace, Present(ws') \cap Patch \subseteq Present(ws),
         moved' \in BOOLEAN, edits' \in 0..MaxEdits
  PROVE  IInv'
<1>1. TypeOK'
  BY DEF IInv, TypeOK, Valid
<1>2. \A q \in Queue : PatchesOf(q) \cap Present(ws') \subseteq Present(ws)
  BY Patches
<1>3. Undone'
  <2>1. \A p \in Proc : op[p].queue \in Queue
    BY Known
  <2> QED
    BY <2>1, <1>2 DEF IInv, Undone, UndoneOf
<1>4. WorkspaceJournaled'
  <2>1. \A q \in Queue : Journaled(ws', q, journal[q])
    BY <1>2, JournaledParts DEF IInv, Journaled, PatchesOf
  <2> QED
    BY <1>1, <2>1 DEF WorkspaceJournaled, Journaled
<1> QED
  BY <1>1, <1>3, <1>4 DEF IInv, Owned, OwnedOf, Placed, PlacedOf, Absent

LEMMA TakeLockKeeps ==
  ASSUME IInv, NEW p \in Proc, TakeLock(p)
  PROVE  IInv'
<1> USE Known DEF TakeLock, At, GoTo
<1>1. lock \in [Queue -> Proc \cup {NoProc}] /\ NoProc \notin Proc
  BY TypeParts, NamesAssumption DEF IInv
<1>2. \A r \in Proc \ {p} : stage[r] \in Locked => lock'[op[r].queue] = r
  BY <1>1 DEF IInv, Owned, OwnedOf
<1>3. op' = [op EXCEPT ![p] = op[p]] /\ lock'[op[p].queue] = p
  BY <1>1
<1>4. lock' \in [Queue -> Proc \cup {NoProc}] /\ "open" \in Stages \ (Locked \ {"open"})
  BY <1>1 DEF Stages, Locked
<1> QED
  BY <1>2, <1>3, <1>4, AsideKeeps

\* The steps of a process without a lock.
LEMMA UnlockedKeeps ==
  ASSUME IInv, NEW p \in Proc,
         \/ \E q \in Queue : Integrate(p, q)
         \/ LockTimeout(p)
         \/ \E x \in UNION {PatchesOf(q) : q \in Queue} : FindCompleted(p, x)
         \/ ReadHead(p) \/ Match(p)
  PROVE  IInv'
<1> USE Known
<1>1. /\ \A r \in Proc : stage[r] \in Locked => lock[op[r].queue] = r
      /\ lock \in [Queue -> Proc \cup {NoProc}]
  BY TypeParts DEF IInv, Owned, OwnedOf
<1>2. ASSUME NEW s \in {"idle", "lock", "head", "match"}, NEW o \in OpType, GoTo(p, s),
             op' = [op EXCEPT ![p] = o], answer' \in [Proc -> Answers],
             UNCHANGED <<journal, ws, moved, lock, edits>>
      PROVE  IInv'
  BY <1>1, <1>2, AsideKeeps DEF GoTo, Stages, Locked, Looping
<1>3. ASSUME NEW a \in Answers, Answer(p, a), UNCHANGED <<journal, ws, moved, lock, edits>>
      PROVE  IInv'
  BY <1>2, <1>3, NoOpTyped DEF Answer
<1>4. ASSUME NEW q \in Queue, Integrate(p, q) PROVE IInv'
  <2>1. [op[p] EXCEPT !.queue = q] \in OpType
    BY DEF OpType
  <2>2. op' = [op EXCEPT ![p] = [op[p] EXCEPT !.queue = q]]
    BY <1>4 DEF Integrate
  <2>3. answer' \in [Proc -> Answers]
    BY <1>4 DEF Integrate, Answers
  <2> QED
    BY <1>2, <1>4, <2>1, <2>2, <2>3 DEF Integrate
<1>5. CASE LockTimeout(p)
  BY <1>5, <1>3 DEF LockTimeout, Answers
<1>6. ASSUME NEW x \in UNION {PatchesOf(q) : q \in Queue}, FindCompleted(p, x) PROVE IInv'
  <2> DEFINE j == journal[QueueOf(x)]
  <2>1. QueueOf(x) \in Queue /\ x \in Patch
    BY Patches DEF QueueOf
  <2>2. Prefix(j) \in Workspace
    <3>1. j \in JournalType
      BY <2>1, TypeParts DEF IInv
    <3>2. j.applied # <<>> => j.applied[Len(j.applied)] \in Workspace
      BY <3>1, LenProperties, EmptySeq, ElementOfSeq DEF JournalType
    <3> QED
      BY <3>2 DEF Prefix, Clean, Workspace
  <2>3. CASE j.status # "completed"
    BY <1>6, <2>3, <1>3 DEF FindCompleted, Answers
  <2>4. CASE j.status = "completed"
    <3> DEFINE o1 == [op[p] EXCEPT !.patch = x]
               o == [o1 EXCEPT !.seen = Prefix(j)]
    <3>1. o1 \in OpType
      BY <2>1 DEF OpType
    <3>2. o \in OpType
      BY <2>2, <3>1 DEF OpType
    <3>3. op' = [op EXCEPT ![p] = o]
      BY <1>6, <2>4 DEF FindCompleted
    <3>4. answer' \in [Proc -> Answers] /\ GoTo(p, "head")
      BY <1>6, <2>4 DEF FindCompleted, Answers
    <3> QED
      BY <1>2, <1>6, <3>2, <3>3, <3>4 DEF FindCompleted
  <2> QED
    BY <2>3, <2>4
<1>7. CASE ReadHead(p)
  <2>1. CASE moved
    BY <1>7, <2>1, <1>3 DEF ReadHead, Answers
  <2>2. CASE ~moved
    <3>1. op' = [op EXCEPT ![p] = op[p]]
      BY <1>7, <2>2 DEF ReadHead
    <3> QED
      BY <1>7, <2>2, <3>1, <1>2 DEF ReadHead
  <2> QED
    BY <2>1, <2>2
<1>8. CASE Match(p)
  BY <1>8, <1>3 DEF Match, Answers
<1> QED
  BY <1>4, <1>5, <1>6, <1>7, <1>8

LEMMA StopKeeps ==
  ASSUME IInv, NEW p \in Proc, Stop(p)
  PROVE  IInv'
<1> USE Known DEF Stop, GoTo, At
<1> DEFINE q == op[p].queue
<1>1. \/ ws' \in Workspace /\ Present(ws') \subseteq Present(ws)
      \/ /\ stage[p] \in Locked /\ ws' \in Workspace
         /\ Present(ws') \subseteq Present(ws) \cup PatchesOf(q)
         /\ Journaled(ws', q, journal[q])
  <2>1. CASE stage[p] = "apply" /\ ws' = Torn(ws, Current(q))
    <3>1. journal[q].status = "applying"
      BY <2>1 DEF Fitting
    <3>2. Current(q) \in PatchesOf(q) /\ Current(q) \in Patch
      BY <3>1, CurrentIn
    <3>3. ws' \in Workspace /\ Present(ws') = Present(ws) \cup {Current(q)}
      BY <2>1, <3>2, Adding
    <3> QED
      BY <2>1, <3>1, <3>2, <3>3, DeclaredSound DEF Locked, Looping
  <2>2. CASE ws' \in {ws} \cup Interrupted(ws, Tracked) \cup Interrupted(ws, Adds)
    BY <2>2, Removing
  <2> QED
    BY <2>1, <2>2 DEF Damaged
<1>2. \A r \in Proc \ {p} : stage[r] \in Locked => lock'[op[r].queue] = r
  BY DEF IInv, Owned, OwnedOf, OpType
<1>3. lock' \in [Queue -> Proc \cup {NoProc}]
  BY TypeParts DEF IInv
<1> QED
  BY <1>1, <1>2, <1>3, NoOpTyped, LeavingKeeps DEF Stages, Locked, Looping

LEMMA EditKeeps ==
  ASSUME IInv, NEW w \in Workspace, Edit(w)
  PROVE  IInv'
<1>1. edits' \in 0..MaxEdits
  BY EditsAssumption, TypeParts DEF IInv, Edit
<1>2. Present(ws') \cap Patch \subseteq Present(ws)
  BY NamesAssumption DEF Edit, Present
<1> QED
  BY <1>1, <1>2, OutsideKeeps, TypeParts DEF IInv, Edit

LEMMA CommitKeeps ==
  ASSUME IInv, Commit
  PROVE  IInv'
<1>1. edits' \in 0..MaxEdits
  BY EditsAssumption, TypeParts DEF IInv, Commit
<1>2. ws' \in Workspace /\ Present(ws') \subseteq Present(ws)
  BY TypeParts DEF IInv, Commit, Clean, Workspace, Present
<1> QED
  BY <1>1, <1>2, OutsideKeeps DEF Commit

LEMMA IInvInitially ==
  ASSUME Init
  PROVE  IInv
<1>1. NoJournal \in JournalType /\ Len(NoJournal.applied) = 0
  BY EmptySeq DEF NoJournal, JournalType, Cause
<1>2. \A q \in Queue : Valid(q, NoJournal)
  BY <1>1, Patches DEF Valid, NoJournal
<1>3. Clean \in Workspace /\ Present(Clean) = {}
  BY DEF Clean, Workspace, Present
<1>4. TypeOK
  <2>1. journal \in [Queue -> JournalType] /\ \A q \in Queue : Valid(q, journal[q])
    BY <1>1, <1>2 DEF Init
  <2>2. lock \in [Queue -> Proc \cup {NoProc}] /\ stage \in [Proc -> Stages]
    BY DEF Init, Stages
  <2>3. op \in [Proc -> OpType] /\ answer \in [Proc -> Answers]
    BY NoOpTyped DEF Init, Answers
  <2>4. ws \in Workspace /\ moved \in BOOLEAN
    BY <1>3 DEF Init
  <2>5. edits \in 0..MaxEdits
    BY EditsAssumption DEF Init
  <2> QED
    BY <2>1, <2>2, <2>3, <2>4, <2>5, TypeParts
<1>5. NoOp.queue \in Queue
  BY NoOpTyped DEF OpType
<1>6. Owned /\ Placed /\ Absent /\ Undone
  BY <1>5 DEF Init, Owned, OwnedOf, Placed, PlacedOf, Absent, Undone, UndoneOf, Fitting, Locked, Looping, NoJournal
<1>7. WorkspaceJournaled
  BY <1>3, <1>4 DEF Init, WorkspaceJournaled
<1> QED
  BY <1>4, <1>6, <1>7 DEF IInv

LEMMA IInvKept ==
  ASSUME IInv, [Next]_vars
  PROVE  IInv'
<1>1. ASSUME NEW p \in Proc, Step(p) PROVE IInv'
  BY <1>1, OwnerSteps, ProgressKeeps, TakeLockKeeps, UnlockedKeeps DEF Step
<1>2. ASSUME NEW p \in Proc, Fault(p) PROVE IInv'
  BY <1>2, OwnerSteps, ProgressKeeps
<1>3. CASE UNCHANGED vars
  BY <1>3, OutsideKeeps, Known, TypeParts DEF vars, IInv
<1> QED
  BY <1>1, <1>2, <1>3, UnlockedKeeps, StopKeeps, EditKeeps, CommitKeeps DEF Next

\* The queues' files, locks and operations are well-formed and no process loses
\* its lock, whatever stops or fails where.
LEMMA Invariant == Spec => []IInv
<1>1. Init => IInv
  BY IInvInitially
<1>2. IInv /\ [Next]_vars => IInv'
  BY IInvKept
<1> QED
  BY <1>1, <1>2, PTL DEF Spec

\* Every journal on disk passes validateIntegrationJournal.
THEOREM TypeCorrect == Spec => []TypeOK
<1>1. IInv => TypeOK
  BY DEF IInv
<1> QED
  BY <1>1, Invariant, PTL

\* Nothing of a queue is in the workspace that its journal does not tell, however
\* many queues, processes and stops there are: write-ahead before a patch is
\* applied, and a rollback on record only when it is done.
THEOREM WorkspaceNeverAhead == Spec => []WorkspaceJournaled
<1>1. IInv => WorkspaceJournaled
  BY DEF IInv
<1> QED
  BY <1>1, Invariant, PTL

-----------------------------------------------------------------------------
(***************************************************************************)
(* The queues implement PatchQueue.                                        *)
(***************************************************************************)

\* What a step may do to the queues' applied patches.
Unmoved == \A q \in Queue : journal'[q].applied = journal[q].applied
Moves(q) ==
  /\ journal[q].status # "completed"
  /\ \E k \in JournalType :
       /\ journal' = [journal EXCEPT ![q] = k]
       /\ Len(k.applied) \in {Len(journal[q].applied) + 1, 0}

LEMMA TakenChange ==
  ASSUME IInv, [Next]_vars
  PROVE  Unmoved \/ \E q \in Queue : Moves(q)
<1> USE Known
<1>1. ASSUME NEW p \in Proc, NEW k, k.applied = journal[op[p].queue].applied, Write(p, k)
      PROVE  Unmoved
  BY <1>1, TypeParts DEF IInv, Write, Unmoved
<1>2. ASSUME NEW p \in Proc, NEW h \in Workspace, journal[op[p].queue].status = "applying",
             Write(p, Recorded(op[p].queue, h))
      PROVE  Moves(op[p].queue)
  BY <1>2, RecordedSound DEF Write, Moves
<1>3. ASSUME NEW p \in Proc, Create(p) PROVE Unmoved
  <2>1. CASE UNCHANGED journal
    BY <2>1 DEF Unmoved
  <2>2. CASE Write(p, Fresh)
    <3>1. journal[op[p].queue] = NoJournal
      BY <1>3 DEF Create, At, Fitting
    <3> QED
      BY <2>2, <3>1, <1>1 DEF NoJournal, Fresh
  <2> QED
    BY <1>3, <2>1, <2>2 DEF Create
<1>4. ASSUME NEW p \in Proc, Prove(p) PROVE Unmoved \/ Moves(op[p].queue)
  <2>1. journal[op[p].queue].status = "applying" /\ op[p].seen \in Workspace
    BY <1>4 DEF Prove, At, Fitting, OpType
  <2>2. UNCHANGED journal \/ Write(p, Recorded(op[p].queue, op[p].seen))
    BY <1>4 DEF Prove
  <2> QED
    BY <2>1, <2>2, <1>2 DEF Unmoved
<1>5. ASSUME NEW p \in Proc, Restart(p) PROVE Unmoved
  <2>1. CASE UNCHANGED journal
    BY <2>1 DEF Unmoved
  <2>2. CASE Write(p, Fresh)
    <3>1. journal[op[p].queue].applied = <<>>
      BY <1>5 DEF Restart, At, Fitting, Valid
    <3> QED
      BY <2>2, <3>1, <1>1 DEF Fresh
  <2> QED
    BY <1>5, <2>1, <2>2 DEF Restart
<1>6. ASSUME NEW p \in Proc, Begin(p) PROVE Unmoved
  BY <1>6, <1>1 DEF Begin, Unmoved
<1>7. ASSUME NEW p \in Proc, Record(p) PROVE Moves(op[p].queue)
  BY <1>7, <1>2 DEF Record, At, Fitting
<1>8. ASSUME NEW p \in Proc, RollBack(p) PROVE Moves(op[p].queue)
  <2> DEFINE k == [status |-> "rolled-back", applied |-> <<>>, lastError |-> op[p].cause]
  <2>1. k \in JournalType /\ Len(k.applied) = 0
    BY EmptySeq DEF JournalType, Status, OpType
  <2>2. journal[op[p].queue].status # "completed"
    BY <1>8 DEF RollBack, At, Fitting
  <2> QED
    BY <1>8, <2>1, <2>2 DEF RollBack, Write, Moves
<1>9. ASSUME NEW p \in Proc, Step(p) PROVE Unmoved \/ \E q \in Queue : Moves(q)
  <2>1. CASE \/ TakeLock(p) \/ LockTimeout(p) \/ Open(p) \/ Reconcile(p) \/ Check(p) \/ Apply(p)
             \/ Reset(p) \/ CleanUp(p) \/ ReadHead(p) \/ Match(p)
    BY <2>1 DEF TakeLock, LockTimeout, Open, Reconcile, Check, Apply, Reset, CleanUp, ReadHead,
                Match, Unmoved
  <2> QED
    BY <1>3, <1>4, <1>5, <1>6, <1>7, <1>8, <1>9, <2>1 DEF Step
<1>10. CASE UNCHANGED journal
  BY <1>10 DEF Unmoved
<1>11. ASSUME NEW p \in Proc,
              \/ \E q \in Queue : Integrate(p, q)
              \/ \E x \in UNION {PatchesOf(q) : q \in Queue} : FindCompleted(p, x)
              \/ Fault(p) \/ Stop(p)
       PROVE  UNCHANGED journal
  BY <1>11 DEF Integrate, FindCompleted, Fault, Stop
<1>12. (\E w \in Workspace : Edit(w)) \/ Commit \/ UNCHANGED vars => UNCHANGED journal
  BY DEF Edit, Commit, vars
<1> QED
  BY <1>9, <1>10, <1>11, <1>12 DEF Next

\* The integration queues implement PatchQueue: patches are taken one at a time or
\* given up together, and a completed queue is final, whatever is replayed,
\* restarted or rolled back and whoever stops.
THEOREM PatchQueueImplemented == Spec => ImplementsPatchQueue
<1> DEFINE taken == [q \in Queue |-> Len(journal[q].applied)]
           size == [q \in Queue |-> Len(Order[q])]
<1>1. Init => Queues!Init
  BY EmptySeq DEF Init, Queues!Init, NoJournal
<1>2. IInv /\ [Next]_vars => [Queues!Next]_taken
  <2> SUFFICES ASSUME IInv, [Next]_vars PROVE [Queues!Next]_taken
    OBVIOUS
  <2>1. CASE Unmoved
    <3>1. taken' = taken
      BY <2>1 DEF Unmoved
    <3> QED
      BY <3>1
  <2>2. ASSUME NEW q \in Queue, Moves(q) PROVE Queues!Next
    <3>1. PICK k \in JournalType :
            /\ journal' = [journal EXCEPT ![q] = k]
            /\ Len(k.applied) \in {Len(journal[q].applied) + 1, 0}
      BY <2>2 DEF Moves
    <3>2. journal \in [Queue -> JournalType] /\ Valid(q, journal[q])
      BY TypeParts DEF IInv
    <3>3. taken' = [taken EXCEPT ![q] = Len(k.applied)]
      BY <3>1, <3>2
    <3>4. taken[q] < size[q]
      <4>1. Len(journal[q].applied) \in Nat /\ Len(journal[q].applied) + 1 \in 1..Len(Order[q])
        BY <2>2, CurrentIn, Patches DEF Moves
      <4> QED
        BY <4>1
    <3> QED
      BY <3>1, <3>3, <3>4 DEF Queues!Next, Queues!Take, Queues!GiveUp, Queues!Open
  <2> QED
    BY <2>1, <2>2, TakenChange
<1> QED
  BY <1>1, <1>2, Invariant, PTL DEF Spec, ImplementsPatchQueue, Queues!Spec

-----------------------------------------------------------------------------
(***************************************************************************)
(* A completed journal is final, and a lookup has read one.                *)
(***************************************************************************)
LEMMA WritesOpen ==
  ASSUME IInv, NEW p \in Proc, Step(p)
  PROVE  \/ UNCHANGED journal
         \/ /\ journal[op[p].queue].status # "completed"
            /\ \E k : Write(p, k)
<1>1. \/ UNCHANGED journal
      \/ /\ Create(p) \/ Prove(p) \/ Restart(p) \/ Begin(p) \/ Record(p) \/ RollBack(p)
         /\ \E k : Write(p, k)
  BY DEF Step, TakeLock, LockTimeout, Open, Create, Reconcile, Prove, Restart, Begin, Check, Apply,
         Record, Reset, CleanUp, RollBack, ReadHead, Match
<1>2. ASSUME Create(p) \/ Prove(p) \/ Restart(p) \/ Begin(p) \/ Record(p) \/ RollBack(p)
      PROVE  journal[op[p].queue].status # "completed"
  BY <1>2, Known DEF Create, Prove, Restart, Begin, Record, RollBack, At, Fitting
<1> QED
  BY <1>1, <1>2

LEMMA StepsAside ==
  ASSUME NEW p \in Proc,
         \/ \E q \in Queue : Integrate(p, q)
         \/ \E x \in UNION {PatchesOf(q) : q \in Queue} : FindCompleted(p, x)
         \/ Fault(p) \/ Stop(p)
  PROVE  UNCHANGED journal
BY DEF Integrate, FindCompleted, Fault, Stop

LEMMA CompletedFinal ==
  ASSUME IInv, [Next]_vars, NEW q \in Queue, journal[q].status = "completed"
  PROVE  journal'[q] = journal[q]
<1>1. ASSUME NEW p \in Proc, Step(p) PROVE journal'[q] = journal[q]
  BY <1>1, WritesOpen, Known, TypeParts DEF IInv, Write
<1>2. (\E w \in Workspace : Edit(w)) \/ Commit \/ UNCHANGED vars => UNCHANGED journal
  BY DEF Edit, Commit, vars
<1> QED
  BY <1>1, <1>2, StepsAside DEF Next

\* A process step is the only one that touches that process.
LEMMA OthersStay ==
  ASSUME IInv, NEW p \in Proc,
         \/ \E q \in Queue : Integrate(p, q)
         \/ \E x \in UNION {PatchesOf(q) : q \in Queue} : FindCompleted(p, x)
         \/ Step(p) \/ Fault(p) \/ Stop(p)
  PROVE  /\ \A r \in Proc \ {p} :
              stage'[r] = stage[r] /\ op'[r] = op[r] /\ answer'[r] = answer[r]
         /\ UNCHANGED <<rigid, edits>>
         /\ stage[p] \notin Locked => UNCHANGED <<journal, ws>>
<1> USE Known DEF GoTo, At, Answer, Finish, Continue, RollBackFor, Locked, Looping
<1>1. CASE \/ \E q \in Queue : Integrate(p, q)
           \/ \E x \in UNION {PatchesOf(q) : q \in Queue} : FindCompleted(p, x)
           \/ LockTimeout(p) \/ TakeLock(p) \/ ReadHead(p) \/ Match(p)
  BY <1>1 DEF Integrate, FindCompleted, LockTimeout, TakeLock, ReadHead, Match
<1>2. CASE Open(p) \/ Create(p) \/ Reconcile(p)
  BY <1>2 DEF Open, Create, Reconcile
<1>3. CASE Prove(p) \/ Restart(p) \/ Begin(p) \/ Check(p)
  BY <1>3 DEF Prove, Restart, Begin, Check
<1>4. CASE Apply(p) \/ Record(p) \/ Reset(p) \/ CleanUp(p) \/ RollBack(p)
  BY <1>4 DEF Apply, Record, Reset, CleanUp, RollBack
<1>5. CASE Fault(p)
  BY <1>5 DEF Fault
<1>6. CASE Stop(p)
  <2>1. stage[p] \notin Locked => ws' = ws
    BY <1>6 DEF Stop, Damaged
  <2> QED
    BY <1>6, <2>1 DEF Stop
<1> QED
  BY <1>1, <1>2, <1>3, <1>4, <1>5, <1>6 DEF Step

LEMMA LookupKept ==
  ASSUME IInv, Lookup, [Next]_vars
  PROVE  Lookup'
<1> DEFINE Read(x, w) ==
      \E q \in Queue : /\ x \in PatchesOf(q)
                       /\ journal[q].status = "completed"
                       /\ w = Prefix(journal[q])
<1>1. ASSUME NEW x, NEW w, Read(x, w)
      PROVE  \E q \in Queue : /\ x \in PatchesOf(q)
                              /\ journal'[q].status = "completed"
                              /\ w = Prefix(journal'[q])
  BY <1>1, CompletedFinal
<1>2. ASSUME NEW r \in Proc, stage'[r] = stage[r], op'[r] = op[r], answer'[r] = answer[r]
      PROVE  LookupOf(r)'
  BY <1>2, <1>1 DEF Lookup, LookupOf
<1>3. ASSUME NEW p \in Proc, stage'[p] \notin {"head", "match"}
      PROVE  LookupOf(p)'
  BY <1>3 DEF LookupOf
<1>4. ASSUME NEW p \in Proc, NEW x \in UNION {PatchesOf(q) : q \in Queue}, FindCompleted(p, x)
      PROVE  LookupOf(p)'
  <2> DEFINE j == journal[QueueOf(x)]
  <2>1. QueueOf(x) \in Queue /\ x \in PatchesOf(QueueOf(x))
    BY DEF QueueOf
  <2>2. CASE j.status # "completed"
    BY <1>3, <1>4, <2>2, Known DEF FindCompleted, Answer, GoTo
  <2>3. CASE j.status = "completed"
    <3> DEFINE o1 == [op[p] EXCEPT !.patch = x]
               o == [o1 EXCEPT !.seen = Prefix(j)]
    <3>1. op' = [op EXCEPT ![p] = o]
      BY <1>4, <2>3 DEF FindCompleted
    <3>2. op'[p].patch = x /\ op'[p].seen = Prefix(j)
      BY <3>1, Known DEF OpType
    <3>3. answer'[p] = "none"
      BY <1>4, <2>3, Known DEF FindCompleted
    <3>4. Read(x, Prefix(j))
      BY <2>1, <2>3
    <3> QED
      BY <3>2, <3>3, <3>4, <1>1 DEF LookupOf
  <2> QED
    BY <2>2, <2>3
<1>5. ASSUME NEW p \in Proc, ReadHead(p) PROVE LookupOf(p)'
  <2>1. CASE moved
    BY <1>3, <1>5, <2>1, Known DEF ReadHead, Answer, GoTo
  <2>2. CASE ~moved
    <3>1. op'[p] = op[p] /\ answer'[p] = answer[p] /\ stage[p] = "head"
      BY <1>5, <2>2 DEF ReadHead, At
    <3> QED
      BY <3>1, <1>1 DEF Lookup, LookupOf
  <2> QED
    BY <2>1, <2>2
<1>6. ASSUME NEW p \in Proc,
             (\E q \in Queue : Integrate(p, q)) \/ Fault(p) \/ Stop(p) \/ (Step(p) /\ ~ReadHead(p))
      PROVE  stage'[p] \notin {"head", "match"}
  <2> USE Known DEF GoTo, Answer, Finish, Continue, RollBackFor
  <2>1. CASE (\E q \in Queue : Integrate(p, q)) \/ Fault(p) \/ Stop(p)
    BY <2>1 DEF Integrate, Fault, Stop
  <2>2. CASE TakeLock(p) \/ LockTimeout(p) \/ Open(p) \/ Create(p) \/ Reconcile(p) \/ Match(p)
    BY <2>2 DEF TakeLock, LockTimeout, Open, Create, Reconcile, Match
  <2>3. CASE Prove(p) \/ Restart(p) \/ Begin(p) \/ Check(p)
    BY <2>3 DEF Prove, Restart, Begin, Check
  <2>4. CASE Apply(p) \/ Record(p) \/ Reset(p) \/ CleanUp(p) \/ RollBack(p)
    BY <2>4 DEF Apply, Record, Reset, CleanUp, RollBack
  <2> QED
    BY <1>6, <2>1, <2>2, <2>3, <2>4 DEF Step
<1>7. ASSUME NEW p \in Proc,
             \/ \E q \in Queue : Integrate(p, q)
             \/ \E x \in UNION {PatchesOf(q) : q \in Queue} : FindCompleted(p, x)
             \/ Step(p) \/ Fault(p) \/ Stop(p)
      PROVE  Lookup'
  <2>1. \A r \in Proc \ {p} : LookupOf(r)'
    BY <1>2, <1>7, OthersStay
  <2>2. LookupOf(p)'
    BY <1>3, <1>4, <1>5, <1>6, <1>7
  <2> QED
    BY <2>1, <2>2 DEF Lookup
<1>8. CASE (\E w \in Workspace : Edit(w)) \/ Commit \/ UNCHANGED vars
  <2>1. UNCHANGED <<stage, op, answer>>
    BY <1>8 DEF Edit, Commit, vars
  <2> QED
    BY <2>1, <1>2 DEF Lookup
<1> QED
  BY <1>7, <1>8 DEF Next

-----------------------------------------------------------------------------
(***************************************************************************)
(* The single queue, step by step.                                         *)
(***************************************************************************)
Lone(q) == Queue = {q} /\ IInv /\ Lookup /\ AloneInv /\ Untouched

\* What a step of p has to establish of the queue and of itself.
Turned(q, p) ==
  /\ QueueSettled(q, journal'[q], ws')
  /\ ProcSettled(q, stage'[p], op'[p], journal'[q], ws', answer'[p])
  /\ Smooth => ~moved' /\ (ws.torn # {} => ws'.torn # {})

LEMMA LoneKnown ==
  ASSUME NEW q, Lone(q), NEW p \in Proc
  PROVE  /\ q \in Queue /\ op[p].queue = q
         /\ QueueSettled(q, journal[q], ws)
         /\ ProcSettled(q, stage[p], op[p], journal[q], ws, answer[p])
         /\ Smooth => ~moved
BY Known DEF Lone, AloneInv

\* What the operators the actions share do to their process.
LEMMA Marks ==
  ASSUME IInv, NEW p \in Proc
  PROVE  /\ \A s : GoTo(p, s) => stage'[p] = s
         /\ \A a : Answer(p, a) => stage'[p] = "idle" /\ op'[p] = NoOp /\ answer'[p] = a
         /\ \A a : Finish(p, a) => stage'[p] = "idle" /\ op'[p] = NoOp /\ answer'[p] = a
         /\ \A s : Continue(p, s) => stage'[p] = s /\ op'[p] = op[p] /\ answer'[p] = answer[p]
         /\ \A c : RollBackFor(p, c) =>
              /\ stage'[p] = "reset" /\ answer'[p] = answer[p]
              /\ op'[p] = [op[p] EXCEPT !.cause = c] /\ op'[p].cause = c
         /\ \A k : Write(p, k) => journal'[op[p].queue] = k
         /\ journal[op[p].queue].status \in Fitting(stage[p])
         /\ op \in [Proc -> OpType] /\ op[p] \in OpType /\ answer \in [Proc -> Answers]
         /\ stage \in [Proc -> Stages]
<1> USE Known
<1>1. journal \in [Queue -> JournalType]
  BY TypeParts DEF IInv
<1>2. \A c : RollBackFor(p, c) => op'[p].cause = c
  BY DEF RollBackFor, OpType
<1>3. \A k : Write(p, k) => journal'[op[p].queue] = k
  BY <1>1 DEF Write
<1>4. \A a : Answer(p, a) => stage'[p] = "idle" /\ op'[p] = NoOp /\ answer'[p] = a
  BY DEF Answer, GoTo
<1>5. \A s : Continue(p, s) => stage'[p] = s /\ op'[p] = op[p] /\ answer'[p] = answer[p]
  BY DEF Continue, GoTo
<1>6. \A c : RollBackFor(p, c) =>
        /\ stage'[p] = "reset" /\ answer'[p] = answer[p] /\ op'[p] = [op[p] EXCEPT !.cause = c]
  BY DEF RollBackFor, GoTo
<1>7. \A s : GoTo(p, s) => stage'[p] = s
  BY DEF GoTo
<1> QED
  BY <1>2, <1>3, <1>4, <1>5, <1>6, <1>7 DEF Finish

\* A step that leaves the repository alone and does not watch it.
LEMMA QuietTurn ==
  ASSUME NEW q, Lone(q), NEW p \in Proc, UNCHANGED <<journal, ws, moved>>,
         stage'[p] \in {"idle", "lock", "head", "match", "open", "create", "reconcile"},
         op'[p].cause = "conflict" => op[p].cause = "conflict",
         answer'[p] = "unexplained" => answer[p] = "unexplained" \/ ~Smooth \/ ws.torn # {}
  PROVE  Turned(q, p)
BY LoneKnown DEF Turned, ProcSettled

LEMMA AnswerTurn ==
  ASSUME NEW q, Lone(q), NEW p \in Proc, NEW a, Answer(p, a) \/ Finish(p, a),
         UNCHANGED <<journal, ws, moved>>,
         a = "unexplained" => ~Smooth \/ ws.torn # {}
  PROVE  Turned(q, p)
<1>1. stage'[p] = "idle" /\ op'[p] = NoOp /\ answer'[p] = a
  BY Marks DEF Lone
<1> QED
  BY <1>1, QuietTurn DEF NoOp

LEMMA UptoNext ==
  ASSUME NEW q \in Queue, NEW n \in Nat, n + 1 \in DOMAIN Order[q]
  PROVE  /\ Upto(q, n + 1) = Upto(q, n) \cup {Order[q][n + 1]}
         /\ Order[q][n + 1] \notin Upto(q, n)
         /\ Upto(q, n + 1) \subseteq PatchesOf(q)
         /\ Upto(q, 0) = {}
<1>1. 1..(n + 1) = 1..n \cup {n + 1} /\ 1..0 = {}
  OBVIOUS
<1>2. \A i \in 1..n : i \in DOMAIN Order[q] /\ i # n + 1
  BY Patches
<1> QED
  BY <1>1, <1>2, DistinctAssumption DEF Upto, PatchesOf

\* The single queue while it has a patch to come.
LEMMA ComingKnown ==
  ASSUME NEW q, Lone(q), journal[q].status # "completed"
  PROVE  /\ q \in Queue /\ ws \in Workspace /\ journal[q] \in JournalType
         /\ After(q, journal[q]) = Current(q)
         /\ Current(q) \in PatchesOf(q) /\ Current(q) \in Patch
         /\ Current(q) \notin Done(q, journal[q])
         /\ Upto(q, Len(journal[q].applied) + 1) = Done(q, journal[q]) \cup {Current(q)}
         /\ Done(q, journal[q]) \subseteq PatchesOf(q)
         /\ QueueSettled(q, journal[q], ws)
<1>1. q \in Queue /\ IInv
  BY DEF Lone
<1>2. /\ Len(journal[q].applied) \in Nat
      /\ Len(journal[q].applied) + 1 \in DOMAIN Order[q]
      /\ Current(q) \in PatchesOf(q) /\ Current(q) \in Patch
  BY <1>1, CurrentIn
<1>3. ws \in Workspace /\ journal[q] \in JournalType /\ QueueSettled(q, journal[q], ws)
  BY <1>1, TypeParts DEF IInv, Lone, AloneInv
<1> QED
  BY <1>1, <1>2, <1>3, UptoNext DEF After, Current, Done

LEMMA FreshSettled ==
  ASSUME NEW q \in Queue
  PROVE  QueueSettled(q, Fresh, Clean)
<1>1. Upto(q, 0) = {}
  BY DEF Upto
<1>2. Len(<<>>) = 0
  OBVIOUS
<1> QED
  BY <1>1, <1>2, FreshSound DEF QueueSettled, Present, Clean, Done, Exactly

\* Recording the patch in flight, with the hash of the workspace as it is.
LEMMA RecordedSettled ==
  ASSUME NEW q, Lone(q), journal[q].status = "applying",
         "record" \notin faults => Current(q) \in ws.whole
  PROVE  QueueSettled(q, Recorded(q, ws), ws) /\ Prefix(Recorded(q, ws)) = ws
<1> DEFINE j == journal[q]
           k == Recorded(q, ws)
<1>1. q \in Queue /\ IInv /\ ws \in Workspace
  BY ComingKnown DEF Lone
<1>2. /\ k.status \in {"pending", "completed"} /\ k.lastError = j.lastError
      /\ Len(k.applied) = Len(j.applied) + 1
      /\ Prefix(k) = ws /\ Journaled(ws, q, k)
  BY <1>1, RecordedSound
<1>3. Done(q, k) = Done(q, j) \cup {Current(q)}
  BY <1>2, ComingKnown DEF Done
<1>4. Present(ws) \subseteq Done(q, k)
  <2>1. Present(ws) \subseteq PatchesOf(q)
    BY ComingKnown DEF QueueSettled
  <2>2. \A i \in DOMAIN Order[q] : Order[q][i] \in Present(ws) => i \in 1..Len(k.applied)
    BY <1>1, <1>2, Patches DEF Journaled
  <2> QED
    BY <2>1, <2>2 DEF Done, Upto, PatchesOf
<1>5. "record" \notin faults => Exactly(ws, Done(q, k))
  BY <1>3, ComingKnown DEF QueueSettled
<1> QED
  BY <1>2, <1>4, <1>5, ComingKnown DEF QueueSettled

\* What a command that breaks off leaves.
LEMMA DamagedSettled ==
  ASSUME NEW q, Lone(q), NEW p \in Proc, NEW w \in Damaged(p)
  PROVE  /\ QueueSettled(q, journal[q], w)
         /\ Smooth => (ws.torn # {} => w.torn # {})
         /\ stage[p] \in {"begin", "check", "apply", "reset", "clean", "rolled"}
              /\ "record" \notin faults => After(q, journal[q]) \notin w.whole
<1> DEFINE j == journal[q]
<1> USE LoneKnown
<1>1. IInv /\ j.status \in Fitting(stage[p])
  BY Marks DEF Lone
<1>2. ws \in Workspace
  BY <1>1, Known
<1>3. CASE stage[p] = "apply" /\ w = Torn(ws, Current(q))
  <2>1. j.status = "applying"
    BY <1>1, <1>3 DEF Fitting
  <2>2. Present(w) = Present(ws) \cup {Current(q)} /\ w.whole = ws.whole
        /\ w.torn = ws.torn \cup {Current(q)}
    BY <1>2, <2>1, ComingKnown, Adding, <1>3
  <2>3. ws = Prefix(j) /\ Current(q) \notin ws.whole
    BY <1>3, <2>1, ComingKnown DEF ProcSettled, QueueSettled, Present
  <2> QED
    BY <2>1, <2>2, <2>3, <1>3, ComingKnown DEF QueueSettled
<1>4. CASE stage[p] \in {"reset", "clean"}
         /\ (w \in Interrupted(ws, Tracked) \/ w \in Interrupted(ws, Adds))
  <2>1. ~Smooth
    BY <1>4 DEF ProcSettled
  <2>2. Present(w) \subseteq Present(ws) /\ w.whole \subseteq ws.whole
    BY <1>2, <1>4, Removing
  <2>3. "record" \notin faults => After(q, j) \notin ws.whole
    BY <1>4 DEF ProcSettled
  <2> QED
    BY <2>1, <2>2, <2>3 DEF QueueSettled
<1>5. CASE w = ws
  <2>1. CASE stage[p] \in {"begin", "check", "apply"}
    <3>1. ws = Prefix(j) /\ j.status # "completed"
      BY <1>1, <2>1 DEF ProcSettled, Fitting
    <3>2. Present(Prefix(j)) \subseteq Done(q, j)
      BY <3>1 DEF QueueSettled
    <3>3. After(q, j) \notin Done(q, j)
      BY <3>1, ComingKnown
    <3>4. After(q, j) \notin w.whole
      BY <3>1, <3>2, <3>3, <1>5 DEF Present
    <3> QED
      BY <3>4, <1>5
  <2>2. CASE stage[p] \in {"reset", "clean", "rolled"}
    BY <2>2, <1>5 DEF ProcSettled
  <2> QED
    BY <1>5, <2>1, <2>2
<1> QED
  BY <1>3, <1>4, <1>5 DEF Damaged, At

LEMMA AsideTurn ==
  ASSUME NEW q, Lone(q), NEW p \in Proc,
         \/ \E x \in Queue : Integrate(p, x)
         \/ \E x \in UNION {PatchesOf(r) : r \in Queue} : FindCompleted(p, x)
         \/ TakeLock(p) \/ LockTimeout(p) \/ ReadHead(p) \/ Match(p)
  PROVE  Turned(q, p)
<1> USE LoneKnown
<1>1. IInv
  BY DEF Lone
<1>2. ASSUME NEW x \in Queue, Integrate(p, x) PROVE Turned(q, p)
  <2>1. stage'[p] = "lock" /\ answer'[p] = "none"
    BY <1>1, <1>2, Marks DEF Integrate
  <2>2. op'[p] = [op[p] EXCEPT !.queue = x]
    BY <1>1, <1>2, Marks DEF Integrate
  <2>3. op'[p].cause = op[p].cause
    BY <1>1, <2>2, Marks DEF OpType
  <2> QED
    BY <1>2, <2>1, <2>3, QuietTurn DEF Integrate
<1>3. ASSUME NEW x \in UNION {PatchesOf(r) : r \in Queue}, FindCompleted(p, x) PROVE Turned(q, p)
  <2> DEFINE j == journal[QueueOf(x)]
  <2>1. CASE j.status # "completed"
    BY <1>3, <2>1, AnswerTurn DEF FindCompleted
  <2>2. CASE j.status = "completed"
    <3> DEFINE o1 == [op[p] EXCEPT !.patch = x]
               o == [o1 EXCEPT !.seen = Prefix(j)]
    <3>1. op' = [op EXCEPT ![p] = o]
      BY <1>3, <2>2 DEF FindCompleted
    <3>2. op'[p].cause = op[p].cause
      BY <1>1, <3>1, Marks DEF OpType
    <3>3. stage'[p] = "head" /\ answer'[p] = "none"
      BY <1>1, <1>3, <2>2, Marks DEF FindCompleted
    <3> QED
      BY <1>3, <3>2, <3>3, QuietTurn DEF FindCompleted
  <2> QED
    BY <2>1, <2>2
<1>4. CASE TakeLock(p)
  <2>1. stage'[p] = "open"
    BY <1>1, <1>4, Marks DEF TakeLock
  <2> QED
    BY <1>4, <2>1, QuietTurn DEF TakeLock
<1>5. CASE LockTimeout(p)
  BY <1>5, AnswerTurn DEF LockTimeout
<1>6. CASE ReadHead(p)
  <2>1. CASE moved
    BY <1>6, <2>1, AnswerTurn DEF ReadHead
  <2>2. CASE ~moved
    <3>1. stage'[p] = "match" /\ op'[p] = op[p] /\ answer'[p] = answer[p]
      BY <1>1, <1>6, <2>2, Marks DEF ReadHead
    <3> QED
      BY <1>6, <2>2, <3>1, QuietTurn DEF ReadHead
  <2> QED
    BY <2>1, <2>2
<1>7. CASE Match(p)
  <2>1. journal[q].status = "completed" /\ op[p].seen = Prefix(journal[q])
    BY <1>7 DEF Lone, Lookup, LookupOf, Match, At
  <2>2. ws # op[p].seen => ~Smooth \/ ws.torn # {}
    BY <2>1 DEF QueueSettled
  <2> QED
    BY <1>7, <2>2, AnswerTurn DEF Match
<1> QED
  BY <1>2, <1>3, <1>4, <1>5, <1>6, <1>7

LEMMA OpenTurn ==
  ASSUME NEW q, Lone(q), NEW p \in Proc, Open(p)
  PROVE  Turned(q, p)
<1>1. IInv
  BY DEF Lone
<1>2. CASE moved
  BY <1>2, AnswerTurn DEF Open
<1>3. ASSUME NEW s \in {"create", "reconcile"}, Continue(p, s) PROVE Turned(q, p)
  <2>1. stage'[p] = s /\ op'[p] = op[p] /\ answer'[p] = answer[p]
    BY <1>1, <1>3, Marks
  <2> QED
    BY <2>1, QuietTurn DEF Open
<1> QED
  BY <1>2, <1>3 DEF Open

LEMMA CreateTurn ==
  ASSUME NEW q, Lone(q), NEW p \in Proc, Create(p)
  PROVE  Turned(q, p)
<1> USE LoneKnown
<1>1. IInv
  BY DEF Lone
<1>2. CASE ws # Clean
  BY <1>2, AnswerTurn DEF Create
<1>3. CASE ws = Clean
  <2>1. journal'[q] = Fresh /\ stage'[p] = "reconcile" /\ op'[p] = op[p] /\ answer'[p] = answer[p]
    BY <1>1, <1>3, Marks DEF Create
  <2>2. QueueSettled(q, Fresh, Clean)
    BY FreshSettled
  <2>3. ProcSettled(q, "reconcile", op[p], Fresh, Clean, answer[p])
    BY <1>3 DEF ProcSettled
  <2> QED
    BY <1>3, <2>1, <2>2, <2>3 DEF Turned, Create
<1> QED
  BY <1>2, <1>3

LEMMA ReconcileTurn ==
  ASSUME NEW q, Lone(q), NEW p \in Proc, Reconcile(p)
  PROVE  Turned(q, p)
<1> USE LoneKnown
<1> DEFINE j == journal[q]
<1>1. IInv
  BY DEF Lone
<1>2. /\ UNCHANGED <<journal, ws, moved>>
      /\ \/ j.status = "completed" /\ Finish(p, IF ws = Prefix(j) THEN "replayed" ELSE "unexplained")
         \/ j.status = "rolled-back" /\ Continue(p, "restart")
         \/ j.status \in {"pending", "applying"} /\ ws = Prefix(j) /\ Continue(p, "begin")
         \/ j.status = "pending" /\ ws # Prefix(j) /\ Finish(p, "unexplained")
         \/ /\ j.status = "applying" /\ ws # Prefix(j) /\ GoTo(p, "prove")
            /\ op' = [op EXCEPT ![p].seen = ws] /\ UNCHANGED answer
  BY DEF Reconcile
<1>3. CASE j.status = "completed" /\ Finish(p, IF ws = Prefix(j) THEN "replayed" ELSE "unexplained")
  <2>1. ws # Prefix(j) => ~Smooth \/ ws.torn # {}
    BY <1>3 DEF QueueSettled
  <2> QED
    BY <1>2, <1>3, <2>1, AnswerTurn
<1>4. CASE j.status = "rolled-back" /\ Continue(p, "restart")
  <2>1. stage'[p] = "restart" /\ op'[p] = op[p] /\ answer'[p] = answer[p]
    BY <1>1, <1>4, Marks
  <2>2. ~Smooth
    BY <1>4 DEF QueueSettled
  <2> QED
    BY <1>2, <2>1, <2>2 DEF Turned, ProcSettled
<1>5. CASE ws = Prefix(j) /\ Continue(p, "begin")
  <2>1. stage'[p] = "begin" /\ op'[p] = op[p] /\ answer'[p] = answer[p]
    BY <1>1, <1>5, Marks
  <2> QED
    BY <1>2, <1>5, <2>1 DEF Turned, ProcSettled
<1>6. CASE j.status = "pending" /\ ws # Prefix(j) /\ Finish(p, "unexplained")
  <2>1. ~Smooth \/ ws.torn # {}
    BY <1>6 DEF QueueSettled
  <2> QED
    BY <1>2, <1>6, <2>1, AnswerTurn
<1>7. CASE /\ j.status = "applying" /\ ws # Prefix(j) /\ GoTo(p, "prove")
           /\ op' = [op EXCEPT ![p].seen = ws] /\ UNCHANGED answer
  <2>1. stage'[p] = "prove" /\ answer'[p] = answer[p]
    BY <1>1, <1>7, Marks
  <2>2. op'[p].seen = ws /\ op'[p].cause = op[p].cause
    BY <1>1, <1>7, Marks DEF OpType
  <2> QED
    BY <1>2, <1>7, <2>1, <2>2 DEF Turned, ProcSettled
<1> QED
  BY <1>2, <1>3, <1>4, <1>5, <1>6, <1>7

LEMMA ProveTurn ==
  ASSUME NEW q, Lone(q), NEW p \in Proc, Prove(p)
  PROVE  Turned(q, p)
<1> USE LoneKnown
<1> DEFINE j == journal[q]
           k == Recorded(q, ws)
<1>1. IInv
  BY DEF Lone
<1>2. op[p].seen = ws /\ ws # Prefix(j) /\ j.status = "applying"
  BY <1>1, Marks DEF Prove, At, ProcSettled, Fitting
<1>3. CASE ~Reverses(ws, Current(q))
  <2>1. ASSUME Smooth, ws.torn = {} PROVE FALSE
    <3>1. Current(q) \in ws.whole
      BY <1>2, <2>1, ComingKnown DEF QueueSettled
    <3>2. \A y : ~Clashing(Current(q), y)
      BY <2>1 DEF Smooth, Clashing
    <3> QED
      BY <1>3, <3>1, <3>2 DEF Reverses
  <2> QED
    BY <1>3, <2>1, AnswerTurn DEF Prove
<1>4. CASE Reverses(ws, Current(q))
  <2>1. QueueSettled(q, k, ws) /\ Prefix(k) = ws
    BY <1>2, <1>4, RecordedSettled DEF Reverses
  <2>2. Write(p, k) /\ UNCHANGED <<ws, moved>>
    BY <1>2, <1>4 DEF Prove
  <2>3. journal'[q] = k
    BY <1>1, <2>2, Marks
  <2>4. CASE Finish(p, "replayed")
    <3>1. stage'[p] = "idle" /\ op'[p] = NoOp /\ answer'[p] = "replayed"
      BY <1>1, <2>4, Marks
    <3> QED
      BY <2>1, <2>2, <2>3, <3>1 DEF Turned, ProcSettled, NoOp
  <2>5. CASE Continue(p, "begin")
    <3>1. stage'[p] = "begin" /\ op'[p] = op[p] /\ answer'[p] = answer[p]
      BY <1>1, <2>5, Marks
    <3> QED
      BY <2>1, <2>2, <2>3, <3>1 DEF Turned, ProcSettled
  <2> QED
    BY <1>4, <2>4, <2>5 DEF Prove
<1> QED
  BY <1>3, <1>4

LEMMA RestartTurn ==
  ASSUME NEW q, Lone(q), NEW p \in Proc, Restart(p)
  PROVE  Turned(q, p)
<1> USE LoneKnown
<1>1. IInv /\ ~Smooth
  BY DEF Lone, Restart, At, ProcSettled
<1>2. CASE ws # Clean
  BY <1>1, <1>2, AnswerTurn DEF Restart
<1>3. CASE ws = Clean
  <2>1. journal'[q] = Fresh /\ stage'[p] = "begin" /\ op'[p] = op[p] /\ answer'[p] = answer[p]
    BY <1>1, <1>3, Marks DEF Restart
  <2>2. QueueSettled(q, Fresh, Clean) /\ Prefix(Fresh) = Clean
    BY FreshSettled, FreshSound
  <2>3. ProcSettled(q, "begin", op[p], Fresh, Clean, answer[p])
    BY <1>1, <2>2 DEF ProcSettled
  <2> QED
    BY <1>1, <1>3, <2>1, <2>2, <2>3 DEF Turned, Restart
<1> QED
  BY <1>2, <1>3

LEMMA BeginTurn ==
  ASSUME NEW q, Lone(q), NEW p \in Proc, Begin(p)
  PROVE  Turned(q, p)
<1> USE LoneKnown
<1> DEFINE j == journal[q]
           k == [status |-> "applying", applied |-> j.applied, lastError |-> "none"]
<1>1. IInv /\ ws = Prefix(j)
  BY DEF Lone, Begin, At, ProcSettled
<1>2. j.status # "completed"
  BY <1>1, Marks DEF Begin, At, Fitting
<1>3. journal'[q] = k /\ stage'[p] = "check" /\ op'[p] = op[p] /\ answer'[p] = answer[p]
  BY <1>1, Marks DEF Begin
<1>4. Prefix(k) = Prefix(j) /\ Done(q, k) = Done(q, j) /\ After(q, k) = After(q, j)
  BY DEF Prefix, Done, After
<1>5. After(q, j) \notin ws.whole
  <2>1. Present(Prefix(j)) \subseteq Done(q, j)
    BY DEF QueueSettled
  <2>2. After(q, j) \notin Done(q, j)
    BY <1>2, ComingKnown
  <2> QED
    BY <1>1, <2>1, <2>2 DEF Present
<1>6. QueueSettled(q, k, ws)
  BY <1>1, <1>4, <1>5 DEF QueueSettled
<1>7. ProcSettled(q, "check", op[p], k, ws, answer[p])
  BY <1>1, <1>4 DEF ProcSettled
<1> QED
  BY <1>1, <1>3, <1>6, <1>7 DEF Turned, Begin

\* Before its next patch is applied the workspace is what the queue recorded.
LEMMA Readied ==
  ASSUME NEW q, Lone(q), NEW p \in Proc, stage[p] \in {"check", "apply"}
  PROVE  /\ journal[q].status = "applying" /\ ws = Prefix(journal[q])
         /\ Current(q) \notin Present(ws)
         /\ ~Fits(ws, Current(q)) => Conflicting(q) /\ ~Smooth
<1> USE LoneKnown
<1> DEFINE j == journal[q]
<1>1. IInv /\ ws = Prefix(j) /\ j.status \in Fitting(stage[p])
  BY Marks DEF Lone, ProcSettled
<1>2. j.status = "applying"
  BY <1>1 DEF Fitting
<1>3. Present(ws) \subseteq Done(q, j) /\ Present(ws) \subseteq PatchesOf(q)
  BY <1>1 DEF QueueSettled
<1>4. Current(q) \notin Present(ws) /\ Current(q) \in PatchesOf(q)
  BY <1>2, <1>3, ComingKnown
<1>5. ASSUME ~Fits(ws, Current(q)) PROVE Conflicting(q) /\ ~Smooth
  <2>1. PICK y \in Present(ws) : Clashing(Current(q), y)
    BY <1>4, <1>5 DEF Fits
  <2> QED
    BY <1>3, <1>4, <2>1 DEF Conflicting, Smooth, Clashing
<1> QED
  BY <1>1, <1>2, <1>4, <1>5

\* The next patch does not fit.
LEMMA ConflictTurn ==
  ASSUME NEW q, Lone(q), NEW p \in Proc, stage[p] \in {"check", "apply"},
         ~Fits(ws, Current(q)), RollBackFor(p, "conflict"), UNCHANGED <<journal, ws, moved>>
  PROVE  Turned(q, p)
<1> USE LoneKnown
<1>1. stage'[p] = "reset" /\ answer'[p] = answer[p]
  BY Marks DEF Lone
<1>2. Conflicting(q) /\ ~Smooth /\ After(q, journal[q]) \notin ws.whole
  BY Readied, ComingKnown DEF Present
<1> QED
  BY <1>1, <1>2 DEF Turned, ProcSettled

LEMMA CheckTurn ==
  ASSUME NEW q, Lone(q), NEW p \in Proc, Check(p)
  PROVE  Turned(q, p)
<1> USE LoneKnown
<1>1. stage[p] = "check" /\ UNCHANGED <<journal, ws, moved>>
  BY DEF Check, At
<1>2. CASE Continue(p, "apply")
  <2>1. stage'[p] = "apply" /\ op'[p] = op[p] /\ answer'[p] = answer[p]
    BY <1>2, Marks DEF Lone
  <2> QED
    BY <1>1, <2>1 DEF Turned, ProcSettled
<1>3. CASE ~Fits(ws, Current(q)) /\ RollBackFor(p, "conflict")
  BY <1>1, <1>3, ConflictTurn
<1> QED
  BY <1>2, <1>3 DEF Check

LEMMA ApplyTurn ==
  ASSUME NEW q, Lone(q), NEW p \in Proc, Apply(p)
  PROVE  Turned(q, p)
<1> USE LoneKnown
<1> DEFINE j == journal[q]
           w == Added(ws, Current(q))
<1>1. stage[p] = "apply" /\ UNCHANGED <<journal, moved>>
  BY DEF Apply, At
<1>2. CASE ws' = w /\ Continue(p, "record")
  <2>1. stage'[p] = "record" /\ op'[p] = op[p] /\ answer'[p] = answer[p]
    BY <1>2, Marks DEF Lone
  <2>2. j.status = "applying" /\ ws = Prefix(j)
    BY <1>1, Readied
  <2>3. /\ After(q, j) = Current(q) /\ Current(q) \in PatchesOf(q)
        /\ Present(w) = Present(ws) \cup {Current(q)}
        /\ w.whole = ws.whole \cup {Current(q)} /\ w.torn = ws.torn
    BY <2>2, ComingKnown, Adding
  <2>4. QueueSettled(q, j, w)
    <3>1. "record" \notin faults => Exactly(w, Done(q, j) \cup {After(q, j)})
      BY <2>2, <2>3 DEF QueueSettled, Exactly
    <3> QED
      BY <2>2, <2>3, <3>1 DEF QueueSettled
  <2>5. ProcSettled(q, "record", op[p], j, w, answer[p])
    BY <2>3 DEF ProcSettled
  <2> QED
    BY <1>1, <1>2, <2>1, <2>3, <2>4, <2>5 DEF Turned
<1>3. CASE ~Fits(ws, Current(q)) /\ RollBackFor(p, "conflict") /\ UNCHANGED ws
  BY <1>1, <1>3, ConflictTurn
<1> QED
  BY <1>2, <1>3 DEF Apply

LEMMA RecordTurn ==
  ASSUME NEW q, Lone(q), NEW p \in Proc, Record(p)
  PROVE  Turned(q, p)
<1> USE LoneKnown
<1> DEFINE j == journal[q]
           k == Recorded(q, ws)
<1>1. IInv /\ stage[p] = "record" /\ Write(p, k) /\ UNCHANGED <<ws, moved>>
  BY DEF Lone, Record, At
<1>2. j.status = "applying"
  BY <1>1, Marks DEF Fitting
<1>3. "record" \notin faults => Current(q) \in ws.whole
  BY <1>1, <1>2, ComingKnown DEF ProcSettled
<1>4. QueueSettled(q, k, ws) /\ Prefix(k) = ws
  BY <1>2, <1>3, RecordedSettled
<1>5. journal'[q] = k
  BY <1>1, Marks
<1>6. CASE Finish(p, "committed")
  <2>1. stage'[p] = "idle" /\ op'[p] = NoOp /\ answer'[p] = "committed"
    BY <1>1, <1>6, Marks
  <2> QED
    BY <1>1, <1>4, <1>5, <2>1 DEF Turned, ProcSettled, NoOp
<1>7. CASE Continue(p, "begin")
  <2>1. stage'[p] = "begin" /\ op'[p] = op[p] /\ answer'[p] = answer[p]
    BY <1>1, <1>7, Marks
  <2> QED
    BY <1>1, <1>4, <1>5, <2>1 DEF Turned, ProcSettled
<1> QED
  BY <1>6, <1>7 DEF Record

\* The rollback takes contents out of the workspace.
LEMMA OutTurn ==
  ASSUME NEW q, Lone(q), NEW p \in Proc, stage[p] \in {"reset", "clean"},
         NEW S, ws' = Without(ws, S), UNCHANGED journal,
         NEW s \in {"clean", "rolled"}, Continue(p, s)
  PROVE  Turned(q, p)
<1> USE LoneKnown
<1> DEFINE j == journal[q]
<1>1. ~Smooth /\ ("record" \notin faults => After(q, j) \notin ws.whole)
  BY DEF ProcSettled
<1>2. Present(ws') \subseteq Present(ws) /\ ws'.whole \subseteq ws.whole
  BY Known, Removing DEF Lone
<1>3. stage'[p] = s /\ op'[p] = op[p] /\ answer'[p] = answer[p]
  BY Marks DEF Lone
<1>4. QueueSettled(q, j, ws')
  BY <1>1, <1>2 DEF QueueSettled
<1>5. ProcSettled(q, s, op[p], j, ws', answer[p])
  BY <1>1, <1>2 DEF ProcSettled
<1> QED
  BY <1>1, <1>3, <1>4, <1>5 DEF Turned

LEMMA RollBackTurn ==
  ASSUME NEW q, Lone(q), NEW p \in Proc, RollBack(p)
  PROVE  Turned(q, p)
<1> USE LoneKnown
<1> DEFINE k == [status |-> "rolled-back", applied |-> <<>>, lastError |-> op[p].cause]
<1>1. IInv /\ ~Smooth /\ UNCHANGED ws
  BY DEF Lone, RollBack, At, ProcSettled
<1>2. journal'[q] = k /\ stage'[p] = "idle" /\ op'[p] = NoOp
  BY <1>1, Marks DEF RollBack
<1>3. Done(q, k) = {} /\ Prefix(k) = Clean
  <2>1. Len(<<>>) = 0 /\ 1..0 = {}
    OBVIOUS
  <2> QED
    BY <2>1 DEF Done, Upto, Prefix
<1>4. QueueSettled(q, k, ws)
  <2>1. op[p].cause = "conflict" => Conflicting(q)
    BY DEF ProcSettled
  <2>2. Present(Clean) = {} /\ Exactly(Clean, {})
    BY DEF Present, Clean, Exactly
  <2> QED
    BY <1>1, <1>3, <2>1, <2>2 DEF QueueSettled
<1> QED
  BY <1>1, <1>2, <1>4 DEF Turned, ProcSettled, NoOp

LEMMA RollsBack ==
  ASSUME IInv, NEW p \in Proc, NEW c, RollBackFor(p, c)
  PROVE  stage'[p] = "reset" /\ op'[p].cause = c
<1>1. op \in [Proc -> OpType] /\ stage \in [Proc -> Stages]
  BY Marks, Zenon
<1>2. op'[p].cause = c
  BY <1>1 DEF RollBackFor, OpType
<1> QED
  BY <1>1, <1>2 DEF RollBackFor, GoTo

LEMMA FaultTurn ==
  ASSUME NEW q, Lone(q), NEW p \in Proc, Fault(p)
  PROVE  Turned(q, p)
<1> USE LoneKnown
<1> DEFINE j == journal[q]
<1>1. IInv /\ ~Smooth /\ UNCHANGED <<journal, moved>> /\ stage[p] \in faults
  BY DEF Lone, Fault, Smooth
<1>2. QueueSettled(q, j, ws')
  BY DamagedSettled DEF Fault
<1>3. CASE stage[p] \in Looping /\ RollBackFor(p, "fault")
  <2>1. stage'[p] = "reset" /\ op'[p].cause = "fault"
    BY <1>1, <1>3, RollsBack
  <2>2. "record" \notin faults => After(q, j) \notin ws'.whole
    <3>1. SUFFICES ASSUME "record" \notin faults PROVE After(q, j) \notin ws'.whole
      OBVIOUS
    <3>2. ws' \in Damaged(p) /\ stage[p] # "record" /\ stage[p] \in Looping
      BY <1>1, <1>3, <3>1 DEF Fault
    <3>3. stage[p] \in {"begin", "check", "apply", "reset", "clean", "rolled"}
      BY <3>2 DEF Looping
    <3> QED BY <3>1, <3>2, <3>3, DamagedSettled
  <2> QED
    BY <1>1, <1>2, <2>1, <2>2 DEF Turned, ProcSettled
<1>4. CASE Finish(p, "failed")
  <2>1. stage'[p] = "idle" /\ op'[p] = NoOp
    BY <1>1, <1>4, Marks
  <2> QED
    BY <1>1, <1>2, <2>1 DEF Turned, ProcSettled, NoOp
<1> QED
  BY <1>3, <1>4 DEF Fault

LEMMA StopTurn ==
  ASSUME NEW q, Lone(q), NEW p \in Proc, Stop(p)
  PROVE  Turned(q, p)
<1> USE LoneKnown
<1>1. /\ QueueSettled(q, journal[q], ws')
      /\ Smooth => (ws.torn # {} => ws'.torn # {})
  BY DamagedSettled DEF Stop
<1>2. stage'[p] = "idle" /\ op'[p] = NoOp /\ answer' = answer /\ UNCHANGED <<journal, moved>>
  BY Marks DEF Lone, Stop, GoTo
<1> QED
  BY <1>1, <1>2 DEF Turned, ProcSettled, NoOp

\* Whatever step a process takes, the queue and that process stay settled.
LEMMA EveryTurn ==
  ASSUME NEW q, Lone(q), NEW p \in Proc,
         \/ \E x \in Queue : Integrate(p, x)
         \/ \E x \in UNION {PatchesOf(r) : r \in Queue} : FindCompleted(p, x)
         \/ Step(p) \/ Fault(p) \/ Stop(p)
  PROVE  Turned(q, p)
<1>1. CASE Reset(p)
  BY <1>1, OutTurn DEF Reset, At
<1>2. CASE CleanUp(p)
  BY <1>2, OutTurn DEF CleanUp, At
<1> QED
  BY <1>1, <1>2, AsideTurn, OpenTurn, CreateTurn, ReconcileTurn, ProveTurn, RestartTurn, BeginTurn,
     CheckTurn, ApplyTurn, RecordTurn, RollBackTurn, FaultTurn, StopTurn DEF Step

LEMMA AloneKept ==
  ASSUME Alone, IInv, Lookup, AloneInv, [Next]_vars
  PROVE  AloneInv'
<1> SUFFICES ASSUME Untouched' PROVE AloneInv'
  BY DEF AloneInv
<1>1. PICK q : Queue = {q}
  BY DEF Alone
<1>2. edits \in Nat
  BY TypeParts, EditsAssumption DEF IInv
<1>3. ~Commit /\ \A w \in Workspace : ~Edit(w)
  BY <1>2 DEF Commit, Edit, Untouched
<1>4. ASSUME NEW p \in Proc,
             \/ \E x \in Queue : Integrate(p, x)
             \/ \E x \in UNION {PatchesOf(r) : r \in Queue} : FindCompleted(p, x)
             \/ Step(p) \/ Fault(p) \/ Stop(p)
      PROVE  AloneInv'
  <2>1. /\ \A r \in Proc \ {p} :
             stage'[r] = stage[r] /\ op'[r] = op[r] /\ answer'[r] = answer[r]
        /\ UNCHANGED <<rigid, edits>>
        /\ stage[p] \notin Locked => UNCHANGED <<journal, ws>>
    BY <1>4, OthersStay
  <2>2. Lone(q)
    BY <1>1, <2>1 DEF Lone, Untouched
  <2>3. Turned(q, p)
    BY <1>4, <2>2, EveryTurn
  <2>4. ASSUME NEW r \in Proc \ {p}
        PROVE  ProcSettled(q, stage[r], op[r], journal'[q], ws', answer[r])
    <3>1. ProcSettled(q, stage[r], op[r], journal[q], ws, answer[r])
      BY <2>2, LoneKnown
    <3>2. CASE UNCHANGED <<journal, ws>>
      BY <3>1, <3>2
    <3>3. CASE stage[p] \in Locked
      <4>1. stage[r] \notin Locked
        BY <2>2, <3>3, LoneKnown, OwnersApart
      <4> QED
        BY <2>3, <3>1, <4>1 DEF ProcSettled, Turned, Locked, Looping
    <3> QED
      BY <2>1, <3>2, <3>3
  <2>5. UNCHANGED <<clash, faults>>
    BY <2>1 DEF rigid
  <2>6. \A r \in Proc : ProcSettled(q, stage'[r], op'[r], journal'[q], ws', answer'[r])
    BY <2>1, <2>3, <2>4 DEF Turned
  <2>7. QueueSettled(q, journal[q], ws)'
    BY <2>3, <2>5 DEF Turned, QueueSettled, Smooth, Conflicting, Clashing
  <2>8. ASSUME NEW r \in Proc PROVE ProcSettled(q, stage[r], op[r], journal[q], ws, answer[r])'
    BY <2>5, <2>6 DEF ProcSettled, Smooth, Conflicting, Clashing
  <2>9. Smooth' => ~moved'
    BY <2>3, <2>5 DEF Turned, Smooth
  <2> QED
    BY <1>1, <2>7, <2>8, <2>9 DEF AloneInv
<1>5. CASE UNCHANGED vars
  BY <1>5 DEF vars, AloneInv, QueueSettled, ProcSettled, Smooth, Conflicting, Clashing, Untouched
<1> QED
  BY <1>3, <1>4, <1>5 DEF Next

-----------------------------------------------------------------------------
(***************************************************************************)
(* The results for a single queue.                                         *)
(***************************************************************************)
\* Whatever may fail, an applied patch is recorded.
RecordingSucceeds == \A F \in FaultSets : "record" \notin F

LEMMA AloneInitially ==
  ASSUME Init
  PROVE  Lookup /\ AloneInv
<1>1. Lookup
  BY DEF Init, Lookup, LookupOf
<1>2. \A q \in Queue : QueueSettled(q, NoJournal, Clean)
  <2>1. Len(<<>>) = 0 /\ 1..0 = {}
    OBVIOUS
  <2>2. \A q \in Queue : Done(q, NoJournal) = {}
    BY <2>1 DEF Done, Upto, NoJournal
  <2>3. Prefix(NoJournal) = Clean /\ Present(Clean) = {} /\ Exactly(Clean, {})
    BY DEF Prefix, NoJournal, Present, Clean, Exactly
  <2> QED
    BY <2>2, <2>3 DEF QueueSettled, NoJournal
<1>3. \A q \in Queue : ProcSettled(q, "idle", NoOp, NoJournal, Clean, "none")
  BY DEF ProcSettled, NoOp
<1> QED
  BY <1>1, <1>2, <1>3 DEF Init, AloneInv

LEMMA AloneInvariant ==
  ASSUME Alone
  PROVE  Spec => [](IInv /\ Lookup /\ AloneInv /\ faults \in FaultSets)
<1> DEFINE I == IInv /\ Lookup /\ AloneInv /\ faults \in FaultSets
<1>1. Init => I
  BY IInvInitially, AloneInitially DEF Init
<1>2. I /\ [Next]_vars => I'
  <2> SUFFICES ASSUME I, [Next]_vars PROVE I'
    OBVIOUS
  <2>1. faults' = faults
    <3>1. ASSUME NEW p \in Proc,
                 \/ \E q \in Queue : Integrate(p, q)
                 \/ \E x \in UNION {PatchesOf(q) : q \in Queue} : FindCompleted(p, x)
                 \/ Step(p) \/ Fault(p) \/ Stop(p)
          PROVE  faults' = faults
      BY <3>1, OthersStay DEF rigid
    <3>2. (\E w \in Workspace : Edit(w)) \/ Commit \/ UNCHANGED vars => faults' = faults
      BY DEF Edit, Commit, vars, rigid
    <3> QED
      BY <3>1, <3>2 DEF Next
  <2>2. IInv' /\ Lookup' /\ AloneInv'
    BY IInvKept, LookupKept, AloneKept
  <2> QED
    BY <2>1, <2>2
<1> QED
  BY <1>1, <1>2, PTL DEF Spec

LEMMA WholeWhenCompleted ==
  ASSUME Alone, RecordingSucceeds, IInv, AloneInv, faults \in FaultSets
  PROVE  CompletedWhole
<1> SUFFICES ASSUME Untouched, NEW q \in Queue, journal[q].status = "completed"
             PROVE  PatchesOf(q) \subseteq Prefix(journal[q]).whole /\ Prefix(journal[q]).torn = {}
  BY DEF CompletedWhole
<1>1. Exactly(Prefix(journal[q]), Done(q, journal[q]))
  BY DEF AloneInv, QueueSettled, RecordingSucceeds
<1>2. Len(journal[q].applied) = Len(Order[q])
  BY TypeParts DEF IInv, Valid
<1>3. Done(q, journal[q]) = PatchesOf(q)
  BY <1>2, Patches DEF Done, Upto, PatchesOf
<1> QED
  BY <1>1, <1>3 DEF Exactly

\* A completed journal tells the truth: its final hash is of a workspace with every
\* patch of the queue whole in it.  Of one queue whose recording does not fail
\* (otherwise a half-done rollback is mistaken for an applied patch,
\* QueueHalfUndone), for any stops, faults elsewhere and conflicts.
THEOREM CompletedIsWhole ==
  ASSUME Alone, RecordingSucceeds
  PROVE  Spec => []CompletedWhole
<1>1. IInv /\ Lookup /\ AloneInv /\ faults \in FaultSets => CompletedWhole
  BY WholeWhenCompleted
<1> QED
  BY <1>1, AloneInvariant, PTL

\* One queue is rolled back for a conflict only if two of its patches conflict, and
\* where nothing fails or conflicts a stop needs reconciliation by hand only if it
\* tore a patch: a process that finds what a stopped one did never mistakes it.
THEOREM RecoveryIsExplained ==
  ASSUME Alone
  PROVE  Spec => []RecoveryExplained
<1>1. IInv /\ Lookup /\ AloneInv /\ faults \in FaultSets => RecoveryExplained
  <2> SUFFICES ASSUME AloneInv PROVE RecoveryExplained
    OBVIOUS
  <2>1. ASSUME NEW q \in Queue, Untouched, journal[q].lastError = "conflict"
        PROVE  \E x, y \in PatchesOf(q) : Clashing(x, y)
    BY <2>1 DEF AloneInv, QueueSettled, Conflicting
  <2>2. ASSUME NEW p \in Proc, Untouched, clash = {}, faults = {}, answer[p] = "unexplained"
        PROVE  ws.torn # {}
    BY <2>2 DEF Alone, AloneInv, ProcSettled, Smooth
  <2> QED
    BY <2>1, <2>2 DEF RecoveryExplained
<1> QED
  BY <1>1, AloneInvariant, PTL

LEMMA MatchAnswers ==
  ASSUME IInv, Lookup, [Next]_vars, NEW p \in Proc, At(p, "match"), answer'[p] = "receipt"
  PROVE  ws = op[p].seen
<1>1. answer[p] = "none"
  BY DEF Lookup, LookupOf, At
<1>2. ASSUME NEW r \in Proc, r # p,
             \/ \E q \in Queue : Integrate(r, q)
             \/ \E x \in UNION {PatchesOf(q) : q \in Queue} : FindCompleted(r, x)
             \/ Step(r) \/ Fault(r) \/ Stop(r)
      PROVE  FALSE
  BY <1>1, <1>2, OthersStay
<1>3. CASE Match(p)
  BY <1>3, Marks DEF Match
<1>4. (\E w \in Workspace : Edit(w)) \/ Commit \/ UNCHANGED vars \/ Stop(p) => answer' = answer
  BY DEF Edit, Commit, vars, Stop
<1>5. /\ \A q \in Queue : ~Integrate(p, q)
      /\ \A x : ~FindCompleted(p, x)
      /\ ~Fault(p)
  BY DEF Integrate, FindCompleted, Fault, At, Locked, Looping
<1>6. Step(p) => Match(p)
  BY DEF Step, At, TakeLock, LockTimeout, Open, Create, Reconcile, Prove, Restart, Begin, Check,
         Apply, Record, Reset, CleanUp, RollBack, ReadHead
<1> QED
  BY <1>1, <1>2, <1>3, <1>4, <1>5, <1>6 DEF Next

\* A receipt is given only while the patch is whole in the workspace, although
\* journal, HEAD and workspace are read one after the other without the lock: a
\* completed journal is final and its hash is compared last.
THEOREM ReceiptIsWhole ==
  ASSUME Alone, RecordingSucceeds
  PROVE  Spec => ReceiptWhole
<1> DEFINE I == IInv /\ Lookup /\ AloneInv /\ faults \in FaultSets
<1>1. ASSUME I, [Next]_vars, NEW p \in Proc, Untouched, At(p, "match"), answer'[p] = "receipt"
      PROVE  op[p].patch \in ws.whole
  <2>1. PICK q \in Queue : /\ op[p].patch \in PatchesOf(q)
                           /\ journal[q].status = "completed"
                           /\ op[p].seen = Prefix(journal[q])
    BY <1>1 DEF Lookup, LookupOf, At
  <2>2. PatchesOf(q) \subseteq Prefix(journal[q]).whole
    BY <1>1, <2>1, WholeWhenCompleted DEF CompletedWhole
  <2> QED
    BY <1>1, <2>1, <2>2, MatchAnswers
<1>2. I /\ [Next]_vars =>
        [\A p \in Proc : Untouched /\ At(p, "match") /\ answer'[p] = "receipt" =>
                           op[p].patch \in ws.whole]_vars
  BY <1>1
<1> QED
  BY <1>2, AloneInvariant, PTL DEF Spec, ReceiptWhole

=============================================================================
