------------------------- MODULE WavePlanning_proofs -------------------------
(***************************************************************************)
(* Proofs about the scheduler: for every set of tasks, whatever they       *)
(* declare, and every choice of the Lead.                                  *)
(*                                                                         *)
(* Waves are filled task by task and then regrouped.  The invariant says   *)
(* what closed waves are worth (Sorted), that everything considered for    *)
(* the wave being filled is ready for it (Filling), that no cycle has got  *)
(* into a wave (Acyclic), and which part of the waves the isolation plan   *)
(* has taken over (Placed).                                                *)
(***************************************************************************)
EXTENDS WavePlanning, WellFoundedInduction, TLAPS

Sorted ==
  /\ \A i \in DOMAIN waves : waves[i] \subseteq DOMAIN plan
  /\ \A i, j \in DOMAIN waves : waves[i] \cap waves[j] # {} => i = j
  /\ \A i \in DOMAIN waves : \A t \in waves[i] :
       plan[t].deps \subseteq UNION {waves[j] : j \in 1 .. i - 1}
  /\ \A i \in DOMAIN waves : \A t, u \in waves[i] : t # u => ~TasksConflict(t, u)

Filling ==
  pc = "fill" =>
    /\ wave \subseteq Ready /\ ready \subseteq Ready
    /\ \A t, u \in wave : t # u => ~TasksConflict(t, u)

Grounded ==
  /\ pc \in {"next", "fill", "done"} => Valid
  /\ pc = "refused" => ~Valid \/ \E S \in SUBSET DOMAIN plan : Circular(S)

Acyclic == \A S \in SUBSET DOMAIN plan : Circular(S) => S \cap Scheduled = {}

Placed ==
  /\ isolated # <<>> => Remaining = {} /\ pc \in {"next", "done"}
  /\ \A i \in DOMAIN isolated : \E k \in DOMAIN waves : isolated[i].tasks \subseteq waves[k]
  /\ \A i, j \in DOMAIN isolated : isolated[i].tasks \cap isolated[j].tasks # {} => i = j
  /\ \A k \in DOMAIN waves :
       \/ waves[k] \subseteq Planned
       \/ waves[k] \cap Planned = {}
       \/ Several(waves[k]) /\ Risky(waves[k]) /\ ~options.worktrees
  /\ pc = "done" => Remaining = {} /\ Unplanned = {}

IInv ==
  /\ TypeOK /\ Sorted /\ Filling /\ Grounded /\ Acyclic /\ Placed
  /\ DependenciesFirst /\ OneMutator

-----------------------------------------------------------------------------
(* Numbers. *)

Smaller == {ss \in Nat \X Nat : ss[1] < ss[2]}

LEMMA SmallerWellFounded == IsWellFoundedOn(Smaller, Nat)
  BY NatLessThanWellFounded DEF OpToRel, Smaller

LEMMA InSmaller == \A m, n \in Nat : m < n => <<m, n>> \in Smaller
  BY DEF Smaller

\* The task that comes first, and the wave, are there.
LEMMA FirstIsLeast ==
  ASSUME NEW S \in SUBSET Nat, S # {}
  PROVE  First(S) \in S /\ \A u \in S : First(S) <= u
<1>1. PICK t \in S : \A u \in S : <<u, t>> \notin Smaller
  BY SmallerWellFounded, WFMin
<1>2. \A u \in S : t <= u
  <2> SUFFICES ASSUME NEW u \in S PROVE t <= u
    OBVIOUS
  <2>1. t \in Nat /\ u \in Nat /\ ~(u < t)
    BY <1>1, InSmaller
  <2> QED
    BY <2>1
<1> QED
  BY <1>2 DEF First

-----------------------------------------------------------------------------
(* Collisions. *)

LEMMA PrefixesOfOne ==
  ASSUME NEW v \in Word, NEW w \in Word, NEW x \in Word, Prefix(v, x), Prefix(w, x)
  PROVE  Prefix(v, w) \/ Prefix(w, v)
  BY DEF Prefix, Word

LEMMA PrefixReflexive == \A w \in Word : Prefix(w, w)
  BY DEF Prefix, Word

\* Two claims that name something in common overlap, whichever is the pattern.
LEMMA NamesOverlap ==
  ASSUME NEW c \in [key : Key, mode : Mode], NEW d \in [key : Key, mode : Mode],
         NEW w \in Word, Names(c, w), Names(d, w)
  PROVE  Overlap(c.key, d.key)
<1> DEFINE k == c.key
           l == d.key
<1>1. k \in Key /\ l \in Key /\ k.stem \in Word /\ l.stem \in Word
  BY DEF Key
<1>2. CASE w = k.stem /\ w = l.stem
  <2>1. CASE k.star \/ l.star
    BY <1>1, <1>2, <2>1, PrefixReflexive DEF Overlap
  <2>2. CASE ~k.star /\ ~l.star
    <3>1. k.star = FALSE /\ l.star = FALSE
      BY <1>1, <2>2 DEF Key
    <3>2. k = [stem |-> k.stem, star |-> k.star] /\ l = [stem |-> l.stem, star |-> l.star]
      BY <1>1 DEF Key
    <3>3. k = l
      BY <1>2, <3>1, <3>2
    <3> QED
      BY <3>3 DEF Overlap
  <2> QED
    BY <2>1, <2>2
<1>3. CASE w # k.stem /\ w = l.stem
  <2>1. k.star /\ Prefix(k.stem, l.stem)
    BY <1>3 DEF Names
  <2> QED
    BY <2>1 DEF Overlap
<1>4. CASE w = k.stem /\ w # l.stem
  <2>1. l.star /\ Prefix(l.stem, k.stem)
    BY <1>4 DEF Names
  <2> QED
    BY <2>1 DEF Overlap
<1>5. CASE w # k.stem /\ w # l.stem
  <2>1. k.star /\ l.star /\ Prefix(k.stem, w) /\ Prefix(l.stem, w)
    BY <1>5 DEF Names
  <2>2. Prefix(k.stem, l.stem) \/ Prefix(l.stem, k.stem)
    BY <2>1, <1>1, PrefixesOfOne
  <2> QED
    BY <2>1, <2>2 DEF Overlap
<1> QED
  BY <1>2, <1>3, <1>4, <1>5

LEMMA ConflictSymmetric ==
  ASSUME NEW t, NEW u, TasksConflict(t, u)
  PROVE  TasksConflict(u, t)
  BY DEF TasksConflict, FilesCollide, ClaimsCollide, Overlap

LEMMA PlanTyped ==
  ASSUME TypeOK, NEW t \in DOMAIN plan
  PROVE  t \in Task /\ plan[t] \in Declaration
  BY ContractAssumption DEF TypeOK, Plan

\* Whoever meets collides: the scheduler separates them.
LEMMA MeetingConflicts ==
  ASSUME TypeOK, NEW t \in DOMAIN plan, NEW u \in DOMAIN plan, Meet(t, u)
  PROVE  TasksConflict(t, u)
<1>1. CASE \E f \in plan[t].writes : f \in plan[u].writes \cup plan[u].reads
  BY <1>1 DEF TasksConflict, FilesCollide
<1>2. CASE \E c \in plan[t].claims, d \in plan[u].claims :
             /\ "exclusive" \in {c.mode, d.mode}
             /\ \E w \in Stems : Names(c, w) /\ Names(d, w)
  <2>1. PICK c \in plan[t].claims, d \in plan[u].claims :
               /\ "exclusive" \in {c.mode, d.mode}
               /\ \E w \in Stems : Names(c, w) /\ Names(d, w)
    BY <1>2
  <2>2. \A s \in DOMAIN plan : plan[s].claims \subseteq [key : Key, mode : Mode]
    BY PlanTyped DEF Declaration
  <2>3. Stems \subseteq Word
    BY <2>2 DEF Stems, Key
  <2>4. Overlap(c.key, d.key)
    BY <2>1, <2>2, <2>3, NamesOverlap
  <2> QED
    BY <2>1, <2>4 DEF TasksConflict, ClaimsCollide
<1> QED
  BY <1>1, <1>2 DEF Meet

-----------------------------------------------------------------------------
(* Waves. *)

LEMMA Begins == Init => IInv
<1> SUFFICES ASSUME Init PROVE IInv
  OBVIOUS
<1>1. TypeOK
  BY PlansAssumption DEF Init, TypeOK
<1>2. Sorted /\ Filling /\ Grounded
  BY DEF Init, Sorted, Filling, Grounded
<1>3. Acyclic
  BY DEF Init, Acyclic, Scheduled
<1>4. Placed /\ DependenciesFirst /\ OneMutator
  BY DEF Init, Placed, Planned, DependenciesFirst, OneMutator
<1> QED
  BY <1>1, <1>2, <1>3, <1>4 DEF IInv

\* While the plan, the waves and the isolation stay, so does what is said of
\* them.
LEMMA Frame ==
  ASSUME UNCHANGED <<plan, options, waves, isolated>>
  PROVE  /\ (Sorted => Sorted') /\ (Acyclic => Acyclic')
         /\ (DependenciesFirst => DependenciesFirst') /\ (OneMutator => OneMutator')
         /\ (Valid <=> Valid') /\ Remaining' = Remaining /\ Ready' = Ready
         /\ Planned' = Planned /\ Unplanned' = Unplanned
         /\ \A t, u : TasksConflict(t, u)' = TasksConflict(t, u)
         /\ \A S : Circular(S)' = Circular(S)
         /\ \A S : Risky(S)' = Risky(S) /\ Several(S)' = Several(S)
<1>1. /\ Remaining' = Remaining /\ Ready' = Ready /\ Planned' = Planned
      /\ Unplanned' = Unplanned /\ Scheduled' = Scheduled /\ (Valid <=> Valid')
  BY DEF Remaining, Ready, Planned, Unplanned, Scheduled, Valid
<1>2. \A t, u : TasksConflict(t, u)' = TasksConflict(t, u)
  BY DEF TasksConflict, FilesCollide
<1>3. \A S : Circular(S)' = Circular(S)
  BY DEF Circular
<1>4. \A S : Risky(S)' = Risky(S) /\ Several(S)' = Several(S)
  BY DEF Risky, Several, Mutates
<1>5. (Sorted => Sorted') /\ (Acyclic => Acyclic')
  BY <1>1, <1>2, <1>3 DEF Sorted, Acyclic
<1>6. (DependenciesFirst => DependenciesFirst') /\ (OneMutator => OneMutator')
  BY DEF DependenciesFirst, OneMutator, Several, Mutates
<1> QED
  BY <1>1, <1>2, <1>3, <1>4, <1>5, <1>6

LEMMA ValidateStep == IInv /\ Validate => IInv'
<1> SUFFICES ASSUME IInv, Validate PROVE IInv'
  OBVIOUS
<1>1. UNCHANGED <<plan, options, waves, isolated>>
  BY DEF Validate
<1>2. TypeOK'
  BY DEF IInv, TypeOK, Validate
<1>3. Filling'
  BY DEF Validate, Filling
<1>4. Grounded'
  BY <1>1, Frame DEF Validate, Grounded
<1>5. Placed'
  <2>1. isolated = <<>> /\ pc' # "done"
    BY DEF IInv, Placed, Validate
  <2> QED
    BY <2>1, <1>1, Frame DEF Placed, IInv
<1> QED
  BY <1>1, <1>2, <1>3, <1>4, <1>5, Frame DEF IInv

\* No task is ready although some remain: they wait for each other.
LEMMA StuckIsCircular ==
  ASSUME Valid, Remaining # {}, Ready = {}
  PROVE  Remaining \in SUBSET DOMAIN plan /\ Circular(Remaining)
<1>1. \A t \in Remaining : plan[t].deps \cap Remaining # {}
  BY DEF Valid, Remaining, Ready
<1> QED
  BY <1>1 DEF Circular, Remaining

LEMMA OpenWaveStep == IInv /\ OpenWave => IInv'
<1> SUFFICES ASSUME IInv, OpenWave PROVE IInv'
  OBVIOUS
<1>1. UNCHANGED <<plan, options, waves, isolated>>
  BY DEF OpenWave
<1>2. TypeOK'
  <2>1. Ready \subseteq Task
    BY PlanTyped DEF IInv, Ready, Remaining
  <2> QED
    BY <2>1 DEF IInv, TypeOK, OpenWave
<1>3. Filling'
  <2>1. ready' = Ready' /\ wave' = {}
    BY <1>1, Frame DEF OpenWave
  <2> QED
    BY <2>1 DEF Filling
<1>4. Grounded'
  <2>1. Valid
    BY DEF IInv, Grounded, OpenWave
  <2>2. CASE Ready = {}
    <3>1. Remaining \in SUBSET DOMAIN plan /\ Circular(Remaining)
      BY <2>1, <2>2, StuckIsCircular DEF OpenWave
    <3>2. Remaining \in SUBSET DOMAIN plan' /\ Circular(Remaining)'
      BY <3>1, <1>1, Frame
    <3>3. \E S \in SUBSET DOMAIN plan' : Circular(S)'
      BY <3>2, Frame, <1>1
    <3>4. pc' = "refused"
      BY <2>2 DEF OpenWave
    <3> QED
      BY <3>3, <3>4 DEF Grounded
  <2>3. CASE Ready # {}
    <3>1. pc' = "fill" /\ Valid'
      BY <2>1, <2>3, <1>1, Frame DEF OpenWave
    <3> QED
      BY <3>1 DEF Grounded
  <2> QED
    BY <2>2, <2>3
<1>5. Placed'
  <2>1. isolated = <<>> /\ pc' # "done"
    BY DEF IInv, Placed, OpenWave
  <2> QED
    BY <2>1, <1>1, Frame DEF Placed, IInv
<1> QED
  BY <1>1, <1>2, <1>3, <1>4, <1>5, Frame DEF IInv

LEMMA TakeTaskStep == IInv /\ TakeTask => IInv'
<1> SUFFICES ASSUME IInv, TakeTask PROVE IInv'
  OBVIOUS
<1>1. UNCHANGED <<plan, options, waves, isolated, pc>> /\ pc = "fill" /\ ready # {}
  BY DEF TakeTask
<1> DEFINE t == First(ready)
<1>2. t \in ready
  BY <1>1, FirstIsLeast, TaskAssumption DEF IInv, TypeOK
<1>3. /\ ready' = ready \ {t}
      /\ wave' = IF \E u \in wave : TasksConflict(t, u) THEN wave ELSE wave \cup {t}
  BY DEF TakeTask
<1> HIDE DEF t
<1>4. TypeOK'
  BY <1>1, <1>2, <1>3 DEF IInv, TypeOK
<1>5. Filling'
  <2>1. wave' \subseteq Ready' /\ ready' \subseteq Ready'
    BY <1>1, <1>2, <1>3, Frame DEF IInv, Filling
  <2>2. ASSUME NEW x \in wave', NEW y \in wave', x # y
        PROVE  ~TasksConflict(x, y)
    <3>1. CASE x \in wave /\ y \in wave
      BY <3>1, <2>2, <1>1 DEF IInv, Filling
    <3>2. CASE ~(x \in wave /\ y \in wave)
      <4>1. \A u \in wave : ~TasksConflict(t, u)
        BY <3>2, <1>3
      <4>2. (x = t /\ y \in wave) \/ (y = t /\ x \in wave)
        BY <3>2, <2>2, <1>3
      <4> QED
        BY <4>1, <4>2, ConflictSymmetric
    <3> QED
      BY <3>1, <3>2
  <2>3. \A x, y \in wave' : x # y => ~TasksConflict(x, y)'
    BY <2>2, <1>1, Frame
  <2> QED
    BY <2>1, <2>3 DEF Filling
<1>6. Grounded'
  BY <1>1, Frame DEF IInv, Grounded
<1>7. Placed'
  BY <1>1, Frame DEF IInv, Placed
<1> QED
  BY <1>1, <1>4, <1>5, <1>6, <1>7, Frame DEF IInv

\* What Append does to a sequence.
LEMMA Appended ==
  ASSUME NEW S, NEW s \in Seq(S), NEW e \in S, NEW r, r = Append(s, e)
  PROVE  /\ r \in Seq(S) /\ Len(r) = Len(s) + 1 /\ Len(s) \in Nat
         /\ DOMAIN s = 1 .. Len(s) /\ DOMAIN r = 1 .. Len(s) + 1
         /\ \A i \in DOMAIN s : r[i] = s[i]
         /\ r[Len(s) + 1] = e
  OBVIOUS

LEMMA CloseWaveStep == IInv /\ CloseWave => IInv'
<1> SUFFICES ASSUME IInv, CloseWave PROVE IInv'
  OBVIOUS
<1> DEFINE n == Len(waves)
<1>1. UNCHANGED <<plan, options, isolated>> /\ pc = "fill" /\ pc' = "next"
  BY DEF CloseWave
<1>2. waves' = Append(waves, wave) /\ waves \in Seq(SUBSET Task) /\ wave \in SUBSET Task
  BY DEF CloseWave, IInv, TypeOK
<1>3. /\ waves' \in Seq(SUBSET Task) /\ n \in Nat
      /\ DOMAIN waves = 1 .. n /\ DOMAIN waves' = 1 .. n + 1
      /\ \A i \in DOMAIN waves : waves'[i] = waves[i]
      /\ waves'[n + 1] = wave
  BY <1>2, Appended
<1> HIDE DEF n
<1>4. Scheduled' = Scheduled \cup wave
  BY <1>3 DEF Scheduled
<1>5. wave \subseteq DOMAIN plan /\ wave \cap Scheduled = {}
      /\ \A t \in wave : plan[t].deps \subseteq Scheduled
  BY <1>1 DEF IInv, Filling, Ready, Remaining
<1>6. \A i \in DOMAIN waves : waves[i] \cap wave = {}
  BY <1>5 DEF Scheduled
<1>7. \A t, u : TasksConflict(t, u)' = TasksConflict(t, u)
  BY <1>1 DEF TasksConflict, FilesCollide
<1>8. isolated = <<>>
  BY <1>1 DEF IInv, Placed
<1>9. TypeOK'
  BY <1>1, <1>3 DEF IInv, TypeOK, CloseWave
<1>10. Sorted'
  <2>1. \A i \in DOMAIN waves' : waves'[i] \subseteq DOMAIN plan'
    BY <1>1, <1>3, <1>5 DEF IInv, Sorted
  <2>2. \A i, j \in DOMAIN waves' : waves'[i] \cap waves'[j] # {} => i = j
    <3> SUFFICES ASSUME NEW i \in 1 .. n + 1, NEW j \in 1 .. n + 1, i # j
                 PROVE  waves'[i] \cap waves'[j] = {}
      BY <1>3
    <3>1. CASE i \in 1 .. n /\ j \in 1 .. n
      BY <3>1, <1>3 DEF IInv, Sorted
    <3>2. CASE i = n + 1 /\ j \in 1 .. n
      BY <3>2, <1>3, <1>6
    <3>3. CASE i \in 1 .. n /\ j = n + 1
      BY <3>3, <1>3, <1>6
    <3> QED
      BY <1>3, <3>1, <3>2, <3>3
  <2>3. \A i \in DOMAIN waves' : \A t \in waves'[i] :
          plan'[t].deps \subseteq UNION {waves'[j] : j \in 1 .. i - 1}
    <3> SUFFICES ASSUME NEW i \in 1 .. n + 1, NEW t \in waves'[i]
                 PROVE  plan[t].deps \subseteq UNION {waves'[j] : j \in 1 .. i - 1}
      BY <1>1, <1>3
    <3>1. CASE i \in 1 .. n
      <4>1. plan[t].deps \subseteq UNION {waves[j] : j \in 1 .. i - 1}
        BY <3>1, <1>3 DEF IInv, Sorted
      <4>2. \A j \in 1 .. i - 1 : j \in 1 .. n
        BY <3>1, <1>3
      <4> QED
        BY <4>1, <4>2, <1>3
    <3>2. CASE i = n + 1
      <4>1. plan[t].deps \subseteq Scheduled
        BY <3>2, <1>3, <1>5
      <4>2. i - 1 = n
        BY <3>2, <1>3
      <4>3. Scheduled = UNION {waves'[j] : j \in 1 .. i - 1}
        BY <4>2, <1>3 DEF Scheduled
      <4> QED
        BY <4>1, <4>3
    <3> QED
      BY <1>3, <3>1, <3>2
  <2>4. \A i \in DOMAIN waves' : \A t, u \in waves'[i] : t # u => ~TasksConflict(t, u)'
    <3> SUFFICES ASSUME NEW i \in 1 .. n + 1, NEW t \in waves'[i], NEW u \in waves'[i], t # u
                 PROVE  ~TasksConflict(t, u)
      BY <1>3, <1>7
    <3>1. CASE i \in 1 .. n
      BY <3>1, <1>3 DEF IInv, Sorted
    <3>2. CASE i = n + 1
      BY <3>2, <1>1, <1>3 DEF IInv, Filling
    <3> QED
      BY <1>3, <3>1, <3>2
  <2> QED
    BY <2>1, <2>2, <2>3, <2>4 DEF Sorted
<1>11. Filling'
  BY <1>1 DEF Filling
<1>12. Grounded'
  BY <1>1 DEF IInv, Grounded, Valid
<1>13. Acyclic'
  <2> SUFFICES ASSUME NEW S \in SUBSET DOMAIN plan, Circular(S)
               PROVE  S \cap (Scheduled \cup wave) = {}
    BY <1>1, <1>4 DEF Acyclic, Circular
  <2>1. S \cap Scheduled = {}
    BY DEF IInv, Acyclic
  <2>2. \A t \in S : plan[t].deps \cap S # {}
    BY DEF Circular
  <2> QED
    BY <2>1, <2>2, <1>5
<1>14. Placed' /\ DependenciesFirst' /\ OneMutator'
  BY <1>1, <1>8 DEF Placed, Planned, DependenciesFirst, OneMutator
<1> QED
  BY <1>9, <1>10, <1>11, <1>12, <1>13, <1>14 DEF IInv

-----------------------------------------------------------------------------
(* Isolation. *)

Entry == [tasks : SUBSET Task, mode : {"workspace", "worktree"}]

\* A wave of the isolation plan in which tasks do not mutate side by side.
Harmless(m) ==
  \/ m.mode = "worktree" /\ options.worktrees
  \/ ~Several({t \in m.tasks : Mutates(t)})

\* The wave of index k, or a part of it, is taken over.
LEMMA TakeOver ==
  ASSUME IInv, pc = "next", Remaining = {}, UNCHANGED <<plan, options, pc, waves, wave, ready>>,
         NEW k \in DOMAIN waves, \A j \in 1 .. k - 1 : waves[j] \subseteq Planned,
         NEW e \in Entry, isolated' = Append(isolated, e),
         e.tasks \subseteq waves[k], e.tasks \cap Planned = {},
         \/ waves[k] \subseteq Planned \cup e.tasks
         \/ Several(waves[k]) /\ Risky(waves[k]) /\ ~options.worktrees,
         Harmless(e)
  PROVE  IInv'
<1> DEFINE n == Len(isolated)
<1>1. isolated \in Seq(Entry)
  BY DEF IInv, TypeOK, Entry
<1>2. /\ isolated' \in Seq(Entry) /\ n \in Nat
      /\ DOMAIN isolated = 1 .. n /\ DOMAIN isolated' = 1 .. n + 1
      /\ \A i \in DOMAIN isolated : isolated'[i] = isolated[i]
      /\ isolated'[n + 1] = e
  BY <1>1, Appended
<1> HIDE DEF n
<1>3. Planned' = Planned \cup e.tasks
  BY <1>2 DEF Planned
<1>4. /\ Remaining' = Remaining /\ Scheduled' = Scheduled
      /\ (Valid <=> Valid')
  BY DEF Remaining, Scheduled, Valid
<1>5. \A t, u : TasksConflict(t, u)' = TasksConflict(t, u)
  BY DEF TasksConflict, FilesCollide
<1>6. TypeOK'
  BY <1>2 DEF IInv, TypeOK, Entry
<1>7. Sorted' /\ Filling' /\ Grounded' /\ Acyclic'
  BY <1>4, <1>5 DEF IInv, Sorted, Filling, Grounded, Acyclic, Circular
<1>8. DependenciesFirst'
  <2> SUFFICES ASSUME NEW i \in 1 .. n + 1, NEW t \in isolated'[i].tasks
               PROVE  plan[t].deps \subseteq UNION {isolated'[j].tasks : j \in 1 .. i - 1}
    BY <1>2 DEF DependenciesFirst
  <2>1. CASE i \in 1 .. n
    <3>1. plan[t].deps \subseteq UNION {isolated[j].tasks : j \in 1 .. i - 1}
      BY <2>1, <1>2 DEF IInv, DependenciesFirst
    <3>2. \A j \in 1 .. i - 1 : j \in 1 .. n
      BY <2>1, <1>2
    <3> QED
      BY <3>1, <3>2, <1>2
  <2>2. CASE i = n + 1
    <3>1. t \in waves[k]
      BY <2>2, <1>2
    <3>2. plan[t].deps \subseteq UNION {waves[j] : j \in 1 .. k - 1}
      BY <3>1 DEF IInv, Sorted
    <3>3. plan[t].deps \subseteq Planned
      BY <3>2
    <3>4. i - 1 = n
      BY <2>2, <1>2
    <3>5. Planned = UNION {isolated'[j].tasks : j \in 1 .. i - 1}
      BY <3>4, <1>2 DEF Planned
    <3> QED
      BY <3>3, <3>5
  <2> QED
    BY <1>2, <2>1, <2>2
<1>9. OneMutator'
  <2>1. \A i \in 1 .. n : Harmless(isolated[i])
    BY <1>2 DEF IInv, OneMutator, Harmless
  <2>2. \A i \in 1 .. n + 1 : isolated'[i] = e \/ (i \in 1 .. n /\ isolated'[i] = isolated[i])
    BY <1>2
  <2>3. \A i \in 1 .. n + 1 : Harmless(isolated'[i])
    <3> SUFFICES ASSUME NEW i \in 1 .. n + 1 PROVE Harmless(isolated'[i])
      OBVIOUS
    <3>1. CASE isolated'[i] = e
      BY <3>1
    <3>2. CASE i \in 1 .. n /\ isolated'[i] = isolated[i]
      BY <3>2, <2>1
    <3> QED
      BY <2>2, <3>1, <3>2
  <2> QED
    BY <1>2, <2>3 DEF OneMutator, Harmless, Several, Mutates
<1>10. Placed'
  <2>1. \A i \in DOMAIN isolated' : \E j \in DOMAIN waves' : isolated'[i].tasks \subseteq waves'[j]
    <3> SUFFICES ASSUME NEW i \in 1 .. n + 1
                 PROVE  \E j \in DOMAIN waves : isolated'[i].tasks \subseteq waves[j]
      BY <1>2
    <3>1. CASE i \in 1 .. n
      BY <3>1, <1>2 DEF IInv, Placed
    <3>2. CASE i = n + 1
      BY <3>2, <1>2
    <3> QED
      BY <1>2, <3>1, <3>2
  <2>2. \A i, j \in DOMAIN isolated' :
          isolated'[i].tasks \cap isolated'[j].tasks # {} => i = j
    <3> SUFFICES ASSUME NEW i \in 1 .. n + 1, NEW j \in 1 .. n + 1, i # j
                 PROVE  isolated'[i].tasks \cap isolated'[j].tasks = {}
      BY <1>2
    <3>1. \A l \in 1 .. n : isolated[l].tasks \cap e.tasks = {}
      BY <1>2 DEF Planned
    <3>2. CASE i \in 1 .. n /\ j \in 1 .. n
      BY <3>2, <1>2 DEF IInv, Placed
    <3>3. CASE i = n + 1 /\ j \in 1 .. n
      BY <3>3, <3>1, <1>2
    <3>4. CASE i \in 1 .. n /\ j = n + 1
      BY <3>4, <3>1, <1>2
    <3> QED
      BY <1>2, <3>2, <3>3, <3>4
  <2>3. \A l \in DOMAIN waves' :
          \/ waves'[l] \subseteq Planned'
          \/ waves'[l] \cap Planned' = {}
          \/ (Several(waves[l]) /\ Risky(waves[l]) /\ ~options.worktrees)'
    <3> SUFFICES ASSUME NEW l \in DOMAIN waves
                 PROVE  \/ waves[l] \subseteq Planned \cup e.tasks
                        \/ waves[l] \cap (Planned \cup e.tasks) = {}
                        \/ Several(waves[l]) /\ Risky(waves[l]) /\ ~options.worktrees
      BY <1>3 DEF Several, Risky, Mutates
    <3>1. CASE l = k
      BY <3>1
    <3>2. CASE l # k
      <4>1. waves[l] \cap e.tasks = {}
        BY <3>2 DEF IInv, Sorted
      <4> QED
        BY <4>1 DEF IInv, Placed
    <3> QED
      BY <3>1, <3>2
  <2> QED
    BY <2>1, <2>2, <2>3, <1>4 DEF Placed
<1> QED
  BY <1>6, <1>7, <1>8, <1>9, <1>10 DEF IInv

\* The next wave to isolate: the ones before it have been taken over.
LEMMA NextWave ==
  ASSUME IInv, Unplanned # {}
  PROVE  /\ First(Unplanned) \in DOMAIN waves
         /\ ~(waves[First(Unplanned)] \subseteq Planned)
         /\ \A j \in 1 .. First(Unplanned) - 1 : waves[j] \subseteq Planned
<1>1. waves \in Seq(SUBSET Task) /\ DOMAIN waves = 1 .. Len(waves) /\ Len(waves) \in Nat
  BY DEF IInv, TypeOK
<1>2. Unplanned \in SUBSET Nat
  BY <1>1 DEF Unplanned
<1>3. First(Unplanned) \in Unplanned /\ \A i \in Unplanned : First(Unplanned) <= i
  BY <1>2, FirstIsLeast
<1> DEFINE k == First(Unplanned)
<1> HIDE DEF k
<1>4. k \in DOMAIN waves /\ ~(waves[k] \subseteq Planned)
  BY <1>3 DEF Unplanned, k
<1>5. \A j \in 1 .. k - 1 : j \in DOMAIN waves /\ j \notin Unplanned
  BY <1>1, <1>3, <1>4 DEF k
<1>6. \A j \in 1 .. k - 1 : waves[j] \subseteq Planned
  BY <1>5 DEF Unplanned
<1> QED
  BY <1>4, <1>6 DEF k

LEMMA ShareStep == IInv /\ ShareWorkspace => IInv'
<1> SUFFICES ASSUME IInv, ShareWorkspace PROVE IInv'
  OBVIOUS
<1> DEFINE k == First(Unplanned)
           e == [tasks |-> waves[k], mode |-> "workspace"]
<1>1. /\ k \in DOMAIN waves /\ ~(waves[k] \subseteq Planned)
      /\ \A j \in 1 .. k - 1 : waves[j] \subseteq Planned
  BY NextWave DEF ShareWorkspace
<1>2. /\ pc = "next" /\ Remaining = {} /\ UNCHANGED <<plan, options, pc, waves, wave, ready>>
      /\ isolated' = Append(isolated, e) /\ (~Several(waves[k]) \/ ~Risky(waves[k]))
  BY DEF ShareWorkspace, AllPlaced
<1> HIDE DEF k
<1>3. waves[k] \in SUBSET Task
  BY <1>1 DEF IInv, TypeOK
<1>4. e \in Entry /\ e.tasks = waves[k]
  BY <1>3 DEF Entry
<1>5. waves[k] \cap Planned = {}
  BY <1>1, <1>2 DEF IInv, Placed
<1>6. Harmless(e)
  <2>1. CASE ~Several(waves[k])
    BY <2>1, <1>4 DEF Several, Harmless
  <2>2. CASE ~Risky(waves[k])
    BY <2>2, <1>4 DEF Risky, Harmless
  <2> QED
    BY <1>2, <2>1, <2>2
<1> HIDE DEF e
<1> QED
  BY <1>1, <1>2, <1>4, <1>5, <1>6, TakeOver

LEMMA WorktreesStep == IInv /\ UseWorktrees => IInv'
<1> SUFFICES ASSUME IInv, UseWorktrees PROVE IInv'
  OBVIOUS
<1> DEFINE k == First(Unplanned)
           e == [tasks |-> waves[k], mode |-> "worktree"]
<1>1. /\ k \in DOMAIN waves /\ ~(waves[k] \subseteq Planned)
      /\ \A j \in 1 .. k - 1 : waves[j] \subseteq Planned
  BY NextWave DEF UseWorktrees
<1>2. /\ pc = "next" /\ Remaining = {} /\ UNCHANGED <<plan, options, pc, waves, wave, ready>>
      /\ isolated' = Append(isolated, e) /\ options.worktrees
  BY DEF UseWorktrees, AllPlaced
<1> HIDE DEF k
<1>3. waves[k] \in SUBSET Task
  BY <1>1 DEF IInv, TypeOK
<1>4. e \in Entry /\ e.tasks = waves[k] /\ e.mode = "worktree"
  BY <1>3 DEF Entry
<1>5. waves[k] \cap Planned = {}
  BY <1>1, <1>2 DEF IInv, Placed
<1>6. Harmless(e)
  BY <1>2, <1>4 DEF Harmless
<1> HIDE DEF e
<1> QED
  BY <1>1, <1>2, <1>4, <1>5, <1>6, TakeOver

LEMMA SerializeStep == IInv /\ SerializeTask => IInv'
<1> SUFFICES ASSUME IInv, SerializeTask PROVE IInv'
  OBVIOUS
<1> DEFINE k == First(Unplanned)
           s == First(waves[k] \ Planned)
           e == [tasks |-> {s}, mode |-> "workspace"]
<1>1. /\ k \in DOMAIN waves /\ ~(waves[k] \subseteq Planned)
      /\ \A j \in 1 .. k - 1 : waves[j] \subseteq Planned
  BY NextWave DEF SerializeTask
<1>2. /\ pc = "next" /\ Remaining = {} /\ UNCHANGED <<plan, options, pc, waves, wave, ready>>
      /\ isolated' = Append(isolated, e)
      /\ Several(waves[k]) /\ Risky(waves[k]) /\ ~options.worktrees
  BY DEF SerializeTask, AllPlaced
<1> HIDE DEF k
<1>3. waves[k] \in SUBSET Task
  BY <1>1 DEF IInv, TypeOK
<1>4. s \in waves[k] \ Planned
  BY <1>1, <1>3, FirstIsLeast, TaskAssumption
<1> HIDE DEF s
<1>5. e \in Entry /\ e.tasks = {s}
  BY <1>3, <1>4 DEF Entry
<1>6. Harmless(e)
  BY <1>5 DEF Harmless, Several
<1> HIDE DEF e
<1>7. e.tasks \subseteq waves[k] /\ e.tasks \cap Planned = {}
  BY <1>4, <1>5
<1> QED
  BY <1>1, <1>2, <1>5, <1>6, <1>7, TakeOver

LEMMA ReturnStep == IInv /\ Return => IInv'
<1> SUFFICES ASSUME IInv, Return PROVE IInv'
  OBVIOUS
<1>1. /\ UNCHANGED <<plan, options, waves, isolated>> /\ pc = "next" /\ pc' = "done"
      /\ Remaining = {} /\ Unplanned = {}
  BY DEF Return, AllPlaced
<1>2. TypeOK' /\ Filling'
  BY <1>1 DEF IInv, TypeOK, Filling, Return
<1>3. Grounded'
  BY <1>1, Frame DEF IInv, Grounded
<1>4. Placed'
  BY <1>1, Frame DEF IInv, Placed
<1> QED
  BY <1>1, <1>2, <1>3, <1>4, Frame DEF IInv

LEMMA StutterStep == IInv /\ UNCHANGED vars => IInv'
<1> SUFFICES ASSUME IInv, UNCHANGED vars PROVE IInv'
  OBVIOUS
<1>1. UNCHANGED <<plan, options, waves, isolated, pc, wave, ready>>
  BY DEF vars
<1>2. TypeOK' /\ Filling'
  BY <1>1, Frame DEF IInv, TypeOK, Filling
<1>3. Grounded' /\ Placed'
  BY <1>1, Frame DEF IInv, Grounded, Placed
<1> QED
  BY <1>1, <1>2, <1>3, Frame DEF IInv

-----------------------------------------------------------------------------
(* Theorems. *)

LEMMA InvariantKept == IInv /\ [Next]_vars => IInv'
  BY ValidateStep, OpenWaveStep, TakeTaskStep, CloseWaveStep, ShareStep,
     WorktreesStep, SerializeStep, ReturnStep, StutterStep
     DEF Next, Scheduling, Isolating

LEMMA PeersWithin == IInv => PeersDoNotMeet
<1> SUFFICES ASSUME IInv, NEW i \in DOMAIN isolated,
                    NEW t \in isolated[i].tasks, NEW u \in isolated[i].tasks,
                    t # u, Meet(t, u)
             PROVE  FALSE
  BY DEF PeersDoNotMeet
<1>1. PICK k \in DOMAIN waves : t \in waves[k] /\ u \in waves[k]
  BY DEF IInv, Placed
<1>2. t \in DOMAIN plan /\ u \in DOMAIN plan /\ ~TasksConflict(t, u)
  BY <1>1 DEF IInv, Sorted
<1> QED
  BY <1>2, MeetingConflicts DEF IInv

LEMMA AllWithin == IInv => AllOrRefused
<1> SUFFICES ASSUME IInv PROVE AllOrRefused
  OBVIOUS
<1>1. pc = "refused" => ~Valid \/ \E S \in SUBSET DOMAIN plan : Circular(S)
  BY DEF IInv, Grounded
<1>2. ASSUME pc = "done"
      PROVE  /\ Valid /\ \A S \in SUBSET DOMAIN plan : ~Circular(S)
             /\ Planned = DOMAIN plan
  <2>1. Valid /\ Remaining = {} /\ Unplanned = {}
    BY <1>2 DEF IInv, Grounded, Placed
  <2>2. Scheduled = DOMAIN plan
    BY <2>1 DEF Remaining, Scheduled, IInv, Sorted
  <2>3. \A S \in SUBSET DOMAIN plan : ~Circular(S)
    BY <2>2 DEF IInv, Acyclic, Circular
  <2>4. Scheduled \subseteq Planned
    BY <2>1 DEF Unplanned, Scheduled
  <2>5. Planned \subseteq Scheduled
    BY DEF IInv, Placed, Planned, Scheduled
  <2> QED
    BY <2>1, <2>2, <2>3, <2>4, <2>5
<1>3. \A i, j \in DOMAIN isolated : isolated[i].tasks \cap isolated[j].tasks # {} => i = j
  BY DEF IInv, Placed
<1> QED
  BY <1>1, <1>2, <1>3 DEF AllOrRefused

\* The scheduler keeps its invariant, whatever the tasks declare.
THEOREM Invariant == Spec => []IInv
<1> QED
  BY InvariantKept, Begins, PTL DEF Spec

\* Plans, waves and isolated waves are made of declared tasks.
THEOREM TypeCorrect == Spec => []TypeOK
<1>1. IInv => TypeOK
  BY DEF IInv
<1> QED
  BY <1>1, Invariant, PTL

\* In what planExecutionIsolation returns, also where it takes waves apart, no
\* task comes before a task it depends on.
THEOREM DependenciesKept == Spec => []DependenciesFirst
<1>1. IInv => DependenciesFirst
  BY DEF IInv
<1> QED
  BY <1>1, Invariant, PTL

\* tasksConflict misses nothing: two tasks of one wave do not write what the
\* other touches and own no resource that both name, patterns included.
THEOREM PeersApart == Spec => []PeersDoNotMeet
<1> QED
  BY PeersWithin, Invariant, PTL

\* Without a worktree of its own no task mutates next to another that does.
THEOREM OneMutatorAtATime == Spec => []OneMutator
<1>1. IInv => OneMutator
  BY DEF IInv
<1> QED
  BY <1>1, Invariant, PTL

\* buildExecutionWaves throws for bad dependencies and cycles only, and finds
\* every cycle; otherwise every task is placed, once.
THEOREM AllOrNothing == Spec => []AllOrRefused
<1> QED
  BY AllWithin, Invariant, PTL

\* The four together: what a Lead may rely on when it runs the waves.
THEOREM WavesAreSound == Spec => []WavesSound
<1> QED
  BY DependenciesKept, PeersApart, OneMutatorAtATime, AllOrNothing, PTL DEF WavesSound

=============================================================================
