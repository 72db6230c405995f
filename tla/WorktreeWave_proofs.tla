------------------------ MODULE WorktreeWave_proofs ------------------------
(***************************************************************************)
(* Proofs about the waves of worktrees: for any number of Leads, under any *)
(* roots, with any workers, stops and failed bindings.                     *)
(*                                                                         *)
(* Collection walks through the worktrees one by one, so the invariant     *)
(* says what it knows of the one it is at: what was there when the new     *)
(* files were looked for is visible (Looked), what is visible after the    *)
(* names were checked was either written late or is the task's (Checked),  *)
(* and so is what the diff then held (Drafted).  The results are those of  *)
(* the tasks before the one it is at (Counted).                            *)
(***************************************************************************)
EXTENDS WorktreeWave, TLAPS

Pc ==
  {"idle", "add", "open", "write", "running", "owner", "intent", "names", "diff",
   "patch", "collected", "handed", "remove", "prune", "clear", "failed", "closed"}
Result == [patch : SUBSET Change, missed : SUBSET Change]
LeadState ==
  [pc : Pc, i : Index, failed : BOOLEAN, spawned : BOOLEAN,
   draft : SUBSET Change, missed : SUBSET Change, results : Seq(Result)]
Worktree == [there : BOOLEAN, changes : SUBSET Change, known : SUBSET File]
Registration == [is : {"gone", "unbound", "torn", "owner"}, of : Lead \cup {"nobody"}]

Types ==
  /\ rootOf \in [Lead -> Root]
  /\ roots \in SUBSET Root
  /\ disk \in [Path -> Worktree]
  /\ admin \in [Path -> Registration]
  /\ patches \in [Path -> Seq(SUBSET Change)]
  /\ lead \in [Lead -> LeadState]
  /\ \A l \in Lead : lead[l].i \in 1 .. Size[l]

LEMMA InPath == ASSUME Types, NEW l \in Lead PROVE PathOf(l) \in Path
  BY DEF Types, PathOf, Path, LeadState

\* The places of a Lead's tasks.
LEMMA Places ==
  ASSUME NEW l \in Lead
  PROVE /\ Size[l] \in Nat /\ Size[l] \in 1 .. Size[l] /\ 1 \in 1 .. Size[l]
        /\ \A i \in 1 .. Size[l] : i \in Index /\ i \in Nat
        /\ \A i \in 1 .. Size[l] : i # Size[l] => i + 1 \in 1 .. Size[l]
        /\ \A i \in 1 .. Size[l] : i # 1 => i - 1 \in 1 .. Size[l]
  <1>1. Size[l] \in Nat \ {0} BY WaveAssumption DEF WaveAssumption
  <1>2. \A i \in 1 .. Size[l] : i \in Index BY DEF Index
  <1> QED BY <1>1, <1>2

LEMMA IndexNat == \A i \in Index : i \in Nat
  <1>1. \A i \in Index : \E l \in Lead : i \in 1 .. Size[l] BY DEF Index
  <1>2. \A l \in Lead : \A i \in 1 .. Size[l] : i \in Nat BY Places
  <1> QED BY <1>1, <1>2

LEMMA AsleepTyped == ASSUME NEW l \in Lead PROVE Asleep \in LeadState
  <1>1. 1 \in Index BY Places
  <1> QED BY <1>1 DEF Asleep, LeadState, Pc

\* The states a Lead may go to.
LEMMA StatesTyped ==
  ASSUME Types, NEW l \in Lead
  PROVE /\ \A where \in Pc : LET s == [lead[l] EXCEPT !.pc = where]
                              IN  s \in LeadState /\ s.i = lead[l].i
        /\ \A where \in Pc, i \in 1 .. Size[l] :
             LET s == [lead[l] EXCEPT !.pc = where, !.i = i]
             IN  s \in LeadState /\ s.i \in 1 .. Size[l]
  <1>1. lead[l] \in LeadState /\ \A i \in 1 .. Size[l] : i \in Index
    BY Places DEF Types
  <1> QED BY <1>1 DEF LeadState

LEMMA InitTyped == WaveInit => Types
  <1>1. ASSUME NEW l \in Lead PROVE 1 \in 1 .. Size[l] /\ Asleep \in LeadState
    BY Places, AsleepTyped
  <1>2. Missing \in Worktree BY DEF Missing, Worktree
  <1>3. Gone \in Registration BY DEF Gone, Meta, Registration
  <1>4. Asleep.i = 1 BY DEF Asleep
  <1> QED BY <1>1, <1>2, <1>3, <1>4, WaveAssumption
        DEF WaveInit, Types, NoPatch, WaveAssumption

\* Every step but a worker's is one Lead's.
LeadStep(l) == Step(l) \/ FailBinding(l) \/ Stop(l)

Moves(l) == \E s \in LeadState : s.i \in 1 .. Size[l] /\ Becomes(l, s)

LEMMA HelpersMove ==
  ASSUME Types, NEW l \in Lead
  PROVE /\ FailCreation(l) => Moves(l)
        /\ Bound(l) => Moves(l)
        /\ ThrowCollecting(l) => Moves(l)
        /\ \A where \in Pc : Goes(l, where) => Moves(l)
  <1>1. Size[l] \in Index /\ Size[l] \in 1 .. Size[l] /\ 1 \in 1 .. Size[l]
    BY Places
  <1>2. lead[l].i \in 1 .. Size[l] /\ lead[l] \in LeadState BY DEF Types
  <1>3. ASSUME FailCreation(l) PROVE Moves(l)
    <2> DEFINE next == IF lead[l].i = 1 THEN 1 ELSE lead[l].i - 1
               where == IF lead[l].i = 1 THEN "prune" ELSE "remove"
               s == [lead[l] EXCEPT !.failed = TRUE, !.pc = where, !.i = next]
    <2>1. next \in Index /\ next \in 1 .. Size[l]
      BY <1>2, Places
    <2>2. where \in Pc BY DEF Pc
    <2>3. Becomes(l, s) BY <1>3 DEF FailCreation
    <2> HIDE DEF next, where
    <2>4. s \in LeadState /\ s.i \in 1 .. Size[l] BY <1>2, <2>1, <2>2 DEF LeadState
    <2> HIDE DEF s
    <2> QED BY <2>3, <2>4 DEF Moves
  <1>4. ASSUME Bound(l) PROVE Moves(l)
    <2> DEFINE next == IF lead[l].i = Size[l] THEN lead[l].i ELSE lead[l].i + 1
               where == IF lead[l].i = Size[l] THEN "running" ELSE "add"
               s == [lead[l] EXCEPT !.pc = where, !.i = next,
                                    !.spawned = lead[l].spawned \/ lead[l].i = Size[l]]
    <2>1. next \in Index /\ next \in 1 .. Size[l]
      BY <1>2, Places
    <2>2. where \in Pc BY DEF Pc
    <2>3. Becomes(l, s) BY <1>4 DEF Bound
    <2> HIDE DEF next, where
    <2>4. s \in LeadState /\ s.i \in 1 .. Size[l] BY <1>2, <2>1, <2>2 DEF LeadState
    <2> HIDE DEF s
    <2> QED BY <2>3, <2>4 DEF Moves
  <1>5. ASSUME ThrowCollecting(l) PROVE Moves(l)
    <2> DEFINE s == [Asleep EXCEPT !.pc = "running", !.i = Size[l], !.spawned = TRUE]
    <2>1. s \in LeadState /\ s.i \in 1 .. Size[l]
      BY <1>1, AsleepTyped DEF LeadState, Pc
    <2>2. Becomes(l, s) BY <1>5 DEF ThrowCollecting
    <2> HIDE DEF s
    <2> QED BY <2>1, <2>2 DEF Moves
  <1>6. ASSUME NEW where \in Pc, Goes(l, where) PROVE Moves(l)
    BY <1>2, <1>6, StatesTyped DEF Goes, Moves
  <1> QED BY <1>3, <1>4, <1>5, <1>6

LEMMA LeadMoves ==
  ASSUME Types, NEW l \in Lead, LeadStep(l)
  PROVE Moves(l)
  <1>1. Size[l] \in Index /\ Size[l] \in 1 .. Size[l] /\ 1 \in 1 .. Size[l]
    BY Places
  <1>2. lead[l] \in LeadState /\ lead[l].i \in 1 .. Size[l]
    BY DEF Types
  <1>3. {"add", "open", "write", "owner", "intent", "names", "diff", "patch",
         "collected", "handed", "remove", "prune", "clear", "failed", "closed"} \subseteq Pc
    BY DEF Pc
  <1>4. CASE CreateWorktreeWave(l)
    <2> DEFINE s == [Asleep EXCEPT !.pc = "add", !.spawned = lead[l].spawned]
    <2>1. s \in LeadState /\ s.i \in 1 .. Size[l]
      BY <1>1, <1>2, <1>3, AsleepTyped DEF LeadState, Asleep
    <2>2. Becomes(l, s) BY <1>4 DEF CreateWorktreeWave
    <2> HIDE DEF s
    <2> QED BY <2>1, <2>2 DEF Moves
  <1>5. CASE AddWorktree(l)
    BY <1>5, <1>3, HelpersMove DEF AddWorktree
  <1>6. CASE OpenOwner(l)
    BY <1>6, <1>3, HelpersMove DEF OpenOwner
  <1>7. CASE WriteOwner(l)
    BY <1>7, <1>3, HelpersMove DEF WriteOwner
  <1>8. CASE CollectWorktreeResults(l)
    BY <1>8, <1>1, <1>3, StatesTyped DEF CollectWorktreeResults, Moves
  <1>9. CASE ReadOwner(l)
    BY <1>9, <1>3, HelpersMove DEF ReadOwner
  <1>10. CASE IntendToAdd(l)
    BY <1>10, <1>3, HelpersMove DEF IntendToAdd
  <1>11. CASE CheckNames(l)
    BY <1>11, <1>3, HelpersMove DEF CheckNames
  <1>12. CASE Diff(l)
    <2> DEFINE seen == Visible(PathOf(l))
               rest == disk[PathOf(l)].changes \ Visible(PathOf(l))
    <2>1. seen \in SUBSET Change /\ rest \in SUBSET Change
      BY InPath DEF Types, Worktree, Visible
    <2> DEFINE s == [lead[l] EXCEPT !.pc = "patch", !.draft = seen, !.missed = rest]
    <2>2. ThrowCollecting(l) \/ Becomes(l, s) BY <1>12 DEF Diff
    <2> HIDE DEF seen, rest
    <2>3. s \in LeadState /\ s.i \in 1 .. Size[l] BY <2>1, <1>2, <1>3 DEF LeadState
    <2> HIDE DEF s
    <2>4. Becomes(l, s) => Moves(l) BY <2>3 DEF Moves
    <2> QED BY <2>2, <2>4, HelpersMove
  <1>13. CASE WritePatch(l)
    <2> DEFINE result == [patch |-> lead[l].draft, missed |-> lead[l].missed]
               next == IF lead[l].i = Size[l] THEN lead[l].i ELSE lead[l].i + 1
               where == IF lead[l].i = Size[l] THEN "collected" ELSE "owner"
    <2>1. Append(lead[l].results, result) \in Seq(Result)
      BY <1>2 DEF LeadState, Result
    <2>2. next \in 1 .. Size[l] /\ where \in Pc BY <1>2, <1>3, Places
    <2> DEFINE more == Append(lead[l].results, result)
               s == [lead[l] EXCEPT !.pc = where, !.i = next, !.results = more]
    <2>3. ThrowCollecting(l) \/ Becomes(l, s) BY <1>13 DEF WritePatch
    <2>4. next \in Index BY <2>2, Places
    <2>5. more \in Seq(Result) BY <2>1
    <2> HIDE DEF result, next, where, more
    <2>6. s \in LeadState /\ s.i \in 1 .. Size[l] BY <2>2, <2>4, <2>5, <1>2 DEF LeadState
    <2> HIDE DEF s
    <2>7. Becomes(l, s) => Moves(l) BY <2>6 DEF Moves
    <2> QED BY <2>3, <2>7, HelpersMove
  <1>14. CASE HandOver(l)
    BY <1>14, <1>3, HelpersMove DEF HandOver
  <1>15. CASE CleanupWorktreeWave(l)
    BY <1>15, <1>1, <1>3, StatesTyped DEF CleanupWorktreeWave, Moves
  <1>16. CASE RemoveWorktree(l)
    <2> DEFINE next == IF lead[l].i = 1 THEN 1 ELSE lead[l].i - 1
               where == IF lead[l].i = 1 THEN "prune" ELSE "remove"
    <2>1. next \in 1 .. Size[l] /\ where \in Pc BY <1>2, <1>3, Places
    <2>2. Becomes(l, [lead[l] EXCEPT !.pc = where, !.i = next])
      BY <1>16 DEF RemoveWorktree
    <2> HIDE DEF next, where
    <2> QED BY <2>1, <2>2, StatesTyped DEF Moves
  <1>17. CASE Prune(l)
    BY <1>17, <1>3, HelpersMove DEF Prune
  <1>18. CASE RemoveRoot(l)
    <2> DEFINE s == [Asleep EXCEPT !.pc = IF lead[l].failed THEN "failed" ELSE "closed",
                                !.spawned = lead[l].spawned]
    <2>1. s \in LeadState /\ s.i \in 1 .. Size[l]
      BY <1>1, <1>2, <1>3, AsleepTyped DEF LeadState, Asleep
    <2>2. Becomes(l, s) BY <1>18 DEF RemoveRoot
    <2> HIDE DEF s
    <2> QED BY <2>1, <2>2 DEF Moves
  <1>19. CASE FailBinding(l)
    BY <1>19, <1>3, HelpersMove DEF FailBinding
  <1>20. CASE Stop(l)
    <2> DEFINE s == [Asleep EXCEPT !.spawned = lead[l].spawned]
    <2>1. s \in LeadState /\ s.i \in 1 .. Size[l]
      BY <1>1, <1>2, <1>3, AsleepTyped DEF LeadState, Asleep
    <2>2. Becomes(l, s) BY <1>20 DEF Stop
    <2> HIDE DEF s
    <2> QED BY <2>1, <2>2 DEF Moves
  <1> QED BY <1>4, <1>5, <1>6, <1>7, <1>8, <1>9, <1>10, <1>11, <1>12, <1>13, <1>14, <1>15, <1>16, <1>17, <1>18, <1>19, <1>20
         DEF LeadStep, Step

LEMMA WriteTyped ==
  ASSUME Types, NEW l \in Lead, NEW t \in 1 .. Size[l], NEW f \in File, Write(l, t, f)
  PROVE Types'
  <1> DEFINE p == <<rootOf[l], t>>
             now == [disk[p] EXCEPT !.changes = @ \cup {[file |-> f, at |-> Now(p)]}]
  <1>1. p \in Path
    BY Places DEF Types, Path
  <1>2. [file |-> f, at |-> Now(p)] \in Change
    BY DEF Now, Change, Moment
  <1>3. disk[p] \in Worktree BY <1>1 DEF Types
  <1>4. now \in Worktree BY <1>2, <1>3 DEF Worktree
  <1>5. disk' = [disk EXCEPT ![p] = now] BY DEF Write
  <1> HIDE DEF now, p
  <1>6. disk' \in [Path -> Worktree] BY <1>1, <1>4, <1>5 DEF Types
  <1> QED BY <1>6 DEF Write, Types

LEMMA LeadTyped ==
  ASSUME Types, NEW l \in Lead, LeadStep(l)
  PROVE Types'
  <1>1. PICK s \in LeadState : s.i \in 1 .. Size[l] /\ Becomes(l, s)
    BY LeadMoves DEF Moves
  <1>2. lead' \in [Lead -> LeadState] /\ \A m \in Lead : lead'[m].i \in 1 .. Size[m]
    BY <1>1 DEF Becomes, Types
  <1>3. rootOf' = rootOf /\ PathOf(l) \in Path
    BY InPath DEF LeadStep, Step, CreateWorktreeWave, AddWorktree, OpenOwner, WriteOwner,
       CollectWorktreeResults, ReadOwner, IntendToAdd, CheckNames, Diff, WritePatch, HandOver,
       CleanupWorktreeWave, RemoveWorktree, Prune, RemoveRoot, FailBinding, Stop
  <1>4. /\ Fresh \in Worktree /\ Missing \in Worktree /\ Gone \in Registration
        /\ Unbound \in Registration /\ Torn(l) \in Registration /\ Owner(l) \in Registration
    BY DEF Fresh, Missing, Gone, Unbound, Torn, Owner, Meta, Worktree, Registration
  <1>5. roots' \in SUBSET Root
    BY DEF Types, shop, LeadStep, Step, CreateWorktreeWave, AddWorktree, OpenOwner, WriteOwner,
       CollectWorktreeResults, ReadOwner, IntendToAdd, CheckNames, Diff, WritePatch, HandOver,
       CleanupWorktreeWave, RemoveWorktree, Prune, RemoveRoot, FailBinding, Stop, ThrowCollecting
  <1>6. patches' \in [Path -> Seq(SUBSET Change)]
    <2>1. lead[l].draft \in SUBSET Change BY DEF Types, LeadState
    <2>2. <<lead[l].draft>> \in Seq(SUBSET Change) BY <2>1
    <2>3. NoPatch \in Seq(SUBSET Change) BY DEF NoPatch
    <2>4. CASE WritePatch(l)
      BY <2>2, <2>4, <1>3 DEF WritePatch, ThrowCollecting, shop, Types
    <2>5. CASE RemoveRoot(l) BY <2>3, <2>5 DEF RemoveRoot, Types
    <2>6. CASE ~WritePatch(l) /\ ~RemoveRoot(l)
      BY <2>6 DEF Types, shop, LeadStep, Step, CreateWorktreeWave, AddWorktree, OpenOwner,
         WriteOwner, CollectWorktreeResults, ReadOwner, IntendToAdd, CheckNames, Diff, HandOver,
         CleanupWorktreeWave, RemoveWorktree, Prune, FailBinding, Stop, ThrowCollecting
    <2> QED BY <2>4, <2>5, <2>6
  <1>7. admin' \in [Path -> Registration]
    <2>1. CASE Prune(l) BY <1>4, <2>1 DEF Prune, Types
    <2>2. CASE ~Prune(l)
      BY <1>3, <1>4, <2>2
      DEF Types, shop, LeadStep, Step, CreateWorktreeWave, AddWorktree, OpenOwner,
         WriteOwner, CollectWorktreeResults, ReadOwner, IntendToAdd, CheckNames, Diff, HandOver,
         CleanupWorktreeWave, RemoveWorktree, RemoveRoot, WritePatch, FailBinding, Stop, ThrowCollecting
    <2> QED BY <2>1, <2>2
  <1>8. disk' \in [Path -> Worktree]
    <2>1. CASE RemoveRoot(l) BY <1>4, <2>1 DEF RemoveRoot, Types
    <2>2. CASE IntendToAdd(l)
      <3> DEFINE files == {c.file : c \in disk[PathOf(l)].changes}
                 now == [disk[PathOf(l)] EXCEPT !.known = files]
      <3>1. disk[PathOf(l)] \in Worktree BY <1>3 DEF Types
      <3>2. files \in SUBSET File BY <3>1 DEF Worktree, Change
      <3>3. now \in Worktree BY <3>1, <3>2 DEF Worktree
      <3>4. disk' = disk \/ disk' = [disk EXCEPT ![PathOf(l)] = now]
        BY <2>2 DEF IntendToAdd, ThrowCollecting, shop
      <3> HIDE DEF now, files
      <3> QED BY <3>3, <3>4, <1>3 DEF Types
    <2>3. CASE ~RemoveRoot(l) /\ ~IntendToAdd(l)
      BY <1>3, <1>4, <2>3
      DEF Types, shop, LeadStep, Step, CreateWorktreeWave, AddWorktree, OpenOwner,
         WriteOwner, CollectWorktreeResults, ReadOwner, CheckNames, Diff, HandOver,
         CleanupWorktreeWave, RemoveWorktree, Prune, WritePatch, FailBinding, Stop, ThrowCollecting
    <2> QED BY <2>1, <2>2, <2>3
  <1> QED BY <1>2, <1>3, <1>5, <1>6, <1>7, <1>8 DEF Types

LEMMA Steps ==
  ASSUME WaveNext
  PROVE \E l \in Lead : \/ LeadStep(l)
                        \/ \E t \in 1 .. Size[l], f \in File : Write(l, t, f)
  BY DEF WaveNext, LeadStep

LEMMA StepTyped == Types /\ [WaveNext]_waveVars => Types'
  <1>1. ASSUME Types, UNCHANGED waveVars PROVE Types' BY <1>1 DEF Types, waveVars
  <1> QED BY <1>1, Steps, LeadTyped, WriteTyped

LEMMA TypesHold == WaveSpec => []Types
  BY InitTyped, StepTyped, PTL DEF WaveSpec

-----------------------------------------------------------------------------
(* What a step does to the collection its Lead is at. *)

Same(l) ==
  /\ lead'[l].i = lead[l].i /\ lead'[l].results = lead[l].results
  /\ UNCHANGED rootOf

\* The result of the worktree that a Lead is at.
ResultOf(l) == [patch |-> lead[l].draft, missed |-> lead[l].missed]

Outside(l) ==
  /\ lead'[l].pc \in {"idle", "add", "open", "write", "running", "failed", "closed"}
  /\ \/ lead'[l].results = <<>>
     \/ /\ lead'[l].results = lead[l].results
        /\ lead[l].pc \in {"add", "open", "write"}
Over(l) ==
  /\ lead'[l].pc \in {"prune", "remove", "clear", "handed"}
  /\ lead'[l].results = lead[l].results
Begins(l) ==
  /\ lead[l].pc = "running" /\ lead'[l].pc = "owner" /\ lead'[l].i = 1
  /\ lead'[l].results = lead[l].results
Owns(l) == lead[l].pc = "owner" /\ lead'[l].pc = "intent" /\ Same(l)
Looks(l) ==
  /\ lead[l].pc = "intent" /\ lead'[l].pc = "names" /\ Same(l)
  /\ disk'[PathOf(l)].known = {c.file : c \in disk[PathOf(l)].changes}
  /\ disk'[PathOf(l)].changes = disk[PathOf(l)].changes
Checks(l) ==
  /\ lead[l].pc = "names" /\ lead'[l].pc = "diff" /\ Same(l) /\ disk' = disk
  /\ {c.file : c \in Visible(PathOf(l))} \subseteq Owned[l][lead[l].i]
Drafts(l) ==
  /\ lead[l].pc = "diff" /\ lead'[l].pc = "patch" /\ Same(l)
  /\ lead'[l].draft = Visible(PathOf(l))
  /\ lead'[l].missed = disk[PathOf(l)].changes \ Visible(PathOf(l))
Writes(l) ==
  /\ lead[l].pc = "patch" /\ lead'[l].pc \in {"owner", "collected"}
  /\ lead'[l].pc = "owner" => lead'[l].i = lead[l].i + 1
  /\ lead'[l].results = Append(lead[l].results, ResultOf(l))

LEMMA After ==
  ASSUME Types, NEW l \in Lead
  PROVE /\ \A s \in LeadState : Becomes(l, s) => lead'[l] = s
        /\ ThrowCollecting(l) => Outside(l)
        /\ \A where \in Pc : Goes(l, where) =>
             /\ lead'[l].pc = where /\ lead'[l].i = lead[l].i
             /\ lead'[l].results = lead[l].results
        /\ FailCreation(l) => Over(l)
        /\ Bound(l) /\ lead[l].pc \in {"open", "write"} => Outside(l)
  <1>1. \A s : Becomes(l, s) => lead'[l] = s BY DEF Becomes, Types
  <1>2. lead[l] \in LeadState BY DEF Types
  <1>3. ASSUME ThrowCollecting(l) PROVE Outside(l)
    BY <1>3, <1>1 DEF ThrowCollecting, Outside, Asleep
  <1>4. ASSUME NEW where \in Pc, Goes(l, where)
        PROVE /\ lead'[l].pc = where /\ lead'[l].i = lead[l].i
              /\ lead'[l].results = lead[l].results
    BY <1>4, <1>1, <1>2 DEF Goes, LeadState
  <1>5. ASSUME FailCreation(l) PROVE Over(l)
    BY <1>5, <1>1, <1>2 DEF FailCreation, Over, LeadState
  <1>6. ASSUME Bound(l), lead[l].pc \in {"open", "write"} PROVE Outside(l)
    <2> DEFINE next == IF lead[l].i = Size[l] THEN lead[l].i ELSE lead[l].i + 1
               where == IF lead[l].i = Size[l] THEN "running" ELSE "add"
               up == lead[l].spawned \/ lead[l].i = Size[l]
               s == [lead[l] EXCEPT !.pc = where, !.i = next, !.spawned = up]
    <2>1. lead'[l] = s BY <1>6, <1>1 DEF Bound
    <2>2. where \in {"running", "add"} OBVIOUS
    <2> HIDE DEF next, where, up
    <2>3. s.pc = where /\ s.results = lead[l].results BY <1>2 DEF LeadState
    <2> HIDE DEF s
    <2> QED BY <1>6, <2>1, <2>2, <2>3 DEF Outside
  <1> QED BY <1>1, <1>3, <1>4, <1>5, <1>6

LEMMA Arrival ==
  ASSUME Types, NEW l \in Lead, LeadStep(l)
  PROVE \/ Outside(l) \/ Over(l) \/ Begins(l) \/ Owns(l)
        \/ Looks(l) \/ Checks(l) \/ Drafts(l) \/ Writes(l)
  <1>1. lead[l] \in LeadState BY DEF Types
  <1>2. {"add", "open", "write", "owner", "intent", "names", "diff", "patch",
         "collected", "handed", "remove", "prune", "clear", "failed", "closed"} \subseteq Pc
    BY DEF Pc
  <1>a. \A s : Becomes(l, s) => lead'[l] = s BY DEF Becomes, Types
  <1>3. CASE CreateWorktreeWave(l)
    BY <1>3, <1>a DEF CreateWorktreeWave, Asleep, Outside
  <1>4. CASE AddWorktree(l)
    BY <1>4, <1>2, After DEF AddWorktree, At, Outside
  <1>5. CASE OpenOwner(l)
    BY <1>5, <1>2, After DEF OpenOwner, At, Outside
  <1>6. CASE WriteOwner(l)
    BY <1>6, <1>2, After DEF WriteOwner, At
  <1>7. CASE CollectWorktreeResults(l)
    BY <1>7, <1>1, <1>a DEF CollectWorktreeResults, At, Begins, LeadState
  <1>8. CASE ReadOwner(l)
    BY <1>8, <1>2, After DEF ReadOwner, At, Owns, Same
  <1>9. CASE IntendToAdd(l)
    <2>1. PathOf(l) \in Path BY InPath
    <2>2. disk[PathOf(l)] \in Worktree BY <2>1 DEF Types
    <2> QED BY <1>9, <1>2, <2>1, <2>2, After DEF IntendToAdd, At, Looks, Same, Types, Worktree
  <1>10. CASE CheckNames(l)
    BY <1>10, <1>2, After DEF CheckNames, At, Checks, Same, shop
  <1>11. CASE Diff(l)
    <2> DEFINE seen == Visible(PathOf(l))
               rest == disk[PathOf(l)].changes \ Visible(PathOf(l))
               s == [lead[l] EXCEPT !.pc = "patch", !.draft = seen, !.missed = rest]
    <2>1. ThrowCollecting(l) \/ Becomes(l, s) BY <1>11 DEF Diff
    <2> HIDE DEF seen, rest
    <2>2. /\ s.pc = "patch" /\ s.draft = seen /\ s.missed = rest
          /\ s.i = lead[l].i /\ s.results = lead[l].results
      BY <1>1 DEF LeadState
    <2> HIDE DEF s
    <2>3. CASE Becomes(l, s)
      BY <1>11, <2>2, <2>3, <1>a DEF Diff, At, Drafts, Same, seen, rest
    <2> QED BY <2>1, <2>3, After
  <1>12. CASE WritePatch(l)
    <2> DEFINE next == IF lead[l].i = Size[l] THEN lead[l].i ELSE lead[l].i + 1
               where == IF lead[l].i = Size[l] THEN "collected" ELSE "owner"
               more == Append(lead[l].results, ResultOf(l))
               s == [lead[l] EXCEPT !.pc = where, !.i = next, !.results = more]
    <2>1. ThrowCollecting(l) \/ Becomes(l, s) BY <1>12 DEF WritePatch, ResultOf
    <2>2. where \in {"owner", "collected"} /\ (where = "owner" => next = lead[l].i + 1)
      OBVIOUS
    <2> HIDE DEF next, where, more
    <2>3. s.pc = where /\ s.i = next /\ s.results = more
      BY <1>1 DEF LeadState
    <2> HIDE DEF s
    <2>4. CASE Becomes(l, s)
      BY <1>12, <2>2, <2>3, <2>4, <1>a DEF WritePatch, At, Writes, more
    <2> QED BY <2>1, <2>4, After
  <1>13. CASE HandOver(l)
    BY <1>13, <1>2, After DEF HandOver, Over
  <1>14. CASE CleanupWorktreeWave(l)
    BY <1>14, <1>1, <1>a DEF CleanupWorktreeWave, Over, LeadState
  <1>15. CASE RemoveWorktree(l)
    BY <1>15, <1>1, <1>a DEF RemoveWorktree, Over, LeadState
  <1>16. CASE Prune(l)
    BY <1>16, <1>2, After DEF Prune, Over
  <1>17. CASE RemoveRoot(l)
    BY <1>17, <1>a DEF RemoveRoot, Asleep, Outside
  <1>18. CASE FailBinding(l)
    BY <1>18, After DEF FailBinding
  <1>19. CASE Stop(l)
    BY <1>19, <1>a DEF Stop, Asleep, Outside
  <1> QED BY <1>3, <1>4, <1>5, <1>6, <1>7, <1>8, <1>9, <1>10, <1>11, <1>12, <1>13, <1>14, <1>15, <1>16, <1>17, <1>18, <1>19
         DEF LeadStep, Step

-----------------------------------------------------------------------------
(* What is known while a worktree is collected. *)

LateOrOwned(l, t, c) == c.file \notin Owned[l][t] => Late(l, c)

Counted(l) ==
  /\ lead[l].pc \in {"idle", "add", "open", "write", "running", "failed", "closed"} =>
       lead[l].results = <<>>
  /\ lead[l].pc \in {"owner", "intent", "names", "diff", "patch"} =>
       Len(lead[l].results) = lead[l].i - 1
Looked(l) ==
  lead[l].pc \in {"names", "diff"} =>
    \A c \in disk[PathOf(l)].changes :
      c.at = "before" => c.file \in disk[PathOf(l)].known
Checked(l) ==
  lead[l].pc = "diff" =>
    \A c \in Visible(PathOf(l)) : LateOrOwned(l, lead[l].i, c)
Drafted(l) ==
  lead[l].pc = "patch" =>
    /\ \A c \in lead[l].draft : LateOrOwned(l, lead[l].i, c)
    /\ \A c \in lead[l].missed : c.at # "before"
Faithful(l) ==
  \A t \in DOMAIN lead[l].results :
    /\ \A c \in lead[l].results[t].patch : LateOrOwned(l, t, c)
    /\ \A c \in lead[l].results[t].missed : c.at # "before"

Collected(l) == Counted(l) /\ Looked(l) /\ Checked(l) /\ Drafted(l) /\ Faithful(l)

\* What a step of a Lead makes of any worktree.
LEMMA Worktrees ==
  ASSUME Types, NEW l \in Lead, LeadStep(l), NEW p \in Path
  PROVE /\ rootOf' = rootOf
        /\ \/ disk'[p] = disk[p]
           \/ disk'[p].changes = {}
           \/ /\ p = PathOf(l) /\ lead[l].pc = "intent"
              /\ disk'[p].changes = disk[p].changes
              /\ disk'[p].known = {c.file : c \in disk[p].changes}
  <1>1. rootOf' = rootOf /\ PathOf(l) \in Path
    BY InPath DEF LeadStep, Step, CreateWorktreeWave, AddWorktree, OpenOwner, WriteOwner,
       CollectWorktreeResults, ReadOwner, IntendToAdd, CheckNames, Diff, WritePatch, HandOver,
       CleanupWorktreeWave, RemoveWorktree, Prune, RemoveRoot, FailBinding, Stop
  <1>2. disk[p] \in Worktree BY DEF Types
  <1>3. CASE RemoveRoot(l) BY <1>1, <1>3 DEF RemoveRoot, Missing
  <1>4. CASE IntendToAdd(l)
    <2>1. CASE p = PathOf(l)
      BY <1>1, <1>2, <1>4, <2>1 DEF IntendToAdd, At, ThrowCollecting, shop, Types, Worktree
    <2>2. CASE p # PathOf(l)
      BY <1>1, <1>4, <2>2 DEF IntendToAdd, ThrowCollecting, shop, Types
    <2> QED BY <2>1, <2>2
  <1>5. CASE ~RemoveRoot(l) /\ ~IntendToAdd(l)
    BY <1>1, <1>5
    DEF Types, shop, LeadStep, Step, CreateWorktreeWave, AddWorktree, OpenOwner,
       WriteOwner, CollectWorktreeResults, ReadOwner, CheckNames, Diff, HandOver,
       CleanupWorktreeWave, RemoveWorktree, Prune, WritePatch, FailBinding, Stop,
       ThrowCollecting, Fresh, Missing
  <1> QED BY <1>3, <1>4, <1>5

\* A Lead that another one's step leaves where it is.
LEMMA Bystander ==
  ASSUME Types, NEW l \in Lead, LeadStep(l), NEW m \in Lead \ {l}, Collected(m)
  PROVE Collected(m)'
  <1> DEFINE p == PathOf(m)
  <1>1. lead'[m] = lead[m]
    BY LeadMoves DEF Moves, Becomes, Types
  <1>2. p \in Path BY InPath
  <1>3. rootOf' = rootOf /\ PathOf(m)' = p
    BY <1>1, <1>2, Worktrees DEF PathOf
  <1>4. Counted(m)' BY <1>1 DEF Collected, Counted
  <1>5. \A c : Late(m, c)' = Late(m, c) BY <1>3 DEF Late, Alone
  <1>6. Drafted(m)' /\ Faithful(m)'
    BY <1>1, <1>5 DEF Collected, Drafted, Faithful, LateOrOwned
  <1>7. Visible(p)' = {c \in disk'[p].changes : c.file \in Tracked \cup disk'[p].known}
    BY <1>1, <1>3 DEF Visible, PathOf
  <1>8. Looked(m)'
    <2> SUFFICES ASSUME lead[m].pc \in {"names", "diff"}, NEW c \in disk'[p].changes,
                        c.at = "before"
                 PROVE c.file \in disk'[p].known
      BY <1>1, <1>3 DEF Looked
    <2> QED BY <1>2, Worktrees DEF Collected, Looked
  <1>9. Checked(m)'
    <2> SUFFICES ASSUME lead[m].pc = "diff", NEW c \in disk'[p].changes,
                        c.file \in Tracked \cup disk'[p].known
                 PROVE LateOrOwned(m, lead[m].i, c)
      BY <1>1, <1>3, <1>5, <1>7 DEF Checked, LateOrOwned
    <2>1. CASE disk'[p] = disk[p] BY <2>1 DEF Collected, Checked, Visible
    <2>2. CASE disk'[p].changes = {} BY <2>2
    <2>3. CASE p = PathOf(l) /\ disk'[p].changes = disk[p].changes
      <3>1. rootOf[l] = rootOf[m] BY <2>3 DEF PathOf
      <3>2. ~Alone(m) BY <3>1 DEF Alone
      <3>3. c.at \in Moment BY <1>2, <2>3 DEF Types, Worktree, Change
      <3>4. c.at = "before" => c \in Visible(p)
        BY <2>3 DEF Collected, Looked, Visible
      <3> QED BY <3>2, <3>3, <3>4 DEF Collected, Checked, LateOrOwned, Late, Moment
    <2> QED BY <1>2, <2>1, <2>2, <2>3, Worktrees
  <1> QED BY <1>4, <1>6, <1>8, <1>9 DEF Collected

\* The Lead whose step it is.
LEMMA Mover ==
  ASSUME Types, NEW l \in Lead, LeadStep(l), Collected(l)
  PROVE Collected(l)'
  <1> DEFINE p == PathOf(l)
  <1>1. p \in Path /\ rootOf' = rootOf BY InPath, Worktrees
  <1>2. \A c : Late(l, c)' = Late(l, c) BY <1>1 DEF Late, Alone
  <1>3. \A t, c : LateOrOwned(l, t, c)' = LateOrOwned(l, t, c)
    BY <1>2 DEF LateOrOwned
  <1>4. lead[l] \in LeadState /\ lead[l].i \in Nat /\ Len(lead[l].results) \in Nat
    BY IndexNat DEF Types, LeadState
  <1>5. CASE Outside(l)
    BY <1>5 DEF Outside, Collected, Counted, Looked, Checked, Drafted, Faithful
  <1>6. CASE Over(l)
    BY <1>3, <1>6 DEF Over, Collected, Counted, Looked, Checked, Drafted, Faithful
  <1>7. CASE Begins(l)
    BY <1>3, <1>7 DEF Begins, Collected, Counted, Looked, Checked, Drafted, Faithful
  <1>8. CASE Owns(l)
    BY <1>3, <1>8 DEF Owns, Same, Collected, Counted, Looked, Checked, Drafted, Faithful
  <1>9. CASE Looks(l)
    <2>1. Looked(l)' BY <1>9 DEF Looks, Same, Looked, PathOf
    <2> QED BY <1>3, <1>9, <2>1
        DEF Looks, Same, Collected, Counted, Checked, Drafted, Faithful
  <1>10. CASE Checks(l)
    <2>1. PathOf(l)' = p /\ Visible(p)' = Visible(p)
      BY <1>10 DEF Checks, Same, PathOf, Visible
    <2>2. Looked(l)' BY <1>10, <2>1 DEF Checks, Collected, Looked
    <2>3. Checked(l)'
      <3> SUFFICES ASSUME NEW c \in Visible(p) PROVE LateOrOwned(l, lead[l].i, c)
        BY <1>3, <1>10, <2>1 DEF Checks, Same, Checked
      <3> QED BY <1>10 DEF Checks, LateOrOwned
    <2> QED BY <1>3, <1>10, <2>2, <2>3
        DEF Checks, Same, Collected, Counted, Drafted, Faithful
  <1>11. CASE Drafts(l)
    <2>1. \A c \in lead'[l].draft : LateOrOwned(l, lead[l].i, c)
      BY <1>11 DEF Drafts, Collected, Checked
    <2>2. \A c \in lead'[l].missed : c.at # "before"
      BY <1>11 DEF Drafts, Collected, Looked, Visible
    <2>3. Drafted(l)' BY <1>3, <1>11, <2>1, <2>2 DEF Drafts, Same, Drafted
    <2> QED BY <1>3, <1>11, <2>3
        DEF Drafts, Same, Collected, Counted, Looked, Checked, Faithful
  <1>12. CASE Writes(l)
    <2> DEFINE done == lead[l].results
    <2>1. /\ lead'[l].results = Append(done, ResultOf(l)) /\ done \in Seq(Result)
          /\ Len(done) = lead[l].i - 1
      BY <1>4, <1>12 DEF Writes, Collected, Counted, LeadState
    <2>2. /\ Len(lead'[l].results) = lead[l].i
          /\ lead'[l].results[lead[l].i] = ResultOf(l)
          /\ \A t \in DOMAIN lead'[l].results : t # lead[l].i =>
               t \in DOMAIN done /\ lead'[l].results[t] = done[t]
      BY <1>4, <2>1
    <2>3. Counted(l)' BY <1>4, <1>12, <2>2 DEF Writes, Counted
    <2>4. Faithful(l)'
      <3> SUFFICES ASSUME NEW t \in DOMAIN lead'[l].results
                   PROVE /\ \A c \in lead'[l].results[t].patch : LateOrOwned(l, t, c)
                         /\ \A c \in lead'[l].results[t].missed : c.at # "before"
        BY <1>3 DEF Faithful
      <3>1. CASE t = lead[l].i
        BY <1>12, <2>2, <3>1 DEF Writes, Collected, Drafted, ResultOf
      <3>2. CASE t # lead[l].i
        BY <2>2, <3>2 DEF Collected, Faithful
      <3> QED BY <3>1, <3>2
    <2> QED BY <1>12, <2>3, <2>4 DEF Writes, Collected, Looked, Checked, Drafted
  <1> QED BY <1>5, <1>6, <1>7, <1>8, <1>9, <1>10, <1>11, <1>12, Arrival

LEMMA WorkerKeeps ==
  ASSUME Types, NEW l \in Lead, NEW t \in 1 .. Size[l], NEW f \in File, Write(l, t, f),
         NEW m \in Lead, Collected(m)
  PROVE Collected(m)'
  <1> DEFINE p == PathOf(m)
             q == <<rootOf[l], t>>
             new == [file |-> f, at |-> Now(q)]
  <1>1. p \in Path /\ disk[p] \in Worktree BY InPath DEF Types
  <1>2. rootOf' = rootOf /\ lead' = lead BY DEF Write
  <1>3. PathOf(m)' = p BY <1>2 DEF PathOf
  <1>4. \A c : Late(m, c)' = Late(m, c) BY <1>2 DEF Late, Alone
  <1>5. \A k, c : LateOrOwned(m, k, c)' = LateOrOwned(m, k, c)
    BY <1>4 DEF LateOrOwned
  <1>6. Counted(m)' /\ Drafted(m)' /\ Faithful(m)'
    BY <1>2, <1>5 DEF Collected, Counted, Drafted, Faithful
  <1>7. /\ disk'[p].known = disk[p].known
        /\ \A c \in disk'[p].changes : c \in disk[p].changes \/ (c = new /\ p = q)
    BY <1>1 DEF Write, Types, Worktree
  <1>8. p = q => /\ lead[m].pc \in {"names", "diff"} => new.at # "before"
                 /\ lead[m].pc = "diff" => new.at = "named"
    BY DEF Now, At
  <1>9. Looked(m)'
    BY <1>2, <1>3, <1>7, <1>8 DEF Collected, Looked
  <1>10. Checked(m)'
    <2> SUFFICES ASSUME lead[m].pc = "diff", NEW c \in disk'[p].changes,
                        c.file \in Tracked \cup disk[p].known
                 PROVE LateOrOwned(m, lead[m].i, c)
      BY <1>2, <1>3, <1>5, <1>7 DEF Checked, Visible
    <2>1. CASE c \in disk[p].changes BY <2>1 DEF Collected, Checked, Visible
    <2>2. CASE c = new /\ p = q BY <1>8, <2>2 DEF LateOrOwned, Late
    <2> QED BY <1>7, <2>1, <2>2
  <1> QED BY <1>6, <1>9, <1>10 DEF Collected

LEMMA CollectionHolds == WaveSpec => [](\A l \in Lead : Collected(l))
  <1> DEFINE I == \A l \in Lead : Collected(l)
  <1>1. ASSUME WaveInit, NEW l \in Lead PROVE Collected(l)
    <2>1. lead[l].pc = "idle" /\ lead[l].results = <<>>
      BY <1>1 DEF WaveInit, Asleep
    <2>2. DOMAIN lead[l].results = {} BY <2>1
    <2> QED BY <2>1, <2>2 DEF Collected, Counted, Looked, Checked, Drafted, Faithful
  <1>2. Types /\ I /\ [WaveNext]_waveVars => I'
    <2>1. ASSUME Types, I, UNCHANGED waveVars PROVE I'
      BY <2>1 DEF waveVars, Collected, Counted, Looked, Checked, Drafted, Faithful,
         LateOrOwned, Late, Alone, Visible, PathOf
    <2>2. ASSUME Types, I, NEW l \in Lead, LeadStep(l), NEW m \in Lead PROVE Collected(m)'
      BY <2>2, Bystander, Mover
    <2> QED BY <2>1, <2>2, Steps, WorkerKeeps
  <1>3. WaveInit => I BY <1>1
  <1> QED BY <1>2, <1>3, TypesHold, PTL DEF WaveSpec

\* Patches are faithful, with any number of Leads that write, collect and clean
\* up under any roots.  (collectWorktreeResults)
THEOREM PatchesFaithful == WaveSpec => []PatchFaithful
  <1>1. (\A l \in Lead : Collected(l)) => PatchFaithful
    BY DEF Collected, Faithful, LateOrOwned, PatchFaithful
  <1> QED BY <1>1, CollectionHolds, PTL

-----------------------------------------------------------------------------
(* What there is on disk, and who takes it away. *)

\* Worktrees are registered and lie under roots that exist, and so do patches.
Standing ==
  \A p \in Path :
    /\ disk[p].there => p[1] \in roots /\ admin[p] # Gone
    /\ patches[p] # NoPatch => p[1] \in roots

LEMMA RegistrationsDiffer ==
  \A l, m : /\ Owner(l) # Unbound /\ Owner(l) # Torn(m) /\ Owner(l) # Gone
            /\ Unbound # Gone /\ Torn(m) # Gone
  BY DEF Owner, Unbound, Torn, Gone, Meta

LEMMA StandingStep ==
  ASSUME Types, Standing, NEW l \in Lead, LeadStep(l), NEW p \in Path
  PROVE /\ disk'[p].there => p[1] \in roots' /\ admin'[p] # Gone
        /\ patches'[p] # NoPatch => p[1] \in roots'
  <1>1. /\ disk[p].there => p[1] \in roots /\ admin[p] # Gone
        /\ patches[p] # NoPatch => p[1] \in roots
    BY DEF Standing
  <1>2. PathOf(l) \in Path /\ PathOf(l)[1] = rootOf[l] /\ disk[PathOf(l)] \in Worktree
    BY InPath DEF PathOf, Types
  <1>3. CASE CreateWorktreeWave(l) BY <1>1, <1>3 DEF CreateWorktreeWave
  <1>4. CASE AddWorktree(l)
    BY <1>1, <1>2, <1>4, RegistrationsDiffer DEF AddWorktree, Types, shop
  <1>5. CASE OpenOwner(l)
    BY <1>1, <1>2, <1>5, RegistrationsDiffer DEF OpenOwner, Types
  <1>6. CASE WriteOwner(l)
    BY <1>1, <1>2, <1>6, RegistrationsDiffer DEF WriteOwner, Types
  <1>7. CASE IntendToAdd(l)
    BY <1>1, <1>2, <1>7 DEF IntendToAdd, Types, Worktree, ThrowCollecting, shop
  <1>8. CASE WritePatch(l)
    BY <1>1, <1>2, <1>8 DEF WritePatch, Types, ThrowCollecting, shop
  <1>9. CASE RemoveWorktree(l)
    BY <1>1, <1>2, <1>9 DEF RemoveWorktree, Types, Missing
  <1>10. CASE Prune(l) BY <1>1, <1>10 DEF Prune, Pruned
  <1>11. CASE RemoveRoot(l)
    BY <1>1, <1>11 DEF RemoveRoot, UnderRoot, Missing
  <1>12. CASE \/ CollectWorktreeResults(l) \/ ReadOwner(l) \/ CheckNames(l) \/ Diff(l)
              \/ HandOver(l) \/ CleanupWorktreeWave(l) \/ FailBinding(l) \/ Stop(l)
    BY <1>1, <1>12 DEF CollectWorktreeResults, ReadOwner, CheckNames, Diff, HandOver,
       CleanupWorktreeWave, FailBinding, Stop, ThrowCollecting, shop
  <1> QED BY <1>3, <1>4, <1>5, <1>6, <1>7, <1>8, <1>9, <1>10, <1>11, <1>12 DEF LeadStep, Step

\* The types, and that worktrees are registered and lie, like patches, under
\* roots that exist: a clean-up takes all of it.  (cleanupWorktreeWave)
THEOREM WavesTyped == WaveSpec => []WaveTypeOK
  <1>1. WaveInit => Standing
    BY DEF WaveInit, Standing, Missing
  <1>2. Types /\ Standing /\ [WaveNext]_waveVars => Standing'
    <2>1. ASSUME Standing, UNCHANGED waveVars PROVE Standing'
      BY <2>1 DEF Standing, waveVars
    <2>2. ASSUME Types, Standing, NEW l \in Lead, LeadStep(l) PROVE Standing'
      BY <2>2, StandingStep DEF Standing
    <2>3. ASSUME Types, Standing, NEW l \in Lead, NEW t \in 1 .. Size[l], NEW f \in File,
                 Write(l, t, f)
          PROVE Standing'
      <3>1. \A p \in Path : disk'[p].there = disk[p].there
        BY <2>3 DEF Write, Types, Worktree
      <3> QED BY <2>3, <3>1 DEF Standing, Write
    <2> QED BY <2>1, <2>2, <2>3, Steps
  <1>3. Types /\ Standing => WaveTypeOK
    BY DEF Types, Standing, WaveTypeOK, Worktree
  <1> QED BY <1>1, <1>2, <1>3, TypesHold, PTL DEF WaveSpec

LEMMA Takes ==
  ASSUME Types, NEW m \in Lead, LeadStep(m), NEW p \in Path, NEW l,
         disk[p].there, admin[p] = Owner(l)
  PROVE \/ disk'[p].there /\ admin'[p] = Owner(l)
        \/ lead[m].pc \in {"remove", "clear"} /\ rootOf[m] = p[1]
  <1>2. PathOf(m) \in Path /\ PathOf(m)[1] = rootOf[m] /\ disk[PathOf(m)] \in Worktree
    BY InPath DEF PathOf, Types
  <1>3. CASE CreateWorktreeWave(m) BY <1>3 DEF CreateWorktreeWave
  <1>4. CASE AddWorktree(m)
    BY <1>2, <1>4 DEF AddWorktree, Types, shop
  <1>5. CASE OpenOwner(m)
    BY <1>2, <1>5, RegistrationsDiffer DEF OpenOwner, Types
  <1>6. CASE WriteOwner(m)
    BY <1>2, <1>6, RegistrationsDiffer DEF WriteOwner, Types
  <1>7. CASE IntendToAdd(m)
    BY <1>2, <1>7 DEF IntendToAdd, Types, Worktree, ThrowCollecting, shop
  <1>8. CASE WritePatch(m)
    BY <1>8 DEF WritePatch, ThrowCollecting, shop
  <1>9. CASE RemoveWorktree(m)
    BY <1>2, <1>9 DEF RemoveWorktree, Types, At
  <1>10. CASE Prune(m) BY <1>10 DEF Prune, Pruned
  <1>11. CASE RemoveRoot(m)
    BY <1>11 DEF RemoveRoot, UnderRoot, At
  <1>12. CASE \/ CollectWorktreeResults(m) \/ ReadOwner(m) \/ CheckNames(m) \/ Diff(m)
              \/ HandOver(m) \/ CleanupWorktreeWave(m) \/ FailBinding(m) \/ Stop(m)
    BY <1>12 DEF CollectWorktreeResults, ReadOwner, CheckNames, Diff, HandOver,
       CleanupWorktreeWave, FailBinding, Stop, ThrowCollecting, shop
  <1> QED BY <1>3, <1>4, <1>5, <1>6, <1>7, <1>8, <1>9, <1>10, <1>11, <1>12 DEF LeadStep, Step

LEMMA LostStep ==
  ASSUME Types, WaveNext, NEW l \in Lead, Up(l), lead'[l].pc = lead[l].pc, ~Up(l)'
  PROVE \E m \in Lead \ {l} : rootOf[m] = rootOf[l] /\ lead[m].pc \in {"remove", "clear"}
  <1>1. ASSUME NEW t \in 1 .. Size[l] PROVE <<rootOf[l], t>> \in Path
    <2>1. t \in Index BY Places
    <2>2. rootOf[l] \in Root BY DEF Types
    <2> QED BY <2>1, <2>2 DEF Path
  <1>2. CASE \E m \in Lead : \E t \in 1 .. Size[m], f \in File : Write(m, t, f)
    <2>1. lead' = lead /\ rootOf' = rootOf /\ admin' = admin BY <1>2 DEF Write
    <2>2. \A p \in Path : disk'[p].there = disk[p].there
      BY <1>2 DEF Write, Types, Worktree
    <2> QED BY <1>1, <2>1, <2>2 DEF Up
  <1>3. ASSUME NEW m \in Lead, LeadStep(m)
        PROVE \E k \in Lead \ {l} : rootOf[k] = rootOf[l] /\ lead[k].pc \in {"remove", "clear"}
    <2>1. rootOf' = rootOf BY <1>1, <1>3, InPath, Worktrees
    <2>2. PICK t \in 1 .. Size[l] : ~(/\ disk'[<<rootOf[l], t>>].there
                                      /\ admin'[<<rootOf[l], t>>] = Owner(l))
      BY <2>1 DEF Up
    <2>3. disk[<<rootOf[l], t>>].there /\ admin[<<rootOf[l], t>>] = Owner(l)
      BY DEF Up
    <2>4. lead[m].pc \in {"remove", "clear"} /\ rootOf[m] = rootOf[l]
      BY <1>1, <1>3, <2>2, <2>3, Takes
    <2>5. m # l BY <2>4 DEF Up
    <2> QED BY <2>4, <2>5
  <1> QED BY <1>2, <1>3, Steps

\* A wave that stands is taken down by its own Lead alone, or by one that works
\* under the same root and fails or cleans up.  (createWorktreeWave,
\* cleanupWorktreeWave)
THEOREM WavesAreKept == WaveSpec => LostToPeer
  <1> DEFINE Kept ==
        \A l \in Lead :
          Up(l) /\ lead'[l].pc = lead[l].pc /\ ~Up(l)' =>
            \E m \in Lead \ {l} : rootOf[m] = rootOf[l] /\ lead[m].pc \in {"remove", "clear"}
  <1>1. Types /\ [WaveNext]_waveVars => [Kept]_waveVars
    BY LostStep
  <1>2. []Types /\ [][WaveNext]_waveVars => [][Kept]_waveVars
    BY <1>1, PTL
  <1>3. [][Kept]_waveVars => LostToPeer BY DEF LostToPeer
  <1> QED BY <1>2, <1>3, TypesHold, PTL DEF WaveSpec

=============================================================================
