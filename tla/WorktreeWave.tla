---------------------------- MODULE WorktreeWave ----------------------------
(***************************************************************************)
(* A wave of worktrees (core/worktree/index.mjs): createWorktreeWave adds  *)
(* a worktree for every task and binds it to the task's lease,             *)
(* collectWorktreeResults makes a patch of what its worker left in each,   *)
(* and cleanupWorktreeWave takes the worktrees down again, also when the   *)
(* creation fails half-way.  The handle of a wave lives in the memory of   *)
(* the Lead alone: a Lead that stops leaves its worktrees behind and knows *)
(* nothing of them when it starts again.                                   *)
(*                                                                         *)
(* What a wave goes through are awaited git and file system calls, each    *)
(* one action here.  Git itself is modelled as the code uses it: a path is *)
(* registered or not, with an administrative directory that holds the      *)
(* owner metadata; a directory can vanish while its path stays registered. *)
(* Several Leads work on one repository, under roots of their own or, as   *)
(* the option tempRoot allows, under the same one.  The refusals that come *)
(* before anything is done (a workspace that is not clean, tasks without   *)
(* ids, files or leases) are left out.                                     *)
(***************************************************************************)
EXTENDS Naturals, Sequences

CONSTANTS
  Lead,        \* a process with one wave, bound to one set of leases
  Root,        \* directories of worktrees
  Roots0,      \* who works where, a subset of [Lead -> Root]
  Size,        \* the tasks of a Lead's wave are 1 .. Size[lead]
  File,
  Tracked,     \* the files of the base commit
  Owned,       \* the files a task declares, by Lead and task
  MaxFaults,   \* stops and failed bindings: a bound of the model
  MaxWrites    \* files the workers write: a bound of the model

Index == UNION {1 .. Size[l] : l \in Lead}
Path == Root \X Index

\* When a file was written, as seen from the collection of its worktree.
Moment == {"before", "intended", "named"}
Change == [file : File, at : Moment]

\* What is known of a path: it is not registered, its metadata is not there yet,
\* is opened but not written, or names the owner.
Meta(is, l) == [is |-> is, of |-> l]
Gone == Meta("gone", "nobody")
Unbound == Meta("unbound", "nobody")
Torn(l) == Meta("torn", l)
Owner(l) == Meta("owner", l)

ASSUME WaveAssumption ==
  /\ Roots0 \subseteq [Lead -> Root] /\ Size \in [Lead -> Nat \ {0}]
  /\ Tracked \subseteq File /\ Owned \in [Lead -> [Index -> SUBSET File]]
  /\ MaxFaults \in Nat /\ MaxWrites \in Nat

VARIABLES
  rootOf,    \* where each Lead works
  roots,     \* the roots that exist
  disk,      \* the worktree at a path: is it there, its changes, its index
  admin,     \* the registration of a path
  patches,   \* the patch files under a root, by task
  lead,      \* what each Lead is doing, and what it remembers
  faults,    \* stops and failed bindings so far
  writes     \* writes so far

waveVars == <<rootOf, roots, disk, admin, patches, lead, faults, writes>>
shop == <<roots, disk, admin, patches>>

NoPatch == <<>>
Missing == [there |-> FALSE, changes |-> {}, known |-> {}]
Fresh == [there |-> TRUE, changes |-> {}, known |-> {}]
Asleep == [pc |-> "idle", i |-> 1, failed |-> FALSE, spawned |-> FALSE,
           draft |-> {}, missed |-> {}, results |-> <<>>]

WaveInit ==
  /\ rootOf \in Roots0
  /\ roots = {} /\ disk = [p \in Path |-> Missing] /\ admin = [p \in Path |-> Gone]
  /\ patches = [p \in Path |-> NoPatch]
  /\ lead = [l \in Lead |-> Asleep] /\ faults = 0 /\ writes = 0

PathOf(l) == <<rootOf[l], lead[l].i>>
At(l, where) == lead[l].pc = where
Becomes(l, state) == lead' = [lead EXCEPT ![l] = state]
Goes(l, where) == Becomes(l, [lead[l] EXCEPT !.pc = where])

-----------------------------------------------------------------------------
(* createWorktreeWave *)

\* The catch clause takes down the worktrees bound so far, last one first.
FailCreation(l) ==
  Becomes(l, [lead[l] EXCEPT
             !.failed = TRUE,
             !.pc = IF lead[l].i = 1 THEN "prune" ELSE "remove",
             !.i = IF lead[l].i = 1 THEN 1 ELSE @ - 1])

CreateWorktreeWave(l) ==
  /\ lead[l].pc \in {"idle", "failed"}
  /\ roots' = roots \cup {rootOf[l]}
  /\ Becomes(l, [Asleep EXCEPT !.pc = "add", !.spawned = lead[l].spawned])
  /\ UNCHANGED <<rootOf, disk, admin, patches, faults, writes>>

\* git worktree add fails where something is, or is registered though missing.
AddWorktree(l) ==
  LET p == PathOf(l)
  IN  /\ At(l, "add")
      /\ IF disk[p].there \/ admin[p] # Gone
         THEN FailCreation(l) /\ UNCHANGED shop
         ELSE /\ disk' = [disk EXCEPT ![p] = Fresh]
              /\ admin' = [admin EXCEPT ![p] = Unbound]
              /\ roots' = roots \cup {rootOf[l]}
              /\ Goes(l, "open") /\ UNCHANGED patches
      /\ UNCHANGED <<rootOf, faults, writes>>

Bound(l) ==
  Becomes(l, [lead[l] EXCEPT
             !.pc = IF lead[l].i = Size[l] THEN "running" ELSE "add",
             !.i = IF lead[l].i = Size[l] THEN @ ELSE @ + 1,
             !.spawned = @ \/ lead[l].i = Size[l]])

\* bindWorktreeOwner: the metadata is created exclusively and then written.
\* What exists already has to be the same owner's.
OpenOwner(l) ==
  LET p == PathOf(l)
  IN  /\ At(l, "open")
      /\ \/ ~disk[p].there /\ FailCreation(l) /\ UNCHANGED admin
         \/ /\ disk[p].there /\ admin[p] = Unbound
            /\ admin' = [admin EXCEPT ![p] = Torn(l)] /\ Goes(l, "write")
         \/ /\ disk[p].there /\ admin[p] # Unbound
            /\ IF admin[p] = Owner(l) THEN Bound(l) ELSE FailCreation(l)
            /\ UNCHANGED admin
      /\ UNCHANGED <<rootOf, roots, disk, patches, faults, writes>>

\* The write goes to the file that was opened, registered or not.
WriteOwner(l) ==
  LET p == PathOf(l)
  IN  /\ At(l, "write")
      /\ admin' = IF admin[p] = Torn(l) THEN [admin EXCEPT ![p] = Owner(l)] ELSE admin
      /\ Bound(l)
      /\ UNCHANGED <<rootOf, roots, disk, patches, faults, writes>>

-----------------------------------------------------------------------------
(* The workers, which nothing here stops: one writes as long as its path is  *)
(* there, whatever became of its wave.                                       *)

Now(p) ==
  IF \E l \in Lead : PathOf(l) = p /\ At(l, "diff") THEN "named"
  ELSE IF \E l \in Lead : PathOf(l) = p /\ At(l, "names") THEN "intended"
  ELSE "before"

Write(l, t, f) ==
  LET p == <<rootOf[l], t>>
  IN  /\ lead[l].spawned /\ disk[p].there /\ writes < MaxWrites
      /\ f \notin {c.file : c \in disk[p].changes}
      /\ disk' = [disk EXCEPT ![p].changes = @ \cup {[file |-> f, at |-> Now(p)]}]
      /\ writes' = writes + 1
      /\ UNCHANGED <<rootOf, roots, admin, patches, lead, faults>>

-----------------------------------------------------------------------------
(* collectWorktreeResults: what throws leaves the Lead with its handle.      *)

ThrowCollecting(l) ==
  /\ Becomes(l, [Asleep EXCEPT !.pc = "running", !.i = Size[l], !.spawned = TRUE])
  /\ UNCHANGED shop

CollectWorktreeResults(l) ==
  /\ At(l, "running")
  /\ Becomes(l, [lead[l] EXCEPT !.pc = "owner", !.i = 1])
  /\ UNCHANGED <<rootOf, shop, faults, writes>>

ReadOwner(l) ==
  /\ At(l, "owner")
  /\ IF disk[PathOf(l)].there /\ admin[PathOf(l)] = Owner(l)
     THEN Goes(l, "intent") /\ UNCHANGED shop ELSE ThrowCollecting(l)
  /\ UNCHANGED <<rootOf, faults, writes>>

\* Mutant of Visible: new files are not added to the index first.
TrackedOnly(p) == {c \in disk[p].changes : c.file \in Tracked}

\* git diff HEAD shows the files of the commit and those of the index.
Visible(p) == {c \in disk[p].changes : c.file \in Tracked \cup disk[p].known}

\* git add -N makes the new files of the moment visible.
IntendToAdd(l) ==
  LET p == PathOf(l)
  IN  /\ At(l, "intent")
      /\ IF disk[p].there
         THEN /\ disk' = [disk EXCEPT ![p].known = {c.file : c \in disk[p].changes}]
              /\ Goes(l, "names") /\ UNCHANGED <<roots, admin, patches>>
         ELSE ThrowCollecting(l)
      /\ UNCHANGED <<rootOf, faults, writes>>

CheckNames(l) ==
  LET p == PathOf(l)
  IN  /\ At(l, "names")
      /\ IF disk[p].there /\ {c.file : c \in Visible(p)} \subseteq Owned[l][lead[l].i]
         THEN Goes(l, "diff") /\ UNCHANGED shop ELSE ThrowCollecting(l)
      /\ UNCHANGED <<rootOf, faults, writes>>

Diff(l) ==
  LET p == PathOf(l)
  IN  /\ At(l, "diff")
      /\ IF disk[p].there
         THEN /\ Becomes(l, [lead[l] EXCEPT
                           !.pc = "patch", !.draft = Visible(p),
                           !.missed = disk[p].changes \ Visible(p)])
              /\ UNCHANGED shop
         ELSE ThrowCollecting(l)
      /\ UNCHANGED <<rootOf, faults, writes>>

WritePatch(l) ==
  LET p == PathOf(l)
      last == lead[l].i = Size[l]
      result == [patch |-> lead[l].draft, missed |-> lead[l].missed]
  IN  /\ At(l, "patch")
      /\ IF rootOf[l] \in roots
         THEN /\ patches' = [patches EXCEPT ![p] = <<lead[l].draft>>]
              /\ Becomes(l, [lead[l] EXCEPT
                           !.pc = IF last THEN "collected" ELSE "owner",
                           !.i = IF last THEN @ ELSE @ + 1,
                           !.results = Append(@, result)])
              /\ UNCHANGED <<roots, disk, admin>>
         ELSE ThrowCollecting(l)
      /\ UNCHANGED <<rootOf, faults, writes>>

\* orderedIntegrationResults: the patches, as they were collected, are handed
\* to the queue (IntegrationQueue).
HandOver(l) ==
  /\ At(l, "collected")
  /\ \A t \in 1 .. Size[l] : /\ lead[l].results[t].patch # {}
                             /\ patches[<<rootOf[l], t>>] = <<lead[l].results[t].patch>>
  /\ Goes(l, "handed")
  /\ UNCHANGED <<rootOf, shop, faults, writes>>

-----------------------------------------------------------------------------
(* cleanupWorktreeWave: what fails does not keep the rest from being done.   *)

CleanupWorktreeWave(l) ==
  /\ lead[l].pc \in {"running", "collected", "handed"}
  /\ Becomes(l, [lead[l] EXCEPT !.pc = "remove", !.i = Size[l]])
  /\ UNCHANGED <<rootOf, shop, faults, writes>>

\* git worktree remove --force takes what is registered at the path, and fails
\* when nothing is.
RemoveWorktree(l) ==
  LET p == PathOf(l)
  IN  /\ At(l, "remove")
      /\ disk' = IF admin[p] = Gone THEN disk ELSE [disk EXCEPT ![p] = Missing]
      /\ admin' = [admin EXCEPT ![p] = Gone]
      /\ Becomes(l, [lead[l] EXCEPT
                    !.pc = IF lead[l].i = 1 THEN "prune" ELSE "remove",
                    !.i = IF lead[l].i = 1 THEN 1 ELSE @ - 1])
      /\ UNCHANGED <<rootOf, roots, patches, faults, writes>>

\* Mutant of Pruned: nothing is.
PrunedNot(p) == FALSE

\* git worktree prune forgets every path that has no directory.
Pruned(p) == ~disk[p].there

Prune(l) ==
  /\ At(l, "prune")
  /\ admin' = [p \in Path |-> IF Pruned(p) THEN Gone ELSE admin[p]]
  /\ Goes(l, "clear")
  /\ UNCHANGED <<rootOf, roots, disk, patches, faults, writes>>

\* Mutant of UnderRoot: the directory of all roots is removed.
UnderParent(l, p) == TRUE

UnderRoot(l, p) == p[1] = rootOf[l]

\* fs.rm of the root, with all that is in it: registered paths stay registered.
RemoveRoot(l) ==
  /\ At(l, "clear")
  /\ roots' = roots \ {rootOf[l]}
  /\ disk' = [p \in Path |-> IF UnderRoot(l, p) THEN Missing ELSE disk[p]]
  /\ patches' = [p \in Path |-> IF UnderRoot(l, p) THEN NoPatch ELSE patches[p]]
  /\ Becomes(l, [Asleep EXCEPT !.pc = IF lead[l].failed THEN "failed" ELSE "closed",
                      !.spawned = lead[l].spawned])
  /\ UNCHANGED <<rootOf, admin, faults, writes>>

-----------------------------------------------------------------------------
(* Faults. *)

\* Opening or writing the metadata fails, for want of space, say.
FailBinding(l) ==
  /\ lead[l].pc \in {"open", "write"} /\ faults < MaxFaults
  /\ FailCreation(l) /\ faults' = faults + 1
  /\ UNCHANGED <<rootOf, shop, writes>>

\* The Lead stops, and starts again knowing nothing.
Stop(l) ==
  /\ lead[l].pc \notin {"idle", "closed"} /\ faults < MaxFaults
  /\ Becomes(l, [Asleep EXCEPT !.spawned = lead[l].spawned])
  /\ faults' = faults + 1
  /\ UNCHANGED <<rootOf, shop, writes>>

-----------------------------------------------------------------------------
Step(l) ==
  \/ CreateWorktreeWave(l) \/ AddWorktree(l) \/ OpenOwner(l) \/ WriteOwner(l)
  \/ CollectWorktreeResults(l) \/ ReadOwner(l) \/ IntendToAdd(l) \/ CheckNames(l)
  \/ Diff(l) \/ WritePatch(l) \/ HandOver(l)
  \/ CleanupWorktreeWave(l) \/ RemoveWorktree(l) \/ Prune(l) \/ RemoveRoot(l)

WaveNext ==
  \E l \in Lead :
    \/ Step(l) \/ FailBinding(l) \/ Stop(l)
    \/ \E t \in 1 .. Size[l], f \in File : Write(l, t, f)

\* A Lead goes on with what it has begun, and tries again what failed.
WaveSpec ==
  WaveInit /\ [][WaveNext]_waveVars /\ \A l \in Lead : WF_waveVars(Step(l))

-----------------------------------------------------------------------------
WaveTypeOK ==
  /\ roots \subseteq Root
  /\ \A p \in Path :
       /\ disk[p].changes \subseteq Change
       /\ disk[p].there => p[1] \in roots /\ admin[p] # Gone
       /\ patches[p] # NoPatch => p[1] \in roots
  /\ \A l \in Lead : lead[l].i \in 1 .. Size[l]

Alone(l) == \A m \in Lead \ {l} : rootOf[m] # rootOf[l]

\* Written when the names were checked already; a Lead under the same root that
\* looks for new files of its own can show more of them.
Late(l, c) == c.at = "named" \/ (c.at = "intended" /\ ~Alone(l))

\* A patch goes beyond the files of its task only by files that were written
\* after their names were checked, or, when another Lead works under the same
\* root, after the new ones were looked for; and it lacks what the worker left
\* only if it was written after the new files were looked for.
\* (collectWorktreeResults)
PatchFaithful ==
  \A l \in Lead : \A t \in DOMAIN lead[l].results :
    LET result == lead[l].results[t]
    IN  /\ \A c \in result.patch : c.file \notin Owned[l][t] => Late(l, c)
        /\ \A c \in result.missed : c.at # "before"

\* The worktrees of a wave that was created stay there, bound to its leases,
\* until its own Lead cleans up, unless a Lead that works under the same root
\* does: a creation that fails takes the whole root with it.
\* (createWorktreeWave, cleanupWorktreeWave)
Up(l) ==
  /\ lead[l].pc \in {"running", "owner", "intent", "names", "diff", "patch", "collected"}
  /\ \A t \in 1 .. Size[l] : /\ disk[<<rootOf[l], t>>].there
                             /\ admin[<<rootOf[l], t>>] = Owner(l)
LostToPeer ==
  [][\A l \in Lead :
       Up(l) /\ lead'[l].pc = lead[l].pc /\ ~Up(l)' =>
         \E m \in Lead \ {l} : rootOf[m] = rootOf[l] /\ lead[m].pc \in {"remove", "clear"}]_waveVars

\* Whatever a stop or a failed binding left behind, a Lead that has its root for
\* itself and tries again gets its wave.  (createWorktreeWave,
\* cleanupWorktreeWave)
RetrySucceeds ==
  \A l \in Lead :
    (lead[l].pc = "failed" /\ \A m \in Lead \ {l} : rootOf[m] # rootOf[l])
      ~> lead[l].pc = "running"

=============================================================================
