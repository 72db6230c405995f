----------------------------- MODULE AdvisoryLock -----------------------------
(***************************************************************************)
(* The lock file that serialises the writers of a durable store.  The      *)
(* framework has five copies of the protocol, of three kinds:              *)
(*                                                                         *)
(*   "blind"  .leases.lock       core/leases                               *)
(*            .model-budget.lock core/routing/budget.mjs                   *)
(*   "store"  .transitions.lock  core/transitions                          *)
(*            .guard.lock        core/workspace-guard                      *)
(*   "queue"  <journal>.lock     core/worktree                             *)
(*                                                                         *)
(* The first two reclaim a lock only past a stale age; the last two look at*)
(* the owner again before they release.                                    *)
(*                                                                         *)
(* A process creates the file with open(wx), then writes its pid into it,  *)
(* works, and unlinks the path.  A process that finds the file there looks *)
(* at it, in one or two further file system calls, and may unlink it.      *)
(* Every call is a step: between two calls of one process any call of      *)
(* another may happen.                                                     *)
(*                                                                         *)
(* A pid is used once: a restarted process is another member of Proc.      *)
(* LiveAge = FALSE is the assumption that every store operation is shorter *)
(* than the stale-age bound of its lock.                                   *)
(***************************************************************************)

CONSTANTS
  Proc,          \* process ids
  NoProc,        \* no lock file
  Mortal,        \* the processes that may stop at any instant
  LiveAge        \* TRUE: a live process may keep its file past the age bound

ASSUME LockAssumption ==
  /\ NoProc \notin Proc
  /\ Mortal \subseteq Proc
  /\ LiveAge \in BOOLEAN

VARIABLES
  kind,      \* which of the protocols this lock follows; never changes
  creator,   \* the process whose open(wx) made the file now at the path, or NoProc
  named,     \* that file holds its creator's pid
  aged,      \* that file is older than the stale bound
  pc         \* where each process stands

vars == <<kind, creator, named, aged, pc>>
file == <<creator, named, aged>>

Stage == {"idle", "open", "write", "held", "unlink",
          "stat", "owner", "remove", "retry", "stopped"}

TypeOK ==
  /\ kind \in {"blind", "store", "queue"}
  /\ creator \in Proc \cup {NoProc}
  /\ named \in BOOLEAN
  /\ aged \in BOOLEAN
  /\ pc \in [Proc -> Stage]

Init ==
  /\ kind \in {"blind", "store", "queue"}
  /\ creator = NoProc
  /\ named = FALSE
  /\ aged = FALSE
  /\ pc = [p \in Proc |-> "idle"]

\* Reclaim only past the stale age.
AgeBound == kind # "queue"

\* Release re-reads the owner before it unlinks.
OwnerRelease == kind # "blind"

Goto(p, from, to) ==
  /\ pc[p] = from
  /\ pc' = [pc EXCEPT ![p] = to]
  /\ UNCHANGED kind

Present == creator # NoProc

Alive(p) == pc[p] # "stopped"

\* The path no longer names a file.
Unlinked ==
  /\ creator' = NoProc
  /\ named' = FALSE
  /\ aged' = FALSE

-----------------------------------------------------------------------------
(* Acquisition. *)

\* A caller enters the store operation.
Enter(p) ==
  /\ Goto(p, "idle", "open")
  /\ UNCHANGED file

\* fs.open(lockPath, 'wx') succeeds only when the path names no file.
Create(p) ==
  /\ ~Present
  /\ Goto(p, "open", "write")
  /\ creator' = p
  /\ named' = FALSE
  /\ aged' = FALSE

\* EEXIST: look at the file that is there.
Contend(p) ==
  /\ Present
  /\ Goto(p, "open", IF AgeBound THEN "stat" ELSE "owner")
  /\ UNCHANGED file

\* handle.writeFile({pid}) reaches the file p opened, wherever the path points.
WriteOwner(p) ==
  /\ Goto(p, "write", "held")
  /\ named' = IF creator = p THEN TRUE ELSE named
  /\ UNCHANGED <<creator, aged>>

-----------------------------------------------------------------------------
(* Reclaiming a lock somebody left behind. *)

\* Mutant of StatStore: the age comparison the wrong way round.
StatStoreReversed(p) ==
  /\ AgeBound
  /\ Goto(p, "stat", IF Present /\ ~aged THEN "owner" ELSE "retry")
  /\ UNCHANGED file

\* #removeStaleLockIfSafe: a file within the age bound is left alone.  A file
\* that is gone (ENOENT) ends the attempt as well.
StatStore(p) ==
  /\ AgeBound
  /\ Goto(p, "stat", IF Present /\ aged THEN "owner" ELSE "retry")
  /\ UNCHANGED file

\* Read the pid and probe it.  A missing or malformed file gives no pid, which
\* the inner catch turns into permission to unlink.
ReadOwnerStore(p) ==
  /\ AgeBound
  /\ Goto(p, "owner",
          IF Present /\ named /\ Alive(creator) THEN "retry" ELSE "remove")
  /\ UNCHANGED file

\* Mutant of ReadOwnerQueue: the owner's pid is not probed.
ReadOwnerUnprobed(p) ==
  /\ ~AgeBound
  /\ Goto(p, "owner", IF Present /\ named THEN "remove" ELSE "stat")
  /\ UNCHANGED file

\* integrationLockOwnerPid: a dead owner is reclaimed whatever the age, a file
\* without owner goes on to the age check, a live owner is waited for.
ReadOwnerQueue(p) ==
  /\ ~AgeBound
  /\ Goto(p, "owner",
          CASE ~Present \/ ~named -> "stat"
            [] Present /\ named /\ Alive(creator) -> "retry"
            [] OTHER -> "remove")
  /\ UNCHANGED file

\* unknownIntegrationLockIsStale
StatQueue(p) ==
  /\ ~AgeBound
  /\ Goto(p, "stat", IF Present /\ aged THEN "remove" ELSE "retry")
  /\ UNCHANGED file

\* fs.rm(lockPath, {force}) unlinks whatever the path names by now.  The queue
\* lock goes straight back to open; a store lock first looks at its deadline.
Remove(p) ==
  /\ Goto(p, "remove", IF AgeBound THEN "retry" ELSE "open")
  /\ Unlinked

\* The wait ends in another attempt, or in a LOCK_TIMEOUT error to the caller.
Retry(p) ==
  /\ \E next \in {"open", "idle"} : Goto(p, "retry", next)
  /\ UNCHANGED file

-----------------------------------------------------------------------------
(* Release. *)

\* The lease store unlinks without looking.
ReleaseBlind(p) ==
  /\ ~OwnerRelease
  /\ Goto(p, "held", "idle")
  /\ Unlinked

\* The other stores read the owner first.  Somebody else's file is reported as
\* LOCK_FENCED to a caller whose work is already durable, and left in place.
ReleaseCheck(p) ==
  /\ OwnerRelease
  /\ Goto(p, "held", IF creator = p /\ named THEN "unlink" ELSE "idle")
  /\ UNCHANGED file

ReleaseUnlink(p) ==
  /\ Goto(p, "unlink", "idle")
  /\ Unlinked

-----------------------------------------------------------------------------
(* The environment. *)

\* The process stops; its file stays at the path.
Stop(p) ==
  /\ p \in Mortal
  /\ Alive(p)
  /\ pc' = [pc EXCEPT ![p] = "stopped"]
  /\ UNCHANGED <<kind, file>>

\* The file at the path passes the stale-age bound: 10 s and 30 s for a store,
\* 5 s for a queue lock without owner.
Age ==
  /\ Present
  /\ ~aged
  /\ LiveAge \/ ~Alive(creator)
  /\ aged' = TRUE
  /\ UNCHANGED <<kind, creator, named, pc>>

-----------------------------------------------------------------------------
Step(p) ==
  \/ Create(p)
  \/ Contend(p)
  \/ WriteOwner(p)
  \/ StatStore(p)
  \/ ReadOwnerStore(p)
  \/ ReadOwnerQueue(p)
  \/ StatQueue(p)
  \/ Remove(p)
  \/ Retry(p)
  \/ ReleaseBlind(p)
  \/ ReleaseCheck(p)
  \/ ReleaseUnlink(p)

Next ==
  \/ \E p \in Proc : Enter(p) \/ Step(p) \/ Stop(p)
  \/ Age

Spec == Init /\ [][Next]_vars

\* A live process goes on with what it started, a lead keeps asking for its
\* store, and time passes.
FairSpec ==
  /\ Spec
  /\ \A p \in Proc : WF_vars(Step(p)) /\ WF_vars(Enter(p))
  /\ WF_vars(Age)

-----------------------------------------------------------------------------
(* Properties. *)

Inside == {p \in Proc : pc[p] \in {"held", "unlink"}}

\* Two live processes never run a store operation at the same time: every
\* read-modify-write of LEASES.json, TRANSITIONS.jsonl, current.json and of an
\* integration journal relies on it.
MutualExclusion == \A p, q \in Inside : p = q

\* Until the first process stops.
AllAlive == \A p \in Proc : Alive(p)

\* As long as nobody stops half way the protocol is a mutex, however many
\* contend and however long they wait.
Abstract == INSTANCE Mutex WITH inside <- IF AllAlive THEN Inside ELSE {}
ImplementsMutex == Abstract!Spec

\* A lock whose owner stopped does not block the store for good: as long as
\* somebody keeps asking, the file is removed.
OrphanReclaimed ==
  \A p \in Mortal : (creator = p /\ ~Alive(p)) ~> (creator # p)

=============================================================================
