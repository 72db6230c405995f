------------------------- MODULE AdvisoryLock_proofs -------------------------
(***************************************************************************)
(* Proofs about the lock file, for any set of processes and for each of    *)
(* its three kinds.                                                        *)
(*                                                                         *)
(* Type correctness holds without any assumption.  Exclusion is proved     *)
(* until the first process stops, when every operation is shorter than the *)
(* stale bound (LiveAge = FALSE); once a process has stopped, TLC shows it *)
(* to fail.                                                                *)
(***************************************************************************)
EXTENDS AdvisoryLock, TLAPS

\* The variables keep their types, whoever stops and however long a file
\* stays at the path.
THEOREM TypeCorrect == Spec => []TypeOK
<1>1. Init => TypeOK
  BY DEF Init, TypeOK, Stage
<1>2. TypeOK /\ [Next]_vars => TypeOK'
  <2> SUFFICES ASSUME TypeOK, [Next]_vars PROVE TypeOK'
    OBVIOUS
  <2> USE DEF TypeOK, Stage, file
  <2>1. ASSUME NEW p \in Proc, Enter(p) \/ Contend(p) PROVE TypeOK'
    BY <2>1 DEF Enter, Contend, Goto
  <2>2. ASSUME NEW p \in Proc, Create(p) PROVE TypeOK'
    BY <2>2 DEF Create, Goto
  <2>3. ASSUME NEW p \in Proc, WriteOwner(p) PROVE TypeOK'
    BY <2>3 DEF WriteOwner, Goto
  <2>4. ASSUME NEW p \in Proc, StatStore(p) \/ StatQueue(p) PROVE TypeOK'
    BY <2>4 DEF StatStore, StatQueue, Goto
  <2>5. ASSUME NEW p \in Proc, ReadOwnerStore(p) PROVE TypeOK'
    BY <2>5 DEF ReadOwnerStore, Goto
  <2>6. ASSUME NEW p \in Proc, ReadOwnerQueue(p) PROVE TypeOK'
    BY <2>6 DEF ReadOwnerQueue, Goto
  <2>7. ASSUME NEW p \in Proc, Remove(p) PROVE TypeOK'
    BY <2>7 DEF Remove, Goto, Unlinked
  <2>8. ASSUME NEW p \in Proc, Retry(p) PROVE TypeOK'
    BY <2>8 DEF Retry, Goto
  <2>9. ASSUME NEW p \in Proc, ReleaseBlind(p) \/ ReleaseUnlink(p) PROVE TypeOK'
    BY <2>9 DEF ReleaseBlind, ReleaseUnlink, Goto, Unlinked
  <2>10. ASSUME NEW p \in Proc, ReleaseCheck(p) PROVE TypeOK'
    BY <2>10 DEF ReleaseCheck, Goto
  <2>11. ASSUME NEW p \in Proc, Stop(p) PROVE TypeOK'
    BY <2>11 DEF Stop
  <2>12. CASE Age
    BY <2>12 DEF Age
  <2>13. CASE UNCHANGED vars
    BY <2>13 DEF vars
  <2> QED
    BY <2>1, <2>2, <2>3, <2>4, <2>5, <2>6, <2>7, <2>8, <2>9, <2>10, <2>11,
       <2>12, <2>13 DEF Next, Step
<1> QED
  BY <1>1, <1>2, PTL DEF Spec

-----------------------------------------------------------------------------
(* Exclusion. *)

\* While nobody has stopped: whoever is between open(wx) and the end of its
\* release made the file at the path, and the file is never judged stale.
Ownership ==
  /\ ~aged
  /\ \A p \in Proc :
       /\ pc[p] # "remove"
       /\ AgeBound => pc[p] # "owner"
       /\ pc[p] \in {"write", "held", "unlink"} => creator = p
       /\ pc[p] \in {"held", "unlink"} => named

Owned == AllAlive => Ownership

LEMMA OwnershipInitially == Init => Owned
  BY DEF Init, Owned, Ownership

\* A process that has stopped stays stopped.
LEMMA StoppedForGood ==
  ASSUME TypeOK, [Next]_vars, AllAlive'
  PROVE  AllAlive /\ ~ \E p \in Proc : Stop(p)
<1> USE DEF TypeOK, AllAlive, Alive
<1>1. ASSUME NEW p \in Proc, NEW from, NEW to, Goto(p, from, to), from # "stopped"
      PROVE  AllAlive
  BY <1>1 DEF Goto
<1>2. ASSUME NEW p \in Proc, Enter(p) \/ Step(p) PROVE AllAlive
  BY <1>1, <1>2 DEF Enter, Step, Create, Contend, WriteOwner, StatStore, ReadOwnerStore,
                    ReadOwnerQueue, StatQueue, Remove, Retry, ReleaseBlind, ReleaseCheck,
                    ReleaseUnlink
<1>3. ASSUME NEW p \in Proc PROVE ~Stop(p)
  BY DEF Stop
<1> QED
  BY <1>2, <1>3 DEF Next, Age, vars

LEMMA OwnershipKept ==
  ASSUME LiveAge = FALSE, TypeOK, Owned, [Next]_vars
  PROVE  Owned'
<1> SUFFICES ASSUME AllAlive' PROVE Ownership'
  BY DEF Owned
<1>0. AllAlive /\ Ownership /\ \A p \in Proc : pc[p] # "stopped" /\ ~Stop(p)
  BY StoppedForGood DEF Owned, AllAlive, Alive
<1> USE LockAssumption, <1>0 DEF TypeOK, Stage, Ownership, file, Present, Alive,
                                 AgeBound, OwnerRelease
<1>1. ASSUME NEW p \in Proc, Enter(p) \/ Contend(p) PROVE Ownership'
  BY <1>1 DEF Enter, Contend, Goto
<1>2. ASSUME NEW p \in Proc, Create(p) PROVE Ownership'
  BY <1>2 DEF Create, Goto
<1>3. ASSUME NEW p \in Proc, WriteOwner(p) PROVE Ownership'
  BY <1>3 DEF WriteOwner, Goto
<1>4. ASSUME NEW p \in Proc, StatStore(p) \/ StatQueue(p) PROVE Ownership'
  BY <1>4 DEF StatStore, StatQueue, Goto
<1>5. ASSUME NEW p \in Proc, ReadOwnerStore(p) PROVE Ownership'
  BY <1>5 DEF ReadOwnerStore, Goto
<1>6. ASSUME NEW p \in Proc, ReadOwnerQueue(p) PROVE Ownership'
  BY <1>6 DEF ReadOwnerQueue, Goto
<1>7. ASSUME NEW p \in Proc, Remove(p) PROVE Ownership'
  BY <1>7 DEF Remove, Goto
<1>8. ASSUME NEW p \in Proc, Retry(p) PROVE Ownership'
  BY <1>8 DEF Retry, Goto
<1>9. ASSUME NEW p \in Proc, ReleaseBlind(p) \/ ReleaseUnlink(p) PROVE Ownership'
  BY <1>9 DEF ReleaseBlind, ReleaseUnlink, Goto, Unlinked
<1>10. ASSUME NEW p \in Proc, ReleaseCheck(p) PROVE Ownership'
  BY <1>10 DEF ReleaseCheck, Goto
<1>11. ASSUME NEW p \in Proc, Stop(p) PROVE Ownership'
  BY <1>11
<1>12. CASE Age
  BY <1>12 DEF Age
<1>13. CASE UNCHANGED vars
  BY <1>13 DEF vars
<1> QED
  BY <1>1, <1>2, <1>3, <1>4, <1>5, <1>6, <1>7, <1>8, <1>9, <1>10, <1>11,
     <1>12, <1>13 DEF Next, Step

\* Until a process stops, and while none outlives the stale bound, at most one
\* is inside a store operation, whatever the number of contenders.
THEOREM Exclusion ==
  ASSUME LiveAge = FALSE
  PROVE  Spec => [](AllAlive => MutualExclusion)
<1>1. Init => TypeOK /\ Owned
  BY OwnershipInitially DEF Init, TypeOK, Stage
<1>2. TypeOK /\ Owned => (AllAlive => MutualExclusion)
  BY DEF Owned, Ownership, MutualExclusion, Inside
<1>3. TypeOK /\ Owned /\ [Next]_vars => Owned'
  BY OwnershipKept
<1>4. Spec => []TypeOK
  BY TypeCorrect
<1> QED
  BY <1>1, <1>2, <1>3, <1>4, PTL DEF Spec

\* Under the same assumption each kind of lock implements the mutex every store
\* is written against.
THEOREM MutexImplemented ==
  ASSUME LiveAge = FALSE
  PROVE  Spec => ImplementsMutex
<1> DEFINE in == IF AllAlive THEN Inside ELSE {}
<1>1. Init => TypeOK /\ Owned /\ Abstract!Init
  BY OwnershipInitially DEF Init, TypeOK, Stage, Abstract!Init, Inside
<1>2. TypeOK /\ Owned /\ [Next]_vars => [Abstract!Next]_in
  <2> SUFFICES ASSUME TypeOK, Owned, [Next]_vars
               PROVE  Abstract!Next \/ in' = in
    OBVIOUS
  <2>1. CASE ~AllAlive
    BY <2>1, StoppedForGood
  <2>2. CASE AllAlive /\ ~AllAlive'
    <3>1. in' = {} /\ in = Inside
      BY <2>2
    <3>2. CASE Inside = {}
      BY <3>1, <3>2
    <3>3. ASSUME NEW p \in Inside PROVE Abstract!Next
      <4>1. Inside = {p} /\ p \in Proc
        BY <2>2 DEF Owned, Ownership, Inside
      <4>2. Abstract!Release(p)
        BY <3>1, <4>1, <2>2 DEF Abstract!Release
      <4> QED
        BY <4>1, <4>2 DEF Abstract!Next
    <3> QED
      BY <3>2, <3>3
  <2>3. CASE AllAlive /\ AllAlive'
    <3>1. in = Inside /\ in' = Inside' /\ Ownership /\ \A p \in Proc : ~Stop(p)
      BY <2>3, StoppedForGood DEF Owned
    <3> USE DEF TypeOK, Stage, Inside, Goto
    <3>2. ASSUME NEW p \in Proc, WriteOwner(p) PROVE Abstract!Acquire(p)
      <4>1. Inside = {} /\ Inside' = {p}
        BY <3>1, <3>2 DEF WriteOwner, Ownership
      <4> QED
        BY <2>3, <4>1 DEF Abstract!Acquire
    <3>3. ASSUME NEW p \in Proc, ReleaseBlind(p) \/ ReleaseUnlink(p)
          PROVE Abstract!Release(p)
      <4>1. p \in Inside /\ Inside' = Inside \ {p}
        BY <3>3 DEF ReleaseBlind, ReleaseUnlink
      <4> QED
        BY <2>3, <4>1 DEF Abstract!Release
    <3>4. ASSUME NEW p \in Proc, ReleaseCheck(p) PROVE Inside' = Inside
      BY <3>1, <3>4 DEF ReleaseCheck, Ownership
    <3>5. ASSUME NEW p \in Proc,
                 Enter(p) \/ Create(p) \/ Contend(p) \/ StatStore(p)
                   \/ ReadOwnerStore(p) \/ StatQueue(p) \/ Remove(p) \/ Retry(p)
          PROVE Inside' = Inside
      BY <3>5 DEF Enter, Create, Contend, StatStore, ReadOwnerStore, StatQueue,
                  Remove, Retry
    <3>6. ASSUME NEW p \in Proc, ReadOwnerQueue(p) PROVE Inside' = Inside
      BY <3>6 DEF ReadOwnerQueue
    <3>7. ASSUME Age \/ UNCHANGED vars PROVE Inside' = Inside
      BY <3>7 DEF Age, vars
    <3> HIDE DEF TypeOK, Stage, Inside, Goto
    <3>8. ASSUME NEW p \in Proc, Enter(p) \/ Step(p) PROVE Abstract!Next \/ Inside' = Inside
      BY <3>2, <3>3, <3>4, <3>5, <3>6, <3>8 DEF Step, Abstract!Next
    <3>9. Abstract!Next \/ Inside' = Inside
      BY <3>1, <3>7, <3>8 DEF Next
    <3> QED
      BY <2>3, <3>9
  <2> QED
    BY <2>1, <2>2, <2>3
<1>3. TypeOK /\ Owned /\ [Next]_vars => Owned'
  BY OwnershipKept
<1>4. Spec => []TypeOK
  BY TypeCorrect
<1> QED
  BY <1>1, <1>2, <1>3, <1>4, PTL DEF Spec, ImplementsMutex, Abstract!Spec

=============================================================================
