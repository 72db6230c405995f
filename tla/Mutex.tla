-------------------------------- MODULE Mutex --------------------------------
(***************************************************************************)
(* What every durable store of the framework assumes of its lock: between  *)
(* an Acquire and the Release that follows it no other process is inside.  *)
(* AdvisoryLock is checked to implement this module until the first       *)
(* process stops.                                                          *)
(***************************************************************************)
CONSTANT Proc

VARIABLE inside   \* the processes in the critical section

Init == inside = {}

Acquire(p) ==
  /\ inside = {}
  /\ inside' = {p}

Release(p) ==
  /\ p \in inside
  /\ inside' = inside \ {p}

Next == \E p \in Proc : Acquire(p) \/ Release(p)

Spec == Init /\ [][Next]_inside

=============================================================================
