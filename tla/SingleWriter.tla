----------------------------- MODULE SingleWriter -----------------------------
(***************************************************************************)
(* What the current-workspace guard promises, without its files, locks and *)
(* processes: at most one attempt owns the repository; an attempt owns it  *)
(* once; and it gives it up only with a result.  WorkspaceGuard is checked *)
(* to implement this module.                                               *)
(***************************************************************************)
CONSTANTS Key, NoKey

VARIABLES owner, closed

vars == <<owner, closed>>

Init == owner = NoKey /\ closed = {}

Open(k) ==
  /\ owner = NoKey
  /\ k \notin closed
  /\ owner' = k
  /\ UNCHANGED closed

Deliver ==
  /\ owner # NoKey
  /\ closed' = closed \cup {owner}
  /\ UNCHANGED owner

Leave ==
  /\ owner \in closed
  /\ owner' = NoKey
  /\ UNCHANGED closed

Next == Deliver \/ Leave \/ \E k \in Key : Open(k)

Spec == Init /\ [][Next]_vars

=============================================================================
