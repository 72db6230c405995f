------------------------------ MODULE PatchQueue ------------------------------
(***************************************************************************)
(* What an integration queue promises, without its journal, workspace,     *)
(* lock and processes: its patches are taken one at a time in their order, *)
(* or all given up together; once the last one is taken nothing changes    *)
(* any more.  IntegrationQueue is checked to implement this module.        *)
(***************************************************************************)
EXTENDS Naturals

CONSTANTS Queue, Size

VARIABLE taken    \* how many of its patches each queue has taken

Init == taken = [q \in Queue |-> 0]

Open(q) == taken[q] < Size[q]

Take(q) ==
  /\ Open(q)
  /\ taken' = [taken EXCEPT ![q] = @ + 1]

GiveUp(q) ==
  /\ Open(q)
  /\ taken' = [taken EXCEPT ![q] = 0]

Next == \E q \in Queue : Take(q) \/ GiveUp(q)

Spec == Init /\ [][Next]_taken

=============================================================================
