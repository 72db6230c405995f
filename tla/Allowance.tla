------------------------------ MODULE Allowance ------------------------------
(***************************************************************************)
(* What the model budget of a run promises, without files, locks and       *)
(* processes: an attempt is charged once, for one route, never beyond the  *)
(* limit; the limit is one of the initial ones and is raised only by       *)
(* receipts issued for the limit they raise, each used once.               *)
(***************************************************************************)
EXTENDS Naturals, FiniteSets

CONSTANTS Attempt, Route, Receipt, Initial

VARIABLES
  limit,    \* 0 before the first use
  charged,  \* what has been charged: an attempt and its route
  used      \* receipts

vars == <<limit, charged, used>>

Init == limit = 0 /\ charged = {} /\ used = {}

Limits == IF limit = 0 THEN Initial ELSE {limit}

Charge(a, r) ==
  /\ \A c \in charged : c.attempt # a
  /\ limit' \in Limits
  /\ Cardinality(charged) < limit'
  /\ charged' = charged \cup {[attempt |-> a, route |-> r]}
  /\ UNCHANGED used

Raise(t) ==
  /\ \A u \in used : u.id # t.id
  /\ t.from \in Limits
  /\ t.to > t.from
  /\ limit' = t.to
  /\ used' = used \cup {t}
  /\ UNCHANGED charged

Next ==
  \/ \E a \in Attempt, r \in Route : Charge(a, r)
  \/ \E t \in Receipt : Raise(t)

Spec == Init /\ [][Next]_vars

=============================================================================
