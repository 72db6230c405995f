--------------------------- MODULE MCModelBudget ---------------------------
(* TLC instance of ModelBudget. *)
EXTENDS ModelBudget

CONSTANTS p1, p2

\* Two receipts for the same limit, one that continues the first of them, and
\* one with the id of the first and other content.
Receipts == {
  [id |-> "first", from |-> 1, to |-> 2],
  [id |-> "rival", from |-> 1, to |-> 3],
  [id |-> "second", from |-> 2, to |-> 3],
  [id |-> "first", from |-> 2, to |-> 3]}

=============================================================================
