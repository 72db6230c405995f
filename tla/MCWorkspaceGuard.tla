--------------------------- MODULE MCWorkspaceGuard ---------------------------
(* TLC instance of WorkspaceGuard. *)
EXTENDS WorkspaceGuard, TLC

CONSTANTS p1, p2, k1, k2, x, y

\* Each attempt may write one of the two files.
OwnFile == (k1 :> {x}) @@ (k2 :> {y})

\* Values and commits are interchangeable: one beginning stands for all.
Clean == [head |-> "base", files |-> [f \in Path |-> 0]]

=============================================================================
