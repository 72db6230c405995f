--------------------------- MODULE MCAdvisoryLock ---------------------------
(* TLC instances of AdvisoryLock. *)
EXTENDS AdvisoryLock

CONSTANTS p1, p2, p3

ThreeProcs == {p1, p2, p3}
OneMortal == {p1}
=============================================================================
