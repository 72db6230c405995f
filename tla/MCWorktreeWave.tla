--------------------------- MODULE MCWorktreeWave ---------------------------
EXTENDS WorktreeWave

\* Two Leads with a root each, or with one for both.
MCRoots == {[a |-> "r", b |-> "s"], [a |-> "r", b |-> "r"]}
MCSize == [a |-> 2, b |-> 1]

\* What is a new file of one's own to the first Lead is another's to the second,
\* to which the file of the commit belongs.
MCOwned == [l \in Lead |-> [i \in Index |-> IF l = "a" THEN {"n"} ELSE {"o"}]]

=============================================================================
