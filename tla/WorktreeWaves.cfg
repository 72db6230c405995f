SPECIFICATION WaveSpec
CONSTANTS
  Lead = {"a", "b"}
  Root = {"r", "s"}
  Roots0 <- MCRoots
  Size <- MCSize
  File = {"n", "o"}
  Tracked = {"o"}
  Owned <- MCOwned
  MaxFaults = 1
  MaxWrites = 2
INVARIANT PatchFaithful
PROPERTIES LostToPeer RetrySucceeds
CHECK_DEADLOCK FALSE
