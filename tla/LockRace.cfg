SPECIFICATION Spec
CONSTANTS
  p1 = p1
  p2 = p2
  p3 = p3
  Proc <- ThreeProcs
  Mortal <- OneMortal
  NoProc = NoProc
  LiveAge = FALSE
INVARIANT MutualExclusion
