\* Two pieces are a line: reads end in the middle of lines, and pipes are full.
CONSTANTS
  k1 = k1
  k2 = k2
  Keys = {k1, k2}
  Output <- OutputMC
  Capacity = 3
  Buffer = 3
  Garbage = Garbage
SPECIFICATION FairSpec
INVARIANTS IInv AllReduced
PROPERTIES GotIsCurrent ResultSpec ReduceAllReturns
