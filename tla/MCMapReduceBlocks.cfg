\* One process may be silent: what it writes after that is not read.
CONSTANTS
  k1 = k1
  k2 = k2
  Keys = {k1, k2}
  Output <- OutputMC
  Capacity = 3
  Buffer = 3
  Garbage = Garbage
SPECIFICATION FairSpec
INVARIANTS BlocksUntilReduced
