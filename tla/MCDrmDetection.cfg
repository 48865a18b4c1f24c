\* The two threads and two mutexes of example-DD.c, locked in any order, and a
\* third thread that waits for a mutex of their cycle: the detector's walk can be
\* lost.  A handler that interrupts its own thread in a section blocks for ever.
CONSTANTS
  t1 = t1
  t2 = t2
  t3 = t3
  Threads <- ThreeThreads
  m1 = m1
  m2 = m2
  Resources <- Mutexes
  Release <- ReleaseMC
  Wants <- WantsMC
  None = None
  Detector = Detector
  Calls <- CallsMC
SPECIFICATION FairSpec
INVARIANTS IInv EndedHasNoEdges
PROPERTIES FirstVictimInCycle DeadlockBroken
CHECK_DEADLOCK FALSE
