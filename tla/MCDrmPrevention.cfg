\* Two threads and three mutexes: a circle of two, with a third mutex that main
\* destroys before, while or after they form it.  Without
\* deadlock checking the threads really may all block.
CONSTANTS
  t1 = t1
  t2 = t2
  Threads <- TwoThreads
  None = None
  N = 3
  Relock = TRUE
  Calls <- CallsMC
SPECIFICATION FairSpec
INVARIANTS IInv NoDeadlock
PROPERTIES Exclusive CallsReturn
CHECK_DEADLOCK FALSE
