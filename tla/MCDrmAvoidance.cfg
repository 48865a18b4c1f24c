\* Three threads and three mutexes: a cycle of two, and a third thread that is
\* granted a mutex or waits while the cycle is there, or whose walk is lost in
\* it.  The third thread's pthread_mutex_lock may fail.
CONSTANTS
  t1 = t1
  t2 = t2
  t3 = t3
  Threads <- ThreeThreads
  r1 = r1
  r2 = r2
  r3 = r3
  Resources <- ThreeMutexes
  Wants <- WantsMC
  None = None
  Relock = FALSE
  Fails <- FailsMC
  Calls <- CallsMC
SPECIFICATION FairSpec
INVARIANTS NoDeadlock GrantClosesNoCycle IInv
PROPERTIES Exclusive CallsReturn
