\* What the Makefile's build gives for the missing return.  The code ends the
\* program when it reads data for a header.
CONSTANTS
  MinSbrk = 4
  MaxSbrk = 16
  MaxOrder = 4
  MaxArrayLength = 2
  Missing = "buddy"
  Requests <- RequestsMC
  MaxHeap = 12
  Zero = Zero
  Junk = Junk
  Written = Written
SPECIFICATION AllocSpec
PROPERTIES DataKept
CHECK_DEADLOCK FALSE
