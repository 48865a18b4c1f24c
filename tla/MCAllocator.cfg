\* Areas of 4 and 8 units, lists of two blocks.
CONSTANTS
  MinSbrk = 4
  MaxSbrk = 16
  MaxOrder = 4
  MaxArrayLength = 2
  Missing = "NULL"
  Requests <- RequestsMC
  MaxHeap = 12
  Zero = Zero
  Junk = Junk
  Written = Written
SPECIFICATION AllocSpec
INVARIANTS AllocInv
PROPERTIES LostWhenFull HeapSpec
