CONSTANTS
  c1 = c1
  c2 = c2
  Clients = {c1, c2}
  Requests <- RequestsMC
  Buffer = 5
  Main = Main
  None = None
  Signals = 1
SPECIFICATION FairSpec
INVARIANTS IInv AllClosed
PROPERTIES AnswersInOrder Answered Ends
