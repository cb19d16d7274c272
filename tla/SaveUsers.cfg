SPECIFICATION FairSpec
CONSTANTS
  p1 = p1
  p2 = p2
  p3 = p3
  Proc <- Savers
  NoProc = NoProc
  MaxCrashes = 2
INVARIANTS
  FileWhole
  IInv
PROPERTIES
  ImplementsDurableLog
  ServerComesBack
  EverySaveReturns
CHECK_DEADLOCK FALSE
