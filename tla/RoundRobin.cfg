SPECIFICATION FairSpec
CONSTANTS
  MaxProcs = 4
  Boot <- StageOneBoot
  Programs = {"shell", "T2"}
  Entry <- StageOneEntry
  None = None
  RegValues = {0}
  LowestPriority = 7
  PrioMod = 16
  ShellPriority = 5
  ExecPriorities = {4}
INVARIANTS
  TypeOK
  TableConsistent
  SlotsHoldContexts
PROPERTIES
  TimeSharingIsTransparent
  ShellAlwaysReturns
  WindowIsServed
CHECK_DEADLOCK FALSE
