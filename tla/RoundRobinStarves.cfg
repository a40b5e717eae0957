SPECIFICATION FairSpec
CONSTANTS
  MaxProcs = 5
  Boot <- StageOneBoot
  Programs = {"shell"}
  Entry <- StageOneEntry
  None = None
  RegValues <- NoValues
  LowestPriority = 7
  PrioMod = 16
  ShellPriority = 5
  ExecPriorities = {6}
PROPERTIES
  EveryProcessIsServed
CHECK_DEADLOCK FALSE
