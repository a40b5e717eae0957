SPECIFICATION FairSpec
CONSTANTS
  MaxProcs = 7
  Boot <- ShellBoot
  Programs = {"shell"}
  Entry <- ShellEntry
  None = None
  RegValues = {0}
  LowestPriority = 7
  PrioMod = 32
  ShellPriority = 4
  ExecPriorities = {3, 9}
  MaxLive = 3
PROPERTIES
  EveryProcessIsServed
CHECK_DEADLOCK FALSE
