SPECIFICATION Spec
CONSTANTS
  MaxProcs = 6
  Boot <- ShellBoot
  Programs = {"shell"}
  Entry <- ShellEntry
  None = None
  RegValues = {}
  LowestPriority = 7
  PrioMod = 32
  ShellPriority = 6
  ExecPriorities = {7}
  MaxLive = 6
INVARIANTS
  StraysOnlyWhenHalfFull
CHECK_DEADLOCK FALSE
