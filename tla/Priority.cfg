SPECIFICATION Spec
CONSTANTS
  MaxProcs = 8
  Boot <- ShellBoot
  Programs = {"shell"}
  Entry <- ShellEntry
  None = None
  RegValues = {}
  LowestPriority = 6
  PrioMod = 32
  ShellPriority = 4
  ExecPriorities = {7}
  MaxLive = 4
INVARIANTS
  TypeOK
  SlotsHoldContexts
  QueueMatchesTable
  HeapOrdered
PROPERTIES
  DispatchesMostUrgent
  WaitingGainsUrgency
  TimeSharingIsTransparent
CHECK_DEADLOCK FALSE
