SPECIFICATION RoundRobinSpec
CONSTANTS
  Pids = {0, 1, 2, 3, 4}
  FdNo = 8
  PipeNo = 3
  BufferSize = 2
  Bytes = {0, 1, 2, 3, 4, 5, 6, 7, 8, 9, 10, 11, 12, 13, 14, 15, 16, 17, 18}
  Names = {}
  Commands <- RingCommands
  Rounds = 6
INVARIANTS
  NoFault
  TokenCountsHops
PROPERTIES
  TokenReturns
  RingCompletes
  PipesAreFifo
CHECK_DEADLOCK FALSE
