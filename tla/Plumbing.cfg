SPECIFICATION Spec
CONSTANTS
  Pids = {0, 1, 2, 3, 4}
  FdNo = 8
  PipeNo = 2
  BufferSize = 2
  Bytes = {0, 1}
  Names = {}
  Commands <- PlumbingCommands
  Rounds = 2
INVARIANTS
  TypeOK
  PipesOutliveTheirEnds
  PlumbingIsExact
CHECK_DEADLOCK FALSE
