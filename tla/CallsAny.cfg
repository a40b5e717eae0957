SPECIFICATION Spec
CONSTANTS
  Pids = {0, 1}
  FdNo = 3
  PipeNo = 1
  BufferSize = 1
  Bytes = {0, 1}
  Names = {"f"}
  Calls = {"fork", "exit", "pipe", "failing pipe", "dup2", "close", "open"}
  Arguments = {0, 2}
  MaxCount = 2
INVARIANTS
  UsedPipesAreCounted
CHECK_DEADLOCK FALSE
