SPECIFICATION Spec
CONSTANTS
  Pids = {0}
  FdNo = 5
  PipeNo = 2
  BufferSize = 1
  Bytes = {0, 1}
  Names = {}
  Calls = {"pipe", "dup2", "close", "write", "read"}
  Arguments = {0, 2, 3, 4}
  MaxCount = 3
INVARIANTS
  TypeOK
  PipesOutliveTheirEnds
  FreePipesAreEmpty
CHECK_DEADLOCK FALSE
