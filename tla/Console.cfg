SPECIFICATION Spec
CONSTANTS
  Shells = {0, 1}
  BufferLen = 3
  Lengths = {2, 4}
  MaxTyped = 7
  Returns = {3, 5}
PROPERTIES
  ReadsWhatWasTyped
  InputIsRead
CHECK_DEADLOCK FALSE
