SPECIFICATION Spec
CONSTANTS
  BlockNum = 2
  BlockLen = 2
  Bytes = {0, 1}
  MaxLen = 3
  RETRY = 3
  Fifo = 2
  MaxDamage = 3
  Idle = Idle
INVARIANTS
  TypeOK
  LinesAreDrained
PROPERTIES
  TriesMaskDamage
  ServesBlocks
  RequestsEnd
