SPECIFICATION Spec
CONSTANTS
  BlockLen = 4
  InfoBlocks = 2
  FileParts = 1
  Length <- NameLength
  NameSize = 8
  PathSize = 10
  Names = {"d", "f", "long"}
  Folders = {"d"}
  Counts = {3}
  FdNo = 4
  FileNo = 1
  FpMod = 32
  MaxDepth = 2
  Shells = {s1, s2}
  Flags <- NamesFlags
  Texts <- AllTexts
  MaxCalls <- CallsEachStart
  Offsets <- Back
  Absent = Absent
  None = None
SYMMETRY Alike
INVARIANTS
  LinkedIsMarked
  OneLinkEach
  ReadsBack
PROPERTIES
  BlocksAreGivenBack
  StoresFiles
  FailsOnlyThen
CHECK_DEADLOCK FALSE
