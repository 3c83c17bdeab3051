SPECIFICATION Spec
CONSTANTS
  LastBlock = 1
  Commit = TRUE
  Data = {0, 1}
  Zero = 0
  MaxCount = 2
  WriteErrors <- OneError
INVARIANTS
  TypeOK
  WrittenMeansWritten
