SPECIFICATION SessionSpec
CONSTANTS
  Plan <- ThreeEntries
  EntryCapacity = 2
  MediaBlock = 1
  LastBlock = 6
  Data = {0, 1, 2, 3, 4}
  Zero = 0
  InitialDisks <- BlankDisk
  WriteErrors <- OneError
  MaxPacket = 4
  HostImage <- FourBytes
  FaultSets <- NoneOrAll
INVARIANTS
  CompletedMeansImage
  NothingLost
  FinalReplySound
PROPERTIES
  RequestEnds
  SessionCompletes
CHECK_DEADLOCK FALSE
