SPECIFICATION FairSpec
CONSTANTS
  Plan <- ImagePlan
  EntryCapacity = 4
  MediaBlock = 2
  LastBlock = 4
  Data = {0, 1}
  Zero = 0
  InitialDisks <- BlankDisk
  WriteErrors <- OneError
  MaxPacket = 4
INVARIANTS
  TypeOK
  StreamPosition
  BufferIsStreamTail
  FlashedSoFar
  DoneIsFinal
  LastSectorSound
PROPERTIES
  WritesImage
