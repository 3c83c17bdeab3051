SPECIFICATION FairSpec
CONSTANTS
  Plan <- MisfitPlan
  EntryCapacity = 2
  MediaBlock = 2
  LastBlock = 2
  Data = {0, 1}
  Zero = 0
  InitialDisks <- BlankDisk
  WriteErrors <- OneError
  MaxPacket = 3
PROPERTIES
  PayloadReturns
