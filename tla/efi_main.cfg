SPECIFICATION MainSpec
CONSTANTS
  Plans <- TwoPlans
  Payload <- TwentyBytes
  BufferSize = 9
  MediaBlock = 2
  LastBlock = 21
  Data = {0, 1, 2, 3, 4, 5, 6, 7, 8}
  InitialDisks <- TwoDisks
  Errors <- OneError
  CommandLines <- Lines
  EfiNames <- Names
  Word = 32
  Disks = 2
  HeaderSize = 7
  MaxHeader = 3
  MaxPayload = 7
INVARIANTS
  
  
  OptionsAsGiven
  
  NothingHeld
  PacketsSuffice
PROPERTIES
  MainReturns
  WritesImage
CHECK_DEADLOCK FALSE
