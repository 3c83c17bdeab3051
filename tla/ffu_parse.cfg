SPECIFICATION Spec
CONSTANTS
  Layouts <- AllLayouts
  MaxSize = 50
  SecuritySize = 2
  ImageSize = 2
  ImageSizeV2 = 3
  ValidationSize = 1
  StoreSize = 3
  StoreSizeV2 = 4
  DescriptorSize = 1
  LocationSize = 1
  ChunkUnit = 2
  HashUnit = 2
  Word = 16
  MaxBlock = 4
INVARIANTS
  AcceptsExactly
  LocationsInHeader
  EntriesInOrder
CHECK_DEADLOCK FALSE
