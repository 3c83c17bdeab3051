SPECIFICATION Spec
CONSTANTS
  Headers <- OneHeader
  MaxChunk = 3
  CapUnit = 2
  CapLimit = 4
  ResendInChunks = TRUE
INVARIANT
  ResendIsAppended
