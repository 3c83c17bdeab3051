SPECIFICATION Spec
CONSTANTS
  Headers <- FourHeaders
  MaxChunk = 3
  CapUnit = 2
  CapLimit = 4
  ResendInChunks = FALSE
INVARIANT
  RestartAccepted
