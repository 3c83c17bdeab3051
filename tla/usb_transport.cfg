SPECIFICATION Spec
CONSTANTS
  MaxMessages = 2
  MaxDisruptions = 2
INVARIANTS
  NothingLeaks
  TransfersHaveBuffers
  MessageStable
PROPERTIES
  SendReturns
  SetupHandled
  MessageTaken
CHECK_DEADLOCK FALSE
