SPECIFICATION Spec
CONSTANTS
  Devices <- FiveDevices
  OptionBlocks <- TwoBlocks
  NoOptions = "zero"
  Names <- ThreeNames
  Values <- FiveValues
  Limits <- FewLimits
  Below <- FewBelow
INVARIANTS
  AnsweredUnlessTooLong
  ReadsLastWrite
  AnnouncedIsAccepted
\* The loop ends when the host asks for it.
CHECK_DEADLOCK FALSE
