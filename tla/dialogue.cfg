SPECIFICATION FairSpec
CONSTANTS
  Modes = {"text", "protobuf", "http"}
  BodySizes = {3, 4, 7}
  MaxFrame = 6
  MaxMsgs = 3
INVARIANTS
  DetectedRight
  FramesAligned
  InStep
  StallsOnly
PROPERTIES
  CallReturns
