SPECIFICATION Spec
CONSTANTS
  InKinds <- SomeKinds
  MaxFrames = 1
  MaxWrites = 1
  MaxReply = 0
  MaxBeats = 1
INVARIANT FailedWriteReported
CHECK_DEADLOCK FALSE
