SPECIFICATION FairSpec
CONSTANTS
  InKinds <- AllKinds
  Endpoints = 2
  MaxFrames = 3
  MaxWrites = 3
  MaxReply = 2
INVARIANTS
  TypeOK
  FailureReportedOnce
  FramesAnswered
PROPERTIES
  WriterSpec
  ConnectEnds
  LossReported
CHECK_DEADLOCK FALSE
