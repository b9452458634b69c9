SPECIFICATION FairSpec
CONSTANTS
  InKinds <- AllKinds
  MaxFrames = 2
  MaxWrites = 3
  MaxReply = 2
  MaxBeats = 2
INVARIANTS
  TypeOK
  SingleWrite
  NoLostWakeup
  Conservation
  DeliveredOnce
  HeartbeatAlive
  CloseCount
PROPERTIES
  NoNewWaits
  WriterSpec
  PeerLossReported
CHECK_DEADLOCK FALSE
