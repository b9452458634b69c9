SPECIFICATION FairSpec
CONSTANTS
  Endpoints = 1
  SessionWrites = 2
  ClientWrites = 2
  MaxReply = 1
  MaxBeats = 1
PROPERTIES
  DownChannel
  UpChannel
  Settles
CHECK_DEADLOCK FALSE
