SPECIFICATION FairSpec
CONSTANTS
  Sessions <- FourSessions
  MaxDescriptors = 2
  MaxConnections = 3
  MaxFailures = 2
  MaxEvents = 2
INVARIANTS
  TypeOK
  RegistryExact
PROPERTIES
  ConnectionsServed
CHECK_DEADLOCK FALSE
