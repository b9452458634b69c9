SPECIFICATION FairSpec
CONSTANTS
  t1 = t1
  t2 = t2
  e1 = e1
  e2 = e2
  plain = plain
  again = again
  Threads <- TwoThreads
  Ids <- TwoIds
  Listeners <- TwoListeners
  Reentrant <- OneReentrant
  MaxCalls = 4
INVARIANTS
  TypeOK
PROPERTIES
  ListStandsStill
  DispatchIsHeard
  CallsReturn
CHECK_DEADLOCK FALSE
