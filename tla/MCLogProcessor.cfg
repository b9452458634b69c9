SPECIFICATION FairSpec
CONSTANTS
  l1 = l1
  l2 = l2
  Loggers <- TwoLoggers
  PipeFrames = 2
  RotationSize = 1
  LogName <- Log
  Directories <- MCDirectories
  Formats <- MCFormats
  Texts <- MCTexts
  BUFFER_SIZE = 9
  Characters <- MCCharacters
  MaxMessages = 2
  MaxRuns = 2
INVARIANTS
  TypeOK
  NothingLost
  FilesInTurn
  LinesTold
PROPERTIES
  JournalSpec
  MessagesReachFile
CHECK_DEADLOCK FALSE
