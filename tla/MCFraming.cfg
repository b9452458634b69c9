SPECIFICATION FramingSpec
CONSTANTS
  HEADER_SIZE = 3
  Base = 2
  Wrap = 32
  Letters <- MCLetters
  PING <- MCPing
  Texts <- MCTexts
  MaxMessages = 2
  MaxForeign = 4
INVARIANTS
  BodyFits
  TextsArrive
CHECK_DEADLOCK FALSE
