SPECIFICATION LiveSpec
CONSTANTS
  Texts <- MCTexts
  MaxPackets = 2
  MaxSearch = 10
  Word = 64
  ShortWord = 4
INVARIANTS
  TypeOK
  ReadAsSent
  SearchStopsAtFirstFlag
  HeaderIsReal
PROPERTIES
  EofIsReached
CHECK_DEADLOCK FALSE
