SPECIFICATION GrammarSpec
CONSTANTS
    MaxMethod = 2
    MaxUri = 2
    MaxMinor = 3
    MaxHeaders = 10
    MaxBody = 2
    Words <- MCWords
    Uris <- MCUris
    Minors <- MCMinors
    Keys <- MCKeys
    Blanks <- MCBlanks
    Values <- MCValues
    Announced <- MCAnnounced
    MaxLines = 2
    BodyChars = {"cr", "high"}
    WideBody = 414
    ValueSize = 5
    SomeChars = {0, 1, 4, 5, 9, 10, 11}
CHECK_DEADLOCK FALSE
INVARIANTS ParserTypeOK BuffersInBounds ReadyToPop HeadEndsAtFirstBlankLine BodyComplete
    InputBounded AcceptsGrammar LengthsExact
