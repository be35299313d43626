SPECIFICATION GrammarSpec
CONSTANTS
    MaxMinor = 3
    MaxCode = 2
    MaxText = 3
    MaxHeaders = 20
    MaxBody = 2
    Wrap = 32
    MaxReserve = 16
    MaxChunkChars = 40
    Minors <- MCMinors
    Numbers <- MCNumbers
    StatusTexts <- MCStatusTexts
    Keys <- MCKeys
    Blanks <- MCBlanks
    Values <- MCValues
    Announced <- MCAnnounced
    MaxLines = 2
    BodyChars = {"cr"}
    Payloads <- MCPayloads
    MaxDigits = 2
    MaxChunks = 2
    AnyChunkChars = 10
    AnyChunkHeaders = 8
    HexValues = {0, 1, 2, 15}
CHECK_DEADLOCK FALSE
INVARIANTS ResponseTypeOK ResponseBuffersInBounds ResponseReadyToPop BodyAsDeclared
    ResponseHeadEndsAtFirstBlankLine ResponseAcceptsGrammar ResponseAsSent
