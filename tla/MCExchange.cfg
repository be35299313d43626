SPECIFICATION MCSpec
CONSTANTS
    MaxMethod = 20
    MaxUri = 2048
    MaxMinor = 5
    MaxHeaders = 8192
    MaxBody = 2
    Scripts <- MCScripts
    ReadSizes = {1, 16, 64}
    SomeBytes = {0, 10, 32, 37, 43, 47, 65, 255}
    PathSize = 3
CHECK_DEADLOCK FALSE
INVARIANTS HandedAsSent UriNamesPath
PROPERTIES AnswerArrives
