\* Command line, bodies, two requests, one backend; the worker may stop.
CONSTANTS
    Absent = Absent
    WrongType = WrongType
    Thrown = Thrown
    MaxInt = 15
    MaxPromptBytes = 12
    MaxMessageBytes = 18
    DefaultMaxTokens = 4
    MaximumMaxTokens = 8
    Texts <- MCTexts
    PieceSizes = {1, 3}
    Splits = {3}
    PieceBuffer = 2
    MaxTokens = 2
    MaxLost = 1
    IntOf <- MCIntOf
    CommandLines <- MCCommandLines
    ChatBodies <- MCChatBodies
    LoraBodies <- MCLoraBodies
    NameBytes <- MCNameBytes
    MaxPosts = 2
SPECIFICATION Spec
INVARIANTS
    BackendTypeOK
    NothingStale
    RoomToDecode
    ScopesRelease
    AnswerIsWhole
    AcceptedAreServable
    ConfigIsUsable
PROPERTIES
    AnswersStay
    
CHECK_DEADLOCK FALSE
