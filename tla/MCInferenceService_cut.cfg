\* A number of tokens may exceed an int.
CONSTANTS
    Absent = Absent
    WrongType = WrongType
    Thrown = Thrown
    MaxInt = 15
    MaxPromptBytes = 12
    MaxMessageBytes = 18
    DefaultMaxTokens = 4
    MaximumMaxTokens = 8
    Texts <- MCTexts
    PieceSizes = {1, 3}
    Splits = {3}
    PieceBuffer = 2
    MaxTokens = 2
    MaxLost = 1
    IntOf <- MCIntOf
    CommandLines <- MCCommandLines
    ChatBodies <- MCChatBodies
    LoraBodies <- MCLoraBodies
    NameBytes <- MCNameBytes
    MaxPosts = 2
SPECIFICATION Spec
INVARIANT AcceptedAsPosted
CHECK_DEADLOCK FALSE
