SPECIFICATION Lib
CONSTANTS
    SIZE = 10
    BLOCK = 4
    WORD = 2
    Bytes <- MCBytes
    Memories <- MCMemories
    Fills = {0, 2}
    Formats <- MCFormats
    Sizes = {0, 1, 2, 4, 9}
    CHAR_SPAN = 4
    SHORT_SPAN = 16
    INT_SPAN = 64
    TMP = 2
\* A call ends.
CHECK_DEADLOCK FALSE
INVARIANTS
    MemTypeOK
    MoveExact
    AnswerExact
    PrintBounded
    PrintExact
