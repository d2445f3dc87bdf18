SPECIFICATION Spec
CONSTANTS
    c1 = c1
    c2 = c2
    NONE = NONE
    Clients = {c1, c2}
    Commands <- MCCommands
INVARIANTS
    TypeOK
    AnswerMatches
PROPERTY BootloaderIfAsked
