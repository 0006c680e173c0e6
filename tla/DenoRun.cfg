\* An extension that prints anything, throws or is killed; pipes of two lines.
SPECIFICATION FairSpec
CONSTANTS
    Capacity = 2
    MaxCalls = 4
    MaxOutstanding = 2
    Prints <- MCAllPrints
    MayThrow = TRUE
    MayDie = TRUE
INVARIANTS
    TypeOK
    AnswersMatchCalls
    SuccessIsEarned
    NoFullPipeDeadlock
PROPERTIES
    OverReturns
    CallsAreAnswered
CHECK_DEADLOCK FALSE
