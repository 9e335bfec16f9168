\* Four kinds of sources, each to the length at which its cases have happened.
CONSTANTS
    Families <- SomeSources
    MaxText = 1
    Wide = FALSE
SPECIFICATION Spec
CHECK_DEADLOCK FALSE
INVARIANTS
    TypeOK
    OneHolder
    NothingLeft
    OverrunNeedsComment
    ParsesAsGrammar
    OkIsSaid
PROPERTY
    EveryAnswerEnds
