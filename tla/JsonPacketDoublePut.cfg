\* What becomes of the objects of a request and its answer.
CONSTANTS
    Families <- ShortSources
    MaxText = 1
    Wide = FALSE
SPECIFICATION Spec
CHECK_DEADLOCK FALSE
INVARIANT
    NoUseAfterFree
