\* Errors in pointers wider than an int.
CONSTANTS
    Families <- ShortSources
    MaxText = 1
    Wide = TRUE
SPECIFICATION Spec
CHECK_DEADLOCK FALSE
INVARIANT
    FailureIsAnError
