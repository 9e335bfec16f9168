\* Lists of up to two arguments, with values at the limits.
CONSTANTS
    CommandLines <- ShortLines
    GecosFields <- SomeGecos
    EarlierOtps <- FamiliarLengths
    LoginNames <- SomeNames
SPECIFICATION Spec
CHECK_DEADLOCK FALSE
INVARIANTS
    TypeOK
    ArgumentsInForce
    PassedUnasked
    ShownTokenAccepted
    AcceptedInFull
