\* The argument list that README.md calls the secure mode.
CONSTANTS
    CommandLines <- SecureMode
    GecosFields <- SomeGecos
    EarlierOtps <- FamiliarLengths
    LoginNames <- SomeNames
SPECIFICATION Spec
CHECK_DEADLOCK FALSE
INVARIANT SecureModeInForce
