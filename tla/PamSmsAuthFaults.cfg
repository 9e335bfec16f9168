\* Two calls at the same time with expiring rows and database faults.
CONSTANTS
    s1 = s1  s2 = s2  s3 = s3  alice = alice  bob = bob  root = root  guest = guest
    Sessions = {s1, s2}
    Users = {alice, bob, root, guest}
    NoUser = NoUser
    Excepted = {root}
    NoGecos = {guest}
    Relaxed = TRUE
    Expir = 1
    MaxTime = 3
    SmsOutcomes = {"SMS_OK", "SMS_READFROMSOCK_ERR", "SMS_GATEWAY_ERR"}
    Wrong = Wrong
    NoInput = NoInput
    NoOtp = NoOtp
    Garbage = Garbage
    Faults = {"SQLITE_BUSY", "SQLITE_ERROR"}
    Serial = FALSE
    Tables <- FreshOrLeft
SPECIFICATION Spec
SYMMETRY SessionSymmetry
CHECK_DEADLOCK FALSE
INVARIANTS
    TypeOK
    StoredOtpWasSent
    SuccessHasCause
    RowHoldsOwnOtp
    AuthenticatedByOwnOtp
    OwnOtpOutdone
    RowZeroIsDead
PROPERTIES
    LiveRowsStay
