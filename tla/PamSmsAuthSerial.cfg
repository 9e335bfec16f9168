\* Three calls one after the other, an OTP that expires, no database faults.
CONSTANTS
    s1 = s1  s2 = s2  s3 = s3  alice = alice  bob = bob  root = root  guest = guest
    Sessions = {s1, s2, s3}
    Users = {alice, bob}
    NoUser = NoUser
    Excepted = {}
    NoGecos = {}
    Relaxed = FALSE
    Expir = 1
    MaxTime = 3
    SmsOutcomes = {"SMS_OK", "SMS_GATEWAY_ERR"}
    Wrong = Wrong
    NoInput = NoInput
    NoOtp = NoOtp
    Garbage = Garbage
    Faults = {}
    Serial = TRUE
    Tables <- Fresh
SPECIFICATION Spec
SYMMETRY FullSymmetry
CHECK_DEADLOCK FALSE
INVARIANTS
    OneRowPerUser
PROPERTIES
    KeepsBook
    RegisteredOtpStays
    AcceptedWasLiveOnEntry
