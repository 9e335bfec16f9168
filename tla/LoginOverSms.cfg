\* Two logins at the same time and the server they send their tokens to.
CONSTANTS
    s1 = s1  s2 = s2  alice = alice  bob = bob
    Sessions = {s1, s2}
    Users = {alice, bob}
    NoUser = NoUser
    Excepted = {bob}
    NoGecos = {}
    Relaxed = TRUE
    Expir = 1
    MaxTime = 2
    SmsOutcomes <- AllResults
    Wrong = Wrong
    NoInput = NoInput
    NoOtp = NoOtp
    Garbage = Garbage
    Faults = {}
    Serial = FALSE
    Tables <- NoTable
    Unparsable = {s2}
    NoConn = NoConn
    Gateways = 1
    GwOutcomes <- OneGateway
    MaxPending = 1
    MaxStops = 1
SPECIFICATION FairSystemSpec
CHECK_DEADLOCK FALSE
INVARIANTS
    AcceptedWasDelivered
    PassNeedsOutage
PROPERTIES
    LoginsComeToRest
