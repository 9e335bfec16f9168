\* Three clients for one place in the backlog, two gateways, one stop.
CONSTANTS
    Clients = {c1, c2, c3}
    NoConn = NoConn
    Unparsable = {c3}
    Gateways <- WrittenGateways
    GwOutcomes <- NoticedFailures
    MaxPending = 1
    MaxStops = 1
SPECIFICATION FairSpec
CHECK_DEADLOCK FALSE
INVARIANTS
    TypeOK
    OkMeansDelivered
    GatewayErrMeansAllFailed
    CopyNeedsFailure
PROPERTIES
    NoLateDelivery
    DownNeedsCause
    EverySendEnds
