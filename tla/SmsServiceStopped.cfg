\* One client; the server is stopped while it serves the request.
CONSTANTS
    Clients = {c1}
    NoConn = NoConn
    Unparsable = {}
    Gateways <- WrittenGateways
    GwOutcomes <- NoticedFailures
    MaxPending = 2
    MaxStops = 1
SPECIFICATION Spec
CHECK_DEADLOCK FALSE
INVARIANT NoCrash
