\* One client; a gateway may drop the SMS without an exception.
CONSTANTS
    Clients = {c1}
    NoConn = NoConn
    Unparsable = {}
    Gateways <- WrittenGateways
    GwOutcomes <- AnyReply
    MaxPending = 2
    MaxStops = 1
SPECIFICATION Spec
CHECK_DEADLOCK FALSE
INVARIANT OkMeansDelivered
