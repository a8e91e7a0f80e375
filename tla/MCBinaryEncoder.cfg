SPECIFICATION Spec
CONSTANTS
    Messages <- MCMessages
    Trailers <- MCTrailers
    Capacities <- MCCapacities
    SizeMax = 65535
INVARIANTS
    RoundTrip
    WithinOutput
    FailsForRoom
