SPECIFICATION Spec
CONSTANTS
    a = a b = b visitor = visitor
    Peers = {a, b, visitor}
    Dials <- WithVisitor
    MaxRequests = 2
    Faults = FALSE
    Nobody = Nobody
    Fresh = Fresh
INVARIANT KeyKept
CONSTRAINT OnlyVisits
CHECK_DEADLOCK FALSE
