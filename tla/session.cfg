SPECIFICATION Spec
CONSTANTS
    a = a b = b visitor = visitor
    Peers = {a, b}
    Dials <- OneWay
    MaxRequests = 2
    Faults = TRUE
    Nobody = Nobody
    Fresh = Fresh
INVARIANTS Agreed ListensAgain Answerable CanSend
CONSTRAINT Explored
CHECK_DEADLOCK FALSE
