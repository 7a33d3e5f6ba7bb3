SPECIFICATION Spec
CONSTANTS
    a = a b = b f = f g = g
    Peers = {a, b}
    Dialer = a
    Files = {f, g}
    Owner <- OwnerOfEach
    Top = 9
    Automatic = {g}
    Expires = TRUE
    MaxGestures = 3
    MaxSessions = 1
    NoFile = NoFile NoTransfer = NoTransfer
INVARIANTS StatusAgree SameRows RightFile
PROPERTY FinalStays
CONSTRAINT Orderly
CHECK_DEADLOCK FALSE
