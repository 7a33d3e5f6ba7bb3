SPECIFICATION Spec
CONSTANTS
    a = a b = b f = f g = g
    Peers = {a, b}
    Dialer = a
    Files = {f, g}
    Owner <- OwnerOfTwo
    Top = 9
    Automatic = {g}
    Expires = TRUE
    MaxGestures = 3
    MaxSessions = 1
    NoFile = NoFile NoTransfer = NoTransfer
INVARIANT RightFile
CONSTRAINT OnlyUnsynced
CHECK_DEADLOCK FALSE
