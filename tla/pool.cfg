SPECIFICATION Spec
CONSTANTS
    t1 = t1 t2 = t2 t3 = t3
    w1 = w1 w2 = w2 w3 = w3 w4 = w4
    Tasks = {t1, t2, t3}
    Workers = {w1, w2, w3}
    FirstWorkers = {w1}
    Capacity = 2
    TaskMax = 2
    Modulus = 16
    AskLimit = 1
    NoTask = NoTask
SYMMETRY MCSymmetry
INVARIANTS TypeOK RunOnce AtMostCapacity
CHECK_DEADLOCK FALSE
CONSTRAINT Open
