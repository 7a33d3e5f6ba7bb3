SPECIFICATION Spec
CONSTANTS
    m1 = m1 m2 = m2 m3 = m3
    Messages = {m1, m2, m3}
    Size <- MCSize
    HeaderSize = 2
    DumpSize = 2
    BufferSize = 4
    Writers = {"w1", "w2"}
    WrongSizes = {0, 2}
INVARIANT ToldAfterAll
PROPERTIES ImplementsChannel Delivers
CHECK_DEADLOCK FALSE
