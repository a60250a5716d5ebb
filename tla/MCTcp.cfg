SPECIFICATION LiveSpec
CONSTANTS
    c1 = c1
    c2 = c2
    a = a
    b = b
    Clients = {c1, c2}
    Servers = {a, b}
    Threads = {c1, c2, a, b}
    Lst = Lst
    Kids = {k1, k2}
    None = None
    Wrap = 16
    IsnStep = 5
    RxSize = 2
    Mss = 2
    Loads <- MCLoads
INVARIANTS StreamInOrder RefsExact OneOwner NobodyStranded DeadChildSpliced
PROPERTY HandshakesEnd
CHECK_DEADLOCK FALSE
