SPECIFICATION LiveSpec
CONSTANTS
    c1 = c1
    c2 = c2
    c3 = c3
    CPUs = {c1, c2, c3}
    Senders = {c1, c2}
    Loads <- MCLoads
    Null = Null
    MaxLost = 1
INVARIANTS InboxExact
PROPERTIES OnceEach CallReturns
CHECK_DEADLOCK FALSE
