SPECIFICATION LiveSpec
CONSTANTS
    r1 = r1
    r2 = r2
    w1 = w1
    w2 = w2
    Threads = {r1, r2, w1, w2}
    Readers = {r1, r2}
    Writers = {w1, w2}
    Size = 2
    Loads <- MCLoads
INVARIANTS AtomicWrites ReaderNotStranded WriterNotStranded
PROPERTIES OldestFirst ClosedEnds
