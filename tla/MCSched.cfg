SPECIFICATION LiveSpec
CONSTANTS
    CPUs = {c1, c2}
    Threads = {t1, t2, t3}
    Idle = Idle
    None = None
INVARIANTS TypeOK StackExclusive Placed
PROPERTIES ImplementsPark ReadyRuns
