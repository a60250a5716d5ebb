SPECIFICATION LiveWSpec
CONSTANTS
    CPUs = {c1, c2}
    Threads = {t1, t2}
    Timed = {t2}
    Users = {t1, t2}
    Idle = Idle
    None = None
CONSTRAINT ZombieOffCPU
INVARIANTS EntriesOfWaiters ParkedIsQueued
PROPERTY TimedWaitEnds
CHECK_DEADLOCK FALSE
