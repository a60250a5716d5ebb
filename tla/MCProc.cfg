SPECIFICATION PSpec
CONSTANTS
    CPUs = {c1, c2}
    Threads = {t1, t2, t3}
    Procs = {Parent, Child}
    Parent = Parent
    Child = Child
    ParentOf <- MCParentOf
    Worlds <- MCWorlds
    Idle = Idle
    None = None
SYMMETRY Symmetry
CONSTRAINT ZombieOffCPU
INVARIANTS WaiterNotStranded FreedOnce WaitThreadLive ContinueSeen
