SPECIFICATION PSpec
CONSTANTS
    CPUs = {c1, c2}
    Threads = {t1, t2}
    Procs = {Parent, Child}
    Parent = Parent
    Child = Child
    ParentOf <- MCParentOf
    Worlds <- KillWorlds
    Idle = Idle
    None = None
INVARIANT ZombieOffCPU
