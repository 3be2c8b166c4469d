CONSTANTS
    Procs = {p1, p2}
    Nodes = {n1}
    Addrs = {a1, a2}
    p1 = p1
    p2 = p2
    Workloads <- MCWorkloads
    MaxMoves = 1
    MaxKills = 1
    Absent = Absent
    Earlier = d0
    None = None
SPECIFICATION Spec
INVARIANTS
    ServedSocket
    DecommissionHonest
PROPERTIES
    CacheSaveCurrent
    CommandsEnd
CHECK_DEADLOCK FALSE
