SPECIFICATION LockSpec
CONSTANTS
    n1 = n1  n2 = n2  n3 = n3
    w1 = w1  w2 = w2  w3 = w3
    NoVG = NoVG
    Nodes = {n1, n2, n3}
    Hosts = {1, 2}
    HostOf <- MCHostOf
    Workers = {w1, w2, w3}
    NodeOf <- Shared
    VGs = {"g1"}
    Locker = "etcd"
    Faults = {}
INVARIANT NodeExclusion
CHECK_DEADLOCK FALSE
