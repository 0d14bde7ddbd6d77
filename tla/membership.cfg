SPECIFICATION MemberSpec
CONSTANTS
    n1 = n1  n2 = n2  n3 = n3
    w1 = w1  w2 = w2
    NoVG = NoVG
    NoNode = NoNode
    Nodes = {n1, n2, n3}
    Hosts = {1, 2}
    HostOf <- MCHostOf
    Ids = {"a", "b"}
    IdOf <- MCIdOf
    Workers = {w1, w2}
    NodeOf <- OneEach
    VGs = {"g1"}
    Locker = "etcd"
    Faults = {"fail", "late", "crash", "expire"}
INVARIANTS
    MemberTypeOK
    MutualExclusion
    
    ListedIsLeased
PROPERTIES
    BeatingIsListed
    DeadIsForgotten
CHECK_DEADLOCK FALSE
