SPECIFICATION Spec
CONSTANTS
    n1 = n1  n2 = n2
    w1 = w1  w2 = w2
    d1 = d1  d2 = d2
    vm1 = vm1
    NoVG = NoVG
    None = None
    Nodes = {n1, n2}
    Hosts = {1, 2}
    HostOf <- MCHostOf
    Workers = {w1, w2}
    NodeOf <- OneEach
    VGs = {"g1"}
    Locker = "etcd"
    Faults = {"fail", "late", "crash"}
    Disks = {d1}
    VMs = {vm1}
    VMHost <- MCVMHost
    Slots = 1
    Capacity <- Cap12
    Extent = 2
    Word = 100000
    DefaultVG = "g1"
    DefaultThinInitial = 1
    CreateInputs <- CreateSizes
    ExtendInputs <- ExtendAll
    Forces = {FALSE}
    AttachTargets = {0}
    Ops = {"create", "extend"}
INVARIANTS
    SizeNotOverstated
    ModeMatchesContent
CHECK_DEADLOCK FALSE
