SPECIFICATION Spec
CONSTANTS
    n1 = n1  n2 = n2
    w1 = w1  w2 = w2
    d1 = d1  d2 = d2
    vm1 = vm1
    NoVG = NoVG
    None = None
    Nodes = {n1, n2}
    Hosts = {1, 2}
    HostOf <- MCHostOf
    Workers = {w1, w2}
    NodeOf <- OneEach
    VGs = {"g1"}
    Locker = "etcd"
    Faults = {"fail", "late", "crash"}
    Disks = {d1}
    VMs = {vm1}
    VMHost <- MCVMHost
    Slots = 1
    Capacity <- Cap2
    Extent = 1
    Word = 16
    DefaultVG = "g1"
    DefaultThinInitial = 1
    CreateInputs <- CreateThick
    ExtendInputs <- ExtendTo2
    Forces = {TRUE}
    AttachTargets = {0}
    Ops = {"create", "delete", "extend", "attach", "detach"}
INVARIANTS
    RecordHasLV
    NoOrphanLV
PROPERTY OnlyDeleteRemoves
CHECK_DEADLOCK FALSE
