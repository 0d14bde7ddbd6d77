SPECIFICATION FairSpec
CONSTANTS
    n1 = n1  n2 = n2
    w1 = w1  w2 = w2
    d1 = d1  d2 = d2
    vm1 = vm1
    NoVG = NoVG
    None = None
    Nodes = {n1, n2}
    Hosts = {1, 2}
    HostOf <- MCHostOf
    Workers = {w1, w2}
    NodeOf <- OneEach
    VGs = {"g1", "g2"}
    Locker = "etcd"
    Faults = {"cancel", "crash"}
    Disks = {d1}
    VMs = {vm1}
    VMHost <- MCVMHost
    Slots = 1
    Capacity <- Cap2
    Extent = 1
    Word = 16
    DefaultVG = "g1"
    DefaultThinInitial = 1
    CreateInputs <- CreateTwoVGs
    ExtendInputs <- ExtendTo2
    Forces = {FALSE}
    AttachTargets = {0}
    Ops = {"create", "delete"}
INVARIANTS
    TypeOK
    RecordHasLV
    NoOrphanLV
PROPERTIES
    OnlyDeleteRemoves
    ImplementsFirstCome
    HandlersEnd
CHECK_DEADLOCK FALSE
