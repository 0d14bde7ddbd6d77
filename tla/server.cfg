SPECIFICATION ServerSpec
CONSTANTS
    n1 = n1
    w1 = w1  w2 = w2
    d1 = d1  d2 = d2
    vm1 = vm1  vm2 = vm2
    NoVG = NoVG
    None = None
    Nodes = {n1}
    Hosts = {1}
    HostOf <- MCHostOf
    Workers = {w1}
    NodeOf <- MCNodeOf
    VGs = {"g1"}
    Locker = "noop"
    Faults = {}
    Disks = {d1, d2}
    VMs = {vm1, vm2}
    VMHost <- MCVMHost
    Slots = 1
    Capacity <- Cap4
    Extent = 1
    Word = 16
    DefaultVG = "g1"
    DefaultThinInitial = 1
    CreateRequests <- RequestDefaults
    CreateInputs <- InputDefaults
    ExtendInputs <- ExtendBy1
    Forces = {TRUE, FALSE}
    AttachTargets = {0, 1}
    Ops = {"create", "delete", "extend", "attach", "detach"}
    Reads = {"get_disk", "list_disks", "list_attachments", "node_status", "cluster_status"}
INVARIANTS
    
    
    NoDanglingAttachment
PROPERTIES
    DetachesOwnDisk
    AnswersTrue
CHECK_DEADLOCK FALSE
