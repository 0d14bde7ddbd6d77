SPECIFICATION ThinFairSpec
CONSTANTS
    n1 = n1  n2 = n2
    w1 = w1  w2 = w2  w3 = w3
    NoVG = NoVG
    None = None
    Nodes = {n1, n2}
    Hosts = {1}
    HostOf <- MCHostOf
    Workers = {w1, w2, w3}
    NodeOf <- MCNodeOf
    VGs = {"g1"}
    Locker = "etcd"
    Faults = {"crash", "expire"}
    Disks = {"d1"}
    VMs = {"vm1"}
    VMHost <- MCVMHost
    Slots = 1
    Capacity <- MCCapacity
    Extent = 1
    Word = 1000
    DefaultVG = "g1"
    DefaultThinInitial = 1
    CreateInputs <- ThinDisk
    ExtendInputs <- StepOnly
    Forces = {FALSE}
    AttachTargets = {0}
    Ops = {"create", "extend", "attach"}
    ClientOps = {"create", "attach"}
    Managers = {w1, w3}
    Threshold = 30
    Step = 50
INVARIANTS
    ThinTypeOK
    
PROPERTIES
    NeedyGrows
    HandlersEnd
CHECK_DEADLOCK FALSE
