SPECIFICATION ServerSpec
CONSTANTS
    n1 = n1
    w1 = w1  w2 = w2
    d1 = d1  d2 = d2
    vm1 = vm1  vm2 = vm2
    NoVG = NoVG
    None = None
    Nodes = {n1}
    Hosts = {1}
    HostOf <- MCHostOf
    Workers = {w1, w2}
    NodeOf <- MCNodeOf
    VGs = {"g1"}
    Locker = "etcd"
    Faults = {"fail", "cancel", "crash"}
    Disks = {d1, d2}
    VMs = {vm1}
    VMHost <- MCVMHost
    Slots = 1
    Capacity <- Cap2
    Extent = 1
    Word = 16
    DefaultVG = "g1"
    DefaultThinInitial = 1
    CreateRequests <- RequestThick
    CreateInputs <- InputThick
    ExtendInputs = {}
    Forces = {FALSE}
    AttachTargets = {0, 1}
    Ops = {"create", "attach"}
    Reads = {"get_disk", "cluster_status"}
 
PROPERTY AnswersTrue
CHECK_DEADLOCK FALSE
