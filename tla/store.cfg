SPECIFICATION Spec
CONSTANTS
    c1 = c1  c2 = c2
    Blank = Blank
    None = None
    Clients = {c1, c2}
    Disks <- PlainDisks
    VMs <- PlainVMs
    VGs = {"g1", "g2"}
    Versions = {1}
    Requests <- MCRequests
    Backends = {"memory", "bolt", "etcd"}
INVARIANTS
    StoreTypeOK
    
    
PROPERTY ImplementsCatalog
SYMMETRY MCSymmetry
CHECK_DEADLOCK FALSE
