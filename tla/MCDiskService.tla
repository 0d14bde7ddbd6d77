----------------------------- MODULE MCDiskService -----------------------------
(* Instances of DiskService for TLC.                                        *)
EXTENDS DiskService, TLC

CONSTANTS n1, n2, w1, w2, d1, d2, vm1

\* n1 runs on host 1, where the VM is, n2 on host 2
MCHostOf == [n \in Nodes |-> IF n = n2 THEN 2 ELSE 1]
MCVMHost == [vm \in VMs |-> 1]

\* one call in flight in each process; two in one process
OneEach == [w \in Workers |-> IF w = w1 THEN n1 ELSE n2]
Shared == [w \in Workers |-> n1]

Cap2 == [g \in VGs |-> 2]
Cap4 == [g \in VGs |-> 4]
Cap12 == [g \in VGs |-> 12]

Thick(g, s) == [vg |-> g, mode |-> "thick", size |-> s, virt |-> 0]
Thin(g, s, v) == [vg |-> g, mode |-> "thin", size |-> s, virt |-> v]

\* a thin disk in one volume group, a thick one in another
CreateTwoVGs == {Thin("g1", 1, 3), Thick("g2", 1)}
CreateSizes == {Thick("g1", 1), Thin("g1", 3, 8)}
\* what normaliseCreate fills in, and what it refuses
CreateDefaults ==
    {[vg |-> NoVG, mode |-> "unspecified", size |-> 1, virt |-> 0],
     Thin("g1", 0, 3), Thin("g1", 2, 2), Thick("g1", 0)}
CreateBoth == {Thick("g1", 1), Thin("g1", 1, 3)}
CreateThick == {Thick("g1", 1)}
CreateThin == {Thin("g1", 1, 3)}

Delta(x) == [size |-> 0, delta |-> x, pct |-> 0]
Size(x) == [size |-> x, delta |-> 0, pct |-> 0]
Pct(x) == [size |-> 0, delta |-> 0, pct |-> x]
ExtendTo2 == {Size(2)}
ExtendAll == {Size(3), Delta(1), Pct(50)}
ExtendBy1 == {Delta(1)}
=============================================================================
