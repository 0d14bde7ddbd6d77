------------------------------- MODULE MCServer -------------------------------
(* Instances of Server for TLC.                                             *)
EXTENDS Server, TLC

CONSTANTS n1, w1, w2, d1, d2, vm1, vm2

\* all calls in one process, on the VM's host
MCHostOf == [n \in Nodes |-> 1]
MCNodeOf == [w \in Workers |-> n1]
MCVMHost == [vm \in VMs |-> 1]

Cap2 == [g \in VGs |-> 2]
Cap4 == [g \in VGs |-> 4]

\* what normaliseCreate fills in, what it refuses, and a mode nobody knows
RequestDefaults ==
    {[vg |-> NoVG, mode |-> 3, size |-> 1, virt |-> 0],
     [vg |-> "g1", mode |-> 2, size |-> 0, virt |-> 3],
     [vg |-> "g1", mode |-> 2, size |-> 2, virt |-> 2],
     [vg |-> "g1", mode |-> 1, size |-> 0, virt |-> 0]}
RequestThick == {[vg |-> "g1", mode |-> 1, size |-> 1, virt |-> 0]}

InputsOf(requests) == {CreateInput(q) : q \in requests}
InputDefaults == InputsOf(RequestDefaults)
InputThick == InputsOf(RequestThick)

\* by one byte; both fields set
ExtendBy1 == {[size |-> 0, delta |-> 1, pct |-> 0], [size |-> 2, delta |-> 1, pct |-> 0]}
=============================================================================
