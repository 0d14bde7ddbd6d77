-------------------------------- MODULE MCThin --------------------------------
(* An instance of ThinManager for TLC.                                      *)
EXTENDS ThinManager, TLC

CONSTANTS n1, n2, w1, w2, w3

\* n1 and n2 are two lives of the daemon of the one host; each has a
\* manager, n1 serves a client too
MCHostOf == [n \in Nodes |-> 1]
MCNodeOf == w1 :> n1 @@ w2 :> n1 @@ w3 :> n2
MCVMHost == [vm \in VMs |-> 1]

MCCapacity == [g \in VGs |-> 4]
ThinDisk == {[vg |-> "g1", mode |-> "thin", size |-> 2, virt |-> 8]}
StepOnly == {StepInput}
=============================================================================
