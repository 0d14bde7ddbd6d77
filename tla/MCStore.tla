-------------------------------- MODULE MCStore --------------------------------
(* Instances of Store for TLC.                                              *)
EXTENDS Store, TLC

CONSTANTS c1, c2

\* names of which one begins with the other, without a separator in them
PlainDisks == {<<"a">>, <<"a", "b">>}
PlainVMs == {<<"v">>}
\* names that hold the separator of AttachmentKey
PipedDisks == {<<"a">>, <<"a", "|", "v">>}
PipedVMs == {<<"v">>, <<"v", "|", "v">>}

DiskOf(g) == [name |-> <<"a">>, vg |-> g, version |-> 1]
AttOf(d, v) == [disk |-> d, vm |-> v, version |-> 1]

\* every method once; the attachments of all disks are created, those of
\* one are read and deleted
MCRequests ==
    {[op |-> "CreateDisk", rec |-> DiskOf("g1")], [op |-> "UpdateDisk", rec |-> DiskOf("g2")],
     [op |-> "GetDisk", name |-> <<"a">>], [op |-> "DeleteDisk", name |-> <<"a">>],
     [op |-> "ListDisks", vg |-> "g1"],
     [op |-> "GetAttachment", disk |-> <<"a">>, vm |-> <<"v">>],
     [op |-> "DeleteAttachment", disk |-> <<"a">>, vm |-> <<"v">>],
     [op |-> "ListAttachments", disk |-> <<"a">>, vm |-> Blank]}
      \cup {[op |-> "CreateAttachment", rec |-> AttOf(d, v)] : d \in Disks, v \in VMs}

\* one attachment is created, the other one asked for
PipedRequests ==
    {[op |-> "CreateAttachment", rec |-> AttOf(<<"a", "|", "v">>, <<"v">>)],
     [op |-> "DeleteAttachment", disk |-> <<"a", "|", "v">>, vm |-> <<"v">>],
     [op |-> "GetAttachment", disk |-> <<"a">>, vm |-> <<"v", "|", "v">>]}

MCSymmetry == Permutations({c1, c2})
=============================================================================
