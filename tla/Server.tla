-------------------------------- MODULE Server --------------------------------
(***************************************************************************)
(* The gRPC service (internal/server) in front of the disk service.  An    *)
(* RPC turns its protobuf request into a call of the disk service, waits   *)
(* for it, and turns its record into a protobuf answer or its error into a *)
(* status code.  The errors are followed through the handlers: the disk    *)
(* service passes those of the store on (wrapped), and makes its own of    *)
(* everything else.                                                        *)
(***************************************************************************)
EXTENDS DiskService

CONSTANTS
    CreateRequests,   \* the CreateDiskRequests of clients (disk name aside)
    Reads             \* the reading RPCs clients call

\* pb.ProvisionMode.  Enums are open in proto3: other numbers arrive too.
Modes == {0, 1, 2, 3}

ASSUME ServerAssumption ==
    /\ CreateRequests \subseteq
          [vg : VGs \cup {NoVG}, mode : Modes, size : Nat, virt : Nat]
    /\ Reads \subseteq {"get_disk", "list_disks", "list_attachments",
                        "node_status", "cluster_status"}

VARIABLES
    call,       \* call[w]: the CreateDiskRequest w serves
    err,        \* err[w]: the error w's handler is going to return
    counted,    \* counted[w]: the disks GetClusterStatus has counted
    answer,     \* the answer given in the last step, None if there was none
    saw         \* history: saw[w]: the values w's disk and attachment have
                \* had in the catalog since w's call began

serverVars == <<call, err, counted, answer, saw>>
svars == <<vars, serverVars>>

ServerInit ==
    /\ Init
    /\ call = [w \in Workers |-> None]
    /\ err = [w \in Workers |-> "none"]
    /\ counted = [w \in Workers |-> None]
    /\ answer = None
    /\ saw = [w \in Workers |-> {}]

-----------------------------------------------------------------------------
(* Conversions.                                                             *)

modeFromProto(m) == IF m = 1 THEN "thick" ELSE IF m = 2 THEN "thin" ELSE "unspecified"

\* MUTANT of modeToProto: the numbers of thick and thin are swapped.
modeToProtoSwapped(m) == IF m = "thick" THEN 2 ELSE IF m = "thin" THEN 1 ELSE 0

modeToProto(m) == IF m = "thick" THEN 1 ELSE IF m = "thin" THEN 2 ELSE 0

diskToProto(d, r) ==
    [disk |-> d, vg |-> r.vg, mode |-> modeToProto(r.mode), size |-> r.size, virt |-> r.virt]
attachmentToProto(a) == [disk |-> a.disk, vm |-> a.vm, host |-> a.host, tgt |-> a.tgt]

toGRPCError(e) ==
    IF e = "ErrNotFound" THEN "NOT_FOUND"
    ELSE IF e = "ErrAlreadyExists" THEN "ALREADY_EXISTS"
    ELSE IF e = "none" THEN "OK"
    ELSE "INTERNAL"

\* disk.CreateInput from the request
CreateInput(q) == [q EXCEPT !.mode = modeFromProto(q.mode)]

-----------------------------------------------------------------------------
(* Which error a step of a handler leaves it with.                          *)

\* The calls whose errors a handler returns, and where it goes on then.
FailsTo ==
    [l \in PCs |->
        CASE l \in {"get", "lock", "wait", "x_att", "a_pick", "a_libvirt"} -> {"idle"}
          [] l \in {"c_get", "c_lv", "d_list", "d_lv", "e_lv", "e_persist"} -> {"unlock"}
          [] l \in {"c_header", "c_persist"} -> {"c_undo"}
          [] l = "a_persist" -> {"a_undo"}
          [] l = "detach" -> {"idle", "unlock"}
          [] OTHER -> {}]

\* the calls of the store that may refuse: reads and conditional writes
StoreCalls == {"get", "c_get", "c_persist", "e_persist", "x_att", "a_persist"}

\* MUTANT of Refusal: the record is not looked at, any failure is a refusal.
RefusalBlind(w) ==
    CASE pc[w] \in {"get", "e_persist", "x_att"} -> {"ErrNotFound"}
      [] pc[w] \in {"c_get", "c_persist", "a_persist"} -> {"ErrAlreadyExists"}
      [] OTHER -> {}

\* the sentinel error the store refuses w's call with
Refusal(w) ==
    LET known(a) == atts[<<a.disk, a.vm>>] # None IN
    CASE pc[w] \in {"get", "e_persist"} /\ disks[Disk(w)] = None -> {"ErrNotFound"}
      [] pc[w] = "x_att" /\ ~known(req[w]) -> {"ErrNotFound"}
      [] pc[w] \in {"c_get", "c_persist"} /\ disks[Disk(w)] # None -> {"ErrAlreadyExists"}
      [] pc[w] = "a_persist" /\ known(cur[w]) -> {"ErrAlreadyExists"}
      [] OTHER -> {}

\* a delete in the store fails or has been done; it never refuses
DeleteErrors(w) ==
    LET mayFail == StoreErr(w) \/ Late(w)
        gone == IF pc[w] = "d_record" THEN disks'[Disk(w)] = None
                ELSE /\ atts'[<<cur[w].disk, cur[w].vm>>] = None
                     /\ pc'[w] # "unlock"
    IN  {e \in {err[w]} : StoreOk(w) /\ (mayFail => gone)}
          \cup {e \in {"other"} : mayFail /\ pc'[w] \in {"unlock", "idle"}}

\* the errors w may be left with by the step it takes; what is no sentinel of
\* the store stays what it is: an error of a tool, of etcd or of the service
ErrorsLeft(w) ==
    IF pc[w] \in {"detached", "d_record"} THEN DeleteErrors(w)
    ELSE IF pc'[w] \notin FailsTo[pc[w]] THEN {err[w]}
    ELSE IF pc[w] \notin StoreCalls THEN {"other"}
    ELSE {e \in Refusal(w) : StoreOk(w)} \cup {e \in {"other"} : StoreErr(w) \/ Late(w)}

-----------------------------------------------------------------------------
(* The RPCs.                                                                *)

\* the catalog entries w's request names: its disk, and its attachment if it
\* names a VM
Named(r, ds, as) ==
    {[disk |-> ds[r.disk]]} \cup
        IF Unlocked(r.op) THEN {[att |-> as[<<r.disk, r.vm>>]]} ELSE {}

\* what every handler in flight has seen once this step is done
Watch ==
    saw' = [w \in Workers |->
              IF req'[w] = None THEN {} ELSE saw[w] \cup Named(req'[w], disks', atts')]

\* w is between RPCs
Ready(w) == At(w, "idle") /\ counted[w] = None

\* CreateDisk, up to the lock
RpcCreate(w) ==
    /\ Ready(w)
    /\ \E q \in CreateRequests :
          /\ CreateInput(q) \in CreateInputs
          /\ CallCreate(w)
          /\ rec'[w] = normaliseCreate(CreateInput(q))
          /\ call' = [call EXCEPT ![w] = q]
    /\ answer' = None
    /\ UNCHANGED <<err, counted>>
    /\ Watch

\* DeleteDisk, ExtendDisk, AttachDisk and DetachDisk, up to the first read.
\* Only the thin manager extends by percent.
RpcNamed(w) ==
    /\ Ready(w)
    /\ CallNamed(w)
    /\ req'[w].op = "extend" => req'[w].in.pct = 0
    /\ answer' = None
    /\ UNCHANGED <<call, err, counted>>
    /\ Watch

\* The disk service refuses the input.  The answer is no status of its own.
RpcRefused(w) ==
    /\ Ready(w)
    /\ \/ /\ "create" \in Ops
          /\ \E q \in CreateRequests : ~Acceptable(CreateInput(q))
       \/ /\ "extend" \in Ops
          /\ \E in \in ExtendInputs : in.pct = 0 /\ ~ValidExtend(in)
    /\ answer' = [to |-> w, req |-> None, code |-> toGRPCError("other"), body |-> None]
    /\ UNCHANGED <<vars, call, err, counted, saw>>

\* what a successful call returns
Body(w) ==
    IF req[w].op \in {"create", "extend"} THEN diskToProto(Disk(w), rec[w])
    ELSE IF req[w].op = "attach" THEN attachmentToProto(cur[w])
    ELSE None

\* A step of the handler; at its end the RPC answers.
RpcStep(w) ==
    /\ Handler(w)
    /\ \E e \in ErrorsLeft(w) :
          IF pc'[w] = "idle"
          THEN /\ err' = [err EXCEPT ![w] = "none"]
               /\ call' = [call EXCEPT ![w] = None]
               /\ answer' = [to |-> w, req |-> req[w], code |-> toGRPCError(e),
                             body |-> IF e = "none" THEN Body(w) ELSE None]
          ELSE /\ err' = [err EXCEPT ![w] = e]
               /\ UNCHANGED call
               /\ answer' = None
    /\ UNCHANGED counted
    /\ Watch

\* Get, ListDisks(vg) and ListAttachments(disk, vm) of the catalog; None
\* stands for the empty filter.
DiskList(g) ==
    {diskToProto(d, disks[d]) :
        d \in {d \in Disks : disks[d] # None /\ (g = None \/ disks[d].vg = g)}}
AttachmentList(d, vm) ==
    {attachmentToProto(atts[k]) :
        k \in {k \in Disks \X VMs :
                  atts[k] # None /\ (d = None \/ k[1] = d) /\ (vm = None \/ k[2] = vm)}}

\* a read answers at once
Tells(w, op, code, body) ==
    /\ answer' = [to |-> w, req |-> [op |-> op], code |-> code, body |-> body]
    /\ UNCHANGED <<vars, call, err, saw>>

\* GetDisk, ListDisks, ListAttachments: one call of the store
RpcRead(w) ==
    /\ Ready(w)
    /\ \/ /\ "get_disk" \in Reads
          /\ \E d \in Disks :
                IF disks[d] = None
                THEN Tells(w, "get_disk", toGRPCError("ErrNotFound"), None)
                ELSE Tells(w, "get_disk", "OK", diskToProto(d, disks[d]))
       \/ /\ "list_disks" \in Reads
          /\ \E g \in VGs \cup {None} : Tells(w, "list_disks", "OK", DiskList(g))
       \/ /\ "list_attachments" \in Reads
          /\ \E d \in Disks \cup {None}, vm \in VMs \cup {None} :
                Tells(w, "list_attachments", "OK", AttachmentList(d, vm))
       \/ /\ Reads # {} /\ StoreErr(w)
          /\ Tells(w, "read", toGRPCError("other"), None)
    /\ UNCHANGED counted

\* GetNodeStatus: the volume groups as lvm reports them
RpcNodeStatus(w) ==
    /\ Ready(w) /\ "node_status" \in Reads
    /\ \/ Tells(w, "node_status", "OK",
                {[vg |-> g, size |-> Capacity[g], free |-> Free(g)] : g \in VGs})
       \/ CallErr(w) /\ Tells(w, "node_status", toGRPCError("other"), None)
    /\ UNCHANGED counted

\* GetClusterStatus counts the disks ...
RpcClusterStatus(w) ==
    /\ Ready(w) /\ "cluster_status" \in Reads
    /\ \/ /\ counted' = [counted EXCEPT ![w] = Cardinality(DiskList(None))]
          /\ answer' = None
          /\ UNCHANGED <<vars, call, err, saw>>
       \/ /\ StoreErr(w)
          /\ Tells(w, "cluster_status", toGRPCError("other"), None)
          /\ UNCHANGED counted

\* ... and then the attachments.  Every daemon calls itself the leader.
RpcClusterStatusEnds(w) ==
    /\ At(w, "idle") /\ counted[w] # None
    /\ \/ Tells(w, "cluster_status", "OK",
                [disks |-> counted[w], atts |-> Cardinality(AttachmentList(None, None)),
                 leader |-> NodeOf[w]])
       \/ StoreErr(w) /\ Tells(w, "cluster_status", toGRPCError("other"), None)
    /\ counted' = [counted EXCEPT ![w] = None]

\* steps the server has no part in
Elsewhere ==
    /\ \/ \E n \in Nodes : DaemonStep(n) /\ UNCHANGED diskVars
       \/ \E w \in Workers : CancelCtx(w)
    /\ answer' = None
    /\ UNCHANGED <<call, err, counted>>
    /\ Watch

ServerNext ==
    \/ Elsewhere
    \/ \E w \in Workers :
          \/ RpcCreate(w) \/ RpcNamed(w) \/ RpcRefused(w) \/ RpcStep(w)
          \/ RpcRead(w) \/ RpcNodeStatus(w)
          \/ RpcClusterStatus(w) \/ RpcClusterStatusEnds(w)

ServerSpec == ServerInit /\ [][ServerNext]_svars

-----------------------------------------------------------------------------
(* What the answers mean.                                                   *)

\* the values w's catalog entry of the given kind had during the call, the
\* step of the answer included
DiskSeen(w) == {s.disk : s \in {s \in saw[w] : "disk" \in DOMAIN s}} \cup {disks'[Disk(w)]}
AttSeen(w) ==
    {s.att : s \in {s \in saw[w] : "att" \in DOMAIN s}} \cup {atts'[<<Disk(w), req[w].vm>>]}

\* the disk in the answer is the one the client described
AsRequested(q, b) ==
    /\ q.vg # NoVG => b.vg = q.vg
    /\ q.mode \in {1, 2} => b.mode = q.mode
    /\ q.size # 0 => b.size = q.size
    /\ q.virt # 0 => b.virt = q.virt

\* what an answer to w's request may claim
Truthful(w, a) ==
    LET op == req[w].op IN
    CASE a.code = "OK" /\ op = "create" ->
            /\ \E r \in DiskSeen(w) \ {None} : a.body = diskToProto(Disk(w), r)
            /\ AsRequested(call[w], a.body)
      [] a.code = "OK" /\ op = "extend" ->
            \E r \in DiskSeen(w) \ {None} : a.body = diskToProto(Disk(w), r)
      [] a.code = "OK" /\ op = "delete" -> None \in DiskSeen(w)
      [] a.code = "OK" /\ op = "attach" ->
            \E r \in AttSeen(w) \ {None} : a.body = attachmentToProto(r)
      [] a.code = "OK" /\ op = "detach" -> None \in AttSeen(w)
      [] a.code = "NOT_FOUND" ->
            None \in DiskSeen(w) \/ (op = "detach" /\ None \in AttSeen(w))
      [] a.code = "ALREADY_EXISTS" ->
            IF op = "attach" THEN AttSeen(w) # {None} ELSE DiskSeen(w) # {None}
      [] OTHER -> TRUE

\* Answers are true of a moment in the call, whatever other calls do: what OK
\* returns was in the catalog (for a delete or detach: was gone), and is the
\* disk that was asked for; NOT_FOUND and ALREADY_EXISTS speak of a disk or
\* attachment that was missing or there; a failing store is neither.
AnswersTrue ==
    [][\A w \in Workers :
          pc[w] # "idle" /\ pc'[w] = "idle" /\ Runs(w) => Truthful(w, answer')]_svars
=============================================================================
