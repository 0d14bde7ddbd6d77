------------------------------ MODULE DiskService ------------------------------
(***************************************************************************)
(* The disk service (internal/disk): CreateDisk, DeleteDisk, ExtendDisk,   *)
(* ExtendByPercent, AttachDisk and DetachDisk as sequences of the external *)
(* calls they make: the lock of a volume group (VGLock), the catalog       *)
(* (internal/store), LVM (internal/lvm), qemu-img/dd and libvirt           *)
(* (internal/libvirtx).  One action is one external call, so the calls of  *)
(* several workers, on one daemon or several, interleave in every way the  *)
(* code allows.  Service.mu is never locked by the code, hence absent.     *)
(*                                                                         *)
(* The catalog and the storage are shared by all daemons of a cluster; a   *)
(* daemon reaches only the libvirt of its own host.  A worker whose        *)
(* process died stays at the call it was about to make.                    *)
(***************************************************************************)
EXTENDS VGLock, FiniteSetsExt

CONSTANTS
    Disks,              \* disk names
    VMs,                \* libvirt domains
    VMHost,             \* VMHost[vm]: the host whose libvirt defines vm
    Slots,              \* number of virtio letters, vdb..vdz in the code
    Capacity,           \* Capacity[g]: bytes of volume group g
    Extent,             \* bytes of a physical extent
    Word,               \* sizes are counted modulo Word, 2^64 in the code
    DefaultVG,          \* Service.DefaultVG, NoVG when not configured
    DefaultThinInitial, \* Service.DefaultThinInitial
    CreateInputs,       \* the CreateDisk inputs clients use (name aside)
    ExtendInputs,       \* the ExtendDisk and ExtendByPercent inputs
    Forces,             \* the values of DeleteDisk's force clients use
    AttachTargets,      \* the target devs clients ask for, 0 for "pick one"
    Ops,                \* the operations clients call
    None                \* absence of a record, a volume, a device

\* Target devs: 1..Slots stand for vdb, vdc, ..., Slots + 1 for "vdaa".
Targets == 1 .. Slots + 1

\* store.DiskRecord.  DevicePath is a function of vg and the disk's name.
DiskRec == [vg : VGs, mode : {"thick", "thin"}, size : Nat, virt : Nat]
\* store.AttachmentRecord
AttRec == [disk : Disks, vm : VMs, host : Hosts, tgt : Targets]
\* A logical volume: what lvs reports and what an image reader would find.
LVRec == [size : Nat, fmt : {"raw", "qcow2"}]
\* A disk of a domain: its source, its driver type, the size the guest sees.
DevRec == [vg : VGs, disk : Disks, fmt : {"raw", "qcow2"}, cap : Nat]

CreateIn == [vg : VGs \cup {NoVG}, mode : {"unspecified", "thick", "thin"},
             size : Nat, virt : Nat]
ExtendIn == [size : Nat, delta : Nat, pct : Nat]

ASSUME DiskAssumption ==
    /\ VMHost \in [VMs -> Hosts]
    /\ Slots \in Nat
    /\ Capacity \in [VGs -> Nat]
    /\ Extent \in Nat \ {0}
    /\ Word \in Nat \ {0}
    /\ DefaultVG \in VGs \cup {NoVG}
    /\ DefaultThinInitial \in Nat
    /\ CreateInputs \subseteq CreateIn
    /\ ExtendInputs \subseteq ExtendIn
    /\ Forces \subseteq BOOLEAN
    /\ AttachTargets \subseteq Targets \cup {0}

\* A request a worker serves: the inputs of the call.
Requests ==
    [op : {"create"}, disk : Disks]
        \cup [op : {"delete"}, disk : Disks, force : BOOLEAN]
        \cup [op : {"extend"}, disk : Disks, in : ExtendIn]
        \cup [op : {"attach"}, disk : Disks, vm : VMs, tgt : Targets \cup {0}]
        \cup [op : {"detach"}, disk : Disks, vm : VMs]

\* The placeholder is none of the things it may stand in for.
ASSUME NoneAssumption ==
    None \notin DiskRec \cup AttRec \cup LVRec \cup DevRec \cup Requests

VARIABLES
    disks,      \* the catalog's disk records
    atts,       \* the catalog's attachment records, by <<disk, vm>>
    lvs,        \* the logical volumes, by <<volume group, name>>
    devs,       \* the domains' disks, by <<vm, target>>
    pc,         \* pc[w]: the call w makes next
    req,        \* req[w]: the request w serves
    rec,        \* rec[w]: the disk record w builds, or its copy of the catalog's
    todo,       \* todo[w]: attachments w's loop has not handled yet
    cur,        \* cur[w]: the attachment w is working on
    ctx,        \* ctx[w]: "live" or "done", the state of the call's context
    lost,       \* history: disks whose record a failed call left without LV
    leaked      \* history: disks a failed call left an LV without record

local == <<req, rec, todo, cur, ctx>>
diskVars == <<disks, atts, lvs, devs, pc, req, rec, todo, cur, ctx, lost, leaked>>
vars == <<lockVars, diskVars>>

PCs == {"idle", "get", "lock", "wait", "unlock",
        "c_get", "c_lv", "c_header", "c_persist", "c_undo",
        "d_list", "detach", "detached", "d_lv", "d_record",
        "e_lv", "e_persist", "e_list", "e_resize",
        "a_pick", "a_libvirt", "a_persist", "a_undo", "x_att"}

DiskTypeOK ==
    /\ disks \in [Disks -> DiskRec \cup {None}]
    /\ atts \in [Disks \X VMs -> AttRec \cup {None}]
    /\ lvs \in [VGs \X Disks -> LVRec \cup {None}]
    /\ devs \in [VMs \X Targets -> DevRec \cup {None}]
    /\ pc \in [Workers -> PCs]
    /\ req \in [Workers -> Requests \cup {None}]
    /\ rec \in [Workers -> DiskRec \cup {None}]
    /\ todo \in [Workers -> SUBSET AttRec]
    /\ cur \in [Workers -> AttRec \cup {None}]
    /\ ctx \in [Workers -> {"live", "done"}]
    /\ lost \subseteq Disks
    /\ leaked \subseteq Disks

DiskInit ==
    /\ disks = [d \in Disks |-> None]
    /\ atts = [a \in Disks \X VMs |-> None]
    /\ lvs = [v \in VGs \X Disks |-> None]
    /\ devs = [t \in VMs \X Targets |-> None]
    /\ pc = [w \in Workers |-> "idle"]
    /\ req = [w \in Workers |-> None]
    /\ rec = [w \in Workers |-> None]
    /\ todo = [w \in Workers |-> {}]
    /\ cur = [w \in Workers |-> None]
    /\ ctx = [w \in Workers |-> "live"]
    /\ lost = {}
    /\ leaked = {}

-----------------------------------------------------------------------------
(* Sizes.                                                                   *)

\* LVM allocates whole extents.
RoundUp(s) == ((s + Extent - 1) \div Extent) * Extent
\* lvextend -l +<pct>%LV grows by at least pct percent of the volume's size
Percent(lv, pct) == RoundUp((lv.size * pct + 99) \div 100)

\* bytes of g that are not allocated
Free(g) ==
    Capacity[g] - MapThenSumSet(LAMBDA d : lvs[<<g, d>>].size,
                                {d \in Disks : lvs[<<g, d>>] # None})

-----------------------------------------------------------------------------
(* normaliseCreate.                                                         *)

NormVG(in) == IF in.vg = NoVG THEN DefaultVG ELSE in.vg
NormMode(in) == IF in.mode = "thin" THEN "thin" ELSE "thick"
NormSize(in) ==
    IF NormMode(in) = "thin" /\ in.size = 0 THEN DefaultThinInitial ELSE in.size
NormVirt(in) ==
    IF NormMode(in) = "thick" /\ in.virt = 0 THEN in.size ELSE in.virt

normaliseCreate(in) ==
    [vg |-> NormVG(in), mode |-> NormMode(in),
     size |-> NormSize(in), virt |-> NormVirt(in)]

\* the inputs normaliseCreate returns no error for
Acceptable(in) ==
    /\ NormVG(in) # NoVG
    /\ NormSize(in) > 0
    /\ NormMode(in) = "thin" => NormVirt(in) > NormSize(in)

\* exactly one of size_bytes and delta_bytes; or a percentage above zero
ValidExtend(in) ==
    IF in.pct > 0 THEN in.size = 0 /\ in.delta = 0
                  ELSE (in.size = 0) # (in.delta = 0)

-----------------------------------------------------------------------------
(* Outcomes of external calls, and how a handler goes on.                   *)

\* exec.CommandContext and the etcd client give up once the context is done;
\* the Bolt store of standalone mode does not look at it.
CallOk(w) == ctx[w] = "live"
CallErr(w) == MayFail \/ ctx[w] = "done"
StoreOk(w) == CallOk(w) \/ Locker = "noop"
StoreErr(w) == MayFail \/ (ctx[w] = "done" /\ Locker = "etcd")
\* the call takes effect but the handler sees an error
Late(w) == MayBeLate /\ ctx[w] = "live"

At(w, l) == Runs(w) /\ pc[w] = l
Goto(w, l) == pc' = [pc EXCEPT ![w] = l]

\* The handler returns to its caller.
Return(w) ==
    /\ Goto(w, "idle")
    /\ req' = [req EXCEPT ![w] = None]
    /\ rec' = [rec EXCEPT ![w] = None]
    /\ todo' = [todo EXCEPT ![w] = {}]
    /\ cur' = [cur EXCEPT ![w] = None]
    /\ ctx' = [ctx EXCEPT ![w] = "live"]

\* An operation that runs without the lock.
Unlocked(op) == op \in {"attach", "detach"}

\* The handler returns an error, through the deferred release if it has one.
Abort(w) ==
    IF Unlocked(req[w].op) THEN Return(w)
    ELSE Goto(w, "unlock") /\ UNCHANGED local

Host(w) == HostOf[NodeOf[w]]
Disk(w) == req[w].disk
LV(w) == <<rec[w].vg, Disk(w)>>
LVOpenOn(h, v) ==
    \E t \in VMs \X Targets :
        /\ VMHost[t[1]] = h
        /\ devs[t] # None
        /\ <<devs[t].vg, devs[t].disk>> = v
\* lvremove -f refuses a volume that a process of this host has open.
Removable(w) == lvs[LV(w)] # None /\ ~LVOpenOn(Host(w), LV(w))

AttachmentsOf(d) ==
    {atts[<<d, vm>>] : vm \in {vm \in VMs : atts[<<d, vm>>] # None}}
AttachmentsTo(vm) ==
    {atts[<<d, vm>>] : d \in {d \in Disks : atts[<<d, vm>>] # None}}

-----------------------------------------------------------------------------
(* Calls arrive; the lock.                                                  *)

\* CreateDisk up to the lock.  A refused input changes nothing.
CallCreate(w) ==
    /\ At(w, "idle") /\ "create" \in Ops
    /\ \E d \in Disks, in \in CreateInputs :
          /\ Acceptable(in)
          /\ req' = [req EXCEPT ![w] = [op |-> "create", disk |-> d]]
          /\ rec' = [rec EXCEPT ![w] = normaliseCreate(in)]
    /\ Goto(w, "lock")
    /\ UNCHANGED <<lockVars, disks, atts, lvs, devs, todo, cur, ctx, lost, leaked>>

\* The calls that start by reading the disk's record.
NamedRequests ==
    {r \in [op : {"delete"}, disk : Disks, force : Forces]
             \cup [op : {"extend"}, disk : Disks, in : ExtendInputs]
             \cup [op : {"attach"}, disk : Disks, vm : VMs, tgt : AttachTargets]
             \cup [op : {"detach"}, disk : Disks, vm : VMs] :
        r.op \in Ops /\ (r.op = "extend" => ValidExtend(r.in))}

CallNamed(w) ==
    /\ At(w, "idle")
    /\ \E r \in NamedRequests : req' = [req EXCEPT ![w] = r]
    /\ Goto(w, "get")
    /\ UNCHANGED <<lockVars, disks, atts, lvs, devs, rec, todo, cur, ctx, lost, leaked>>

\* Store.GetDisk, before any lock: the copy is as old as the call from here on.
ReadDisk(w) ==
    /\ At(w, "get")
    /\ \/ /\ StoreOk(w)
          /\ disks[Disk(w)] # None
          /\ rec' = [rec EXCEPT ![w] = disks[Disk(w)]]
          /\ Goto(w, IF req[w].op = "attach" THEN "a_pick"
                     ELSE IF req[w].op = "detach" THEN "x_att" ELSE "lock")
          /\ UNCHANGED <<req, todo, cur, ctx>>
       \/ /\ StoreErr(w) \/ disks[Disk(w)] = None
          /\ Return(w)
    /\ UNCHANGED <<lockVars, disks, atts, lvs, devs, lost, leaked>>

\* the first call of an operation inside the lock
Entry(op) == IF op = "create" THEN "c_get"
             ELSE IF op = "delete" THEN "d_list" ELSE "e_lv"

\* MUTANT of Acquire: the caller goes on without waiting for the lock.
AcquireNoWait(w) ==
    /\ At(w, "lock")
    /\ \/ NoopAcquire(w, rec[w].vg)
       \/ ctx[w] = "live" /\ TryAcquire(w, rec[w].vg)
    /\ Goto(w, Entry(req[w].op))
    /\ UNCHANGED <<disks, atts, lvs, devs, req, rec, todo, cur, ctx, lost, leaked>>

\* Locker.Acquire returns, or waits inside Mutex.Lock
Acquire(w) ==
    /\ At(w, "lock")
    /\ \/ NoopAcquire(w, rec[w].vg)
       \/ ctx[w] = "live" /\ TryAcquire(w, rec[w].vg)
    /\ Goto(w, IF lst'[w] = "held" THEN Entry(req[w].op) ELSE "wait")
    /\ UNCHANGED <<disks, atts, lvs, devs, req, rec, todo, cur, ctx, lost, leaked>>

\* Acquire returns an error: etcd or the context fail, the lease is gone
AcquireFails(w) ==
    /\ At(w, "lock")
    /\ Locker = "etcd"
    /\ \/ CallErr(w) /\ UNCHANGED lockVars
       \/ ~lease[NodeOf[w]] /\ UNCHANGED lockVars
       \/ ctx[w] = "live" /\ TryAcquireLate(w, rec[w].vg)
    /\ Return(w)
    /\ UNCHANGED <<disks, atts, lvs, devs, lost, leaked>>

\* Mutex.Lock comes back from its wait, with the lock or ErrSessionExpired
AcquireWaited(w) ==
    /\ At(w, "wait")
    /\ ctx[w] = "live"
    /\ LockWaitOver(w)
    /\ \/ /\ lst'[w] = "held"
          /\ Goto(w, Entry(req[w].op))
          /\ UNCHANGED local
       \/ /\ lst'[w] = "free"
          /\ Return(w)
    /\ UNCHANGED <<disks, atts, lvs, devs, lost, leaked>>

AcquireGivesUp(w) ==
    /\ At(w, "wait")
    /\ CallErr(w)
    /\ LockWaitFails(w)
    /\ Return(w)
    /\ UNCHANGED <<disks, atts, lvs, devs, lost, leaked>>

\* The deferred release, and the return of the handler.
Release(w) ==
    /\ At(w, "unlock")
    /\ Unlock(w) \/ UnlockFails(w)
    /\ Return(w)
    /\ UNCHANGED <<disks, atts, lvs, devs, lost, leaked>>

\* The client goes away or its deadline passes.
CancelCtx(w) ==
    /\ "cancel" \in Faults
    /\ Runs(w) /\ pc[w] # "idle"
    /\ ctx[w] = "live"
    /\ ctx' = [ctx EXCEPT ![w] = "done"]
    /\ UNCHANGED <<lockVars, disks, atts, lvs, devs, pc, req, rec, todo, cur, lost, leaked>>

-----------------------------------------------------------------------------
(* CreateDisk.                                                              *)

\* Store.GetDisk must say ErrNotFound
CreateGet(w) ==
    /\ At(w, "c_get")
    /\ \/ /\ StoreOk(w)
          /\ disks[Disk(w)] = None
          /\ Goto(w, "c_lv")
       \/ /\ StoreErr(w) \/ disks[Disk(w)] # None
          /\ Goto(w, "unlock")
    /\ UNCHANGED <<lockVars, disks, atts, lvs, devs, local, lost, leaked>>

\* MUTANT of CreateLV: the qcow2 header of a thin disk is never written.
CreateLVNoHeader(w) ==
    /\ At(w, "c_lv")
    /\ lvs[LV(w)] = None /\ RoundUp(rec[w].size) =< Free(rec[w].vg)
    /\ lvs' = [lvs EXCEPT ![LV(w)] = [size |-> RoundUp(rec[w].size), fmt |-> "raw"]]
    /\ Goto(w, "c_persist")
    /\ UNCHANGED <<lockVars, disks, atts, devs, local, lost, leaked>>

\* LVM.CreateLV
CreateLV(w) ==
    LET fits == lvs[LV(w)] = None /\ RoundUp(rec[w].size) =< Free(rec[w].vg)
        made == [lvs EXCEPT ![LV(w)] = [size |-> RoundUp(rec[w].size), fmt |-> "raw"]]
    IN
    /\ At(w, "c_lv")
    /\ \/ /\ CallOk(w) /\ fits
          /\ lvs' = made
          /\ Goto(w, IF rec[w].mode = "thin" THEN "c_header" ELSE "c_persist")
          /\ UNCHANGED leaked
       \/ /\ CallErr(w) \/ ~fits
          /\ Goto(w, "unlock")
          /\ UNCHANGED <<lvs, leaked>>
       \/ /\ Late(w) /\ fits
          /\ lvs' = made
          /\ Goto(w, "unlock")
          /\ leaked' = leaked \cup {Disk(w)}
    /\ UNCHANGED <<lockVars, disks, atts, devs, local, lost>>

\* makeQcow2Header, then DDOver: the header lands on the volume
CreateHeader(w) ==
    LET written == IF lvs[LV(w)] = None THEN lvs
                   ELSE [lvs EXCEPT ![LV(w)].fmt = "qcow2"]
    IN
    /\ At(w, "c_header")
    /\ \/ CallOk(w) /\ lvs' = written /\ Goto(w, "c_persist")
       \/ CallErr(w) /\ lvs' = lvs /\ Goto(w, "c_undo")
       \/ Late(w) /\ lvs' = written /\ Goto(w, "c_undo")
    /\ UNCHANGED <<lockVars, disks, atts, devs, local, lost, leaked>>

\* MUTANT of CreatePersist: the rollback runs after a success too.
CreatePersistUndone(w) ==
    /\ At(w, "c_persist")
    /\ StoreOk(w)
    /\ disks' = IF disks[Disk(w)] = None THEN [disks EXCEPT ![Disk(w)] = rec[w]] ELSE disks
    /\ Goto(w, "c_undo")
    /\ UNCHANGED <<lockVars, atts, lvs, devs, local, lost, leaked>>

\* MUTANT of CreatePersist: a failure is returned without the rollback.
CreatePersistNoUndo(w) ==
    /\ At(w, "c_persist")
    /\ \/ /\ StoreOk(w) /\ disks[Disk(w)] = None
          /\ disks' = [disks EXCEPT ![Disk(w)] = rec[w]]
       \/ /\ StoreErr(w) \/ disks[Disk(w)] # None
          /\ UNCHANGED disks
    /\ Goto(w, "unlock")
    /\ UNCHANGED <<lockVars, atts, lvs, devs, local, lost, leaked>>

\* Store.CreateDisk
CreatePersist(w) ==
    LET d == Disk(w) IN
    /\ At(w, "c_persist")
    /\ \/ /\ StoreOk(w) /\ disks[d] = None
          /\ disks' = [disks EXCEPT ![d] = rec[w]]
          /\ Goto(w, "unlock")
          /\ UNCHANGED lost
       \/ /\ StoreErr(w) \/ disks[d] # None
          /\ Goto(w, "c_undo")
          /\ UNCHANGED <<disks, lost>>
       \/ /\ Late(w) /\ disks[d] = None
          /\ disks' = [disks EXCEPT ![d] = rec[w]]
          /\ Goto(w, "c_undo")
          /\ lost' = lost \cup {d}
    /\ UNCHANGED <<lockVars, atts, lvs, devs, local, leaked>>

\* The rollback RemoveLV; it runs under the call's context and its error is
\* dropped.
CreateUndo(w) ==
    /\ At(w, "c_undo")
    /\ \/ /\ CallOk(w) /\ Removable(w)
          /\ lvs' = [lvs EXCEPT ![LV(w)] = None]
          /\ UNCHANGED leaked
       \/ /\ CallErr(w) \/ ~Removable(w)
          /\ leaked' = IF lvs[LV(w)] = None THEN leaked ELSE leaked \cup {Disk(w)}
          /\ UNCHANGED lvs
    /\ Goto(w, "unlock")
    /\ UNCHANGED <<lockVars, disks, atts, devs, local, lost>>

-----------------------------------------------------------------------------
(* DeleteDisk, DetachDisk.                                                  *)

\* Store.ListAttachments and the test of force
DeleteList(w) ==
    LET found == AttachmentsOf(Disk(w)) IN
    /\ At(w, "d_list")
    /\ \/ /\ StoreOk(w) /\ (found = {} \/ req[w].force)
          /\ todo' = [todo EXCEPT ![w] = found]
          /\ Goto(w, IF found = {} THEN "d_lv" ELSE "detach")
       \/ /\ StoreErr(w) \/ (found # {} /\ ~req[w].force)
          /\ Goto(w, "unlock")
          /\ UNCHANGED todo
    /\ UNCHANGED <<lockVars, disks, atts, lvs, devs, req, rec, cur, ctx, lost, leaked>>

\* DetachDisk's Store.GetAttachment
DetachGet(w) ==
    LET found == atts[<<Disk(w), req[w].vm>>] IN
    /\ At(w, "x_att")
    /\ \/ /\ StoreOk(w) /\ found # None
          /\ todo' = [todo EXCEPT ![w] = {found}]
          /\ Goto(w, "detach")
          /\ UNCHANGED <<req, rec, cur, ctx>>
       \/ /\ StoreErr(w) \/ found = None
          /\ Return(w)
    /\ UNCHANGED <<lockVars, disks, atts, lvs, devs, lost, leaked>>

\* detachLocked: Libvirt.DetachDisk on this host's libvirt.  virsh fails for
\* a domain it does not have and for a target that is not there.
DetachLibvirt(w) ==
    /\ At(w, "detach")
    /\ \E a \in todo[w] :
          LET t == <<a.vm, a.tgt>>
              there == VMHost[a.vm] = Host(w) /\ devs[t] # None
          IN
          \/ /\ CallOk(w) /\ there
             /\ devs' = [devs EXCEPT ![t] = None]
             /\ todo' = [todo EXCEPT ![w] = @ \ {a}]
             /\ cur' = [cur EXCEPT ![w] = a]
             /\ Goto(w, "detached")
             /\ UNCHANGED <<req, rec, ctx>>
          \/ /\ CallErr(w) \/ ~there
             /\ Abort(w)
             /\ UNCHANGED devs
          \/ /\ Late(w) /\ there
             /\ devs' = [devs EXCEPT ![t] = None]
             /\ Abort(w)
    /\ UNCHANGED <<lockVars, disks, atts, lvs, lost, leaked>>

\* MUTANT of DetachStore: the attachment's record stays.
DetachStoreForgets(w) ==
    /\ At(w, "detached")
    /\ \/ Unlocked(req[w].op) /\ Return(w)
       \/ /\ ~Unlocked(req[w].op)
          /\ Goto(w, IF todo[w] = {} THEN "d_lv" ELSE "detach")
          /\ UNCHANGED local
    /\ UNCHANGED <<lockVars, disks, atts, lvs, devs, lost, leaked>>

\* detachLocked: Store.DeleteAttachment, then the next attachment
DetachStore(w) ==
    LET gone == [atts EXCEPT ![<<cur[w].disk, cur[w].vm>>] = None] IN
    /\ At(w, "detached")
    /\ \/ /\ StoreOk(w)
          /\ atts' = gone
          /\ \/ Unlocked(req[w].op) /\ Return(w)
             \/ /\ ~Unlocked(req[w].op)
                /\ Goto(w, IF todo[w] = {} THEN "d_lv" ELSE "detach")
                /\ cur' = [cur EXCEPT ![w] = None]
                /\ UNCHANGED <<req, rec, todo, ctx>>
       \/ StoreErr(w) /\ Abort(w) /\ UNCHANGED atts
       \/ Late(w) /\ atts' = gone /\ Abort(w)
    /\ UNCHANGED <<lockVars, disks, lvs, devs, lost, leaked>>

\* LVM.RemoveLV
DeleteLV(w) ==
    /\ At(w, "d_lv")
    /\ \/ /\ CallOk(w) /\ Removable(w)
          /\ lvs' = [lvs EXCEPT ![LV(w)] = None]
          /\ Goto(w, "d_record")
          /\ UNCHANGED lost
       \/ /\ CallErr(w) \/ ~Removable(w)
          /\ Goto(w, "unlock")
          /\ UNCHANGED <<lvs, lost>>
       \/ /\ Late(w) /\ Removable(w)
          /\ lvs' = [lvs EXCEPT ![LV(w)] = None]
          /\ Goto(w, "unlock")
          /\ lost' = lost \cup {Disk(w)}
    /\ UNCHANGED <<lockVars, disks, atts, devs, local, leaked>>

\* Store.DeleteDisk
DeleteRecord(w) ==
    /\ At(w, "d_record")
    /\ \/ /\ StoreOk(w) \/ Late(w)
          /\ disks' = [disks EXCEPT ![Disk(w)] = None]
          /\ UNCHANGED lost
       \/ /\ StoreErr(w)
          /\ lost' = lost \cup {Disk(w)}
          /\ UNCHANGED disks
    /\ Goto(w, "unlock")
    /\ UNCHANGED <<lockVars, atts, lvs, devs, local, leaked>>

-----------------------------------------------------------------------------
(* ExtendDisk and ExtendByPercent.                                          *)

\* the size lvextend leaves a volume of the given size at
Extended(lv, in) ==
    IF in.pct > 0 THEN lv.size + Percent(lv, in.pct)
    ELSE IF in.size > 0 THEN RoundUp(in.size)
    ELSE lv.size + RoundUp(in.delta)

\* MUTANT of NewSize: the delta is taken for the new size.
NewSizeIsDelta(r, in) == IF in.size > 0 THEN in.size ELSE in.delta

\* the size the handler writes to the record, from the copy it read
NewSize(r, in) ==
    IF in.pct > 0 THEN (r.size + ((r.size * in.pct) % Word) \div 100) % Word
    ELSE IF in.size > 0 THEN in.size
    ELSE (r.size + in.delta) % Word

\* MUTANT of ExtendLV: the error of lvextend is dropped.
ExtendLVUnchecked(w) ==
    /\ At(w, "e_lv")
    /\ CallErr(w)
    /\ rec' = [rec EXCEPT ![w].size = NewSize(rec[w], req[w].in)]
    /\ Goto(w, "e_persist")
    /\ UNCHANGED <<lockVars, disks, atts, lvs, devs, req, todo, cur, ctx, lost, leaked>>

\* LVM.ExtendLVAbsolute, ExtendLVDelta or ExtendLVPercent.  lvextend fails
\* when there is no such volume, nothing to add or not enough space.
ExtendLV(w) ==
    LET in == req[w].in
        old == lvs[LV(w)]
        new == Extended(old, in)
        grows == /\ old # None
                 /\ new > old.size
                 /\ new - old.size =< Free(rec[w].vg)
        grown == [lvs EXCEPT ![LV(w)].size = new]
    IN
    /\ At(w, "e_lv")
    /\ \/ /\ CallOk(w) /\ grows
          /\ lvs' = grown
          /\ rec' = [rec EXCEPT ![w].size = NewSize(rec[w], in)]
          /\ Goto(w, "e_persist")
       \/ /\ CallErr(w) \/ ~grows
          /\ Goto(w, "unlock")
          /\ UNCHANGED <<lvs, rec>>
       \/ /\ Late(w) /\ grows
          /\ lvs' = grown
          /\ Goto(w, "unlock")
          /\ UNCHANGED rec
    /\ UNCHANGED <<lockVars, disks, atts, devs, req, todo, cur, ctx, lost, leaked>>

\* Store.UpdateDisk: the whole copy replaces the record, if there is one
ExtendPersist(w) ==
    LET d == Disk(w)
        updated == [disks EXCEPT ![d] = rec[w]]
    IN
    /\ At(w, "e_persist")
    /\ \/ StoreOk(w) /\ disks[d] # None /\ disks' = updated /\ Goto(w, "e_list")
       \/ (StoreErr(w) \/ disks[d] = None) /\ disks' = disks /\ Goto(w, "unlock")
       \/ Late(w) /\ disks[d] # None /\ disks' = updated /\ Goto(w, "unlock")
    /\ UNCHANGED <<lockVars, atts, lvs, devs, local, lost, leaked>>

\* Store.ListAttachments; an error ends the call, successfully
ExtendList(w) ==
    LET found == AttachmentsOf(Disk(w)) IN
    /\ At(w, "e_list")
    /\ \/ /\ StoreOk(w) /\ found # {}
          /\ todo' = [todo EXCEPT ![w] = found]
          /\ Goto(w, "e_resize")
       \/ /\ StoreErr(w) \/ found = {}
          /\ Goto(w, "unlock")
          /\ UNCHANGED todo
    /\ UNCHANGED <<lockVars, disks, atts, lvs, devs, req, rec, cur, ctx, lost, leaked>>

\* Libvirt.BlockResize for one attachment, on this host's libvirt whatever
\* the attachment's host is.  Its error is dropped.
ExtendResize(w) ==
    /\ At(w, "e_resize")
    /\ \E a \in todo[w] :
          LET t == <<a.vm, a.tgt>>
              there == VMHost[a.vm] = Host(w) /\ devs[t] # None
          IN
          /\ \/ CallOk(w) /\ there /\ devs' = [devs EXCEPT ![t].cap = rec[w].size]
             \/ (CallErr(w) \/ ~there) /\ devs' = devs
          /\ todo' = [todo EXCEPT ![w] = @ \ {a}]
          /\ Goto(w, IF todo[w] = {a} THEN "unlock" ELSE "e_resize")
    /\ UNCHANGED <<lockVars, disks, atts, lvs, req, rec, cur, ctx, lost, leaked>>

-----------------------------------------------------------------------------
(* AttachDisk.                                                              *)

\* the first letter that is free in the catalog, else "vdaa"
pickTargetDev(used) ==
    LET free == 1 .. Slots \ used
    IN  IF free = {} THEN Slots + 1 ELSE CHOOSE t \in free : \A u \in free : t =< u

\* DomainExists, then ListAttachments and pickTargetDev if no target is given
AttachPick(w) ==
    LET r == req[w]
        local_vm == VMHost[r.vm] = Host(w)
        used == {a.tgt : a \in AttachmentsTo(r.vm)}
        tgt == IF r.tgt = 0 THEN pickTargetDev(used) ELSE r.tgt
    IN
    /\ At(w, "a_pick")
    /\ \/ /\ CallOk(w) /\ local_vm
          /\ cur' = [cur EXCEPT ![w] =
                       [disk |-> r.disk, vm |-> r.vm, host |-> Host(w), tgt |-> tgt]]
          /\ Goto(w, "a_libvirt")
          /\ UNCHANGED <<req, rec, todo, ctx>>
       \/ /\ CallErr(w) \/ ~local_vm
          /\ Return(w)
    /\ UNCHANGED <<lockVars, disks, atts, lvs, devs, lost, leaked>>

\* MUTANT of AttachLibvirt: the error of virsh is dropped.
AttachLibvirtUnchecked(w) ==
    /\ At(w, "a_libvirt")
    /\ CallErr(w)
    /\ Goto(w, "a_persist")
    /\ UNCHANGED <<lockVars, disks, atts, lvs, devs, local, lost, leaked>>

\* Libvirt.AttachDisk; virsh fails for a target in use and a missing source
AttachLibvirt(w) ==
    LET t == <<cur[w].vm, cur[w].tgt>>
        can == devs[t] = None /\ lvs[LV(w)] # None
        thin == rec[w].mode = "thin"
        plugged == [devs EXCEPT ![t] =
                      [vg |-> rec[w].vg, disk |-> Disk(w),
                       fmt |-> IF thin THEN "qcow2" ELSE "raw",
                       cap |-> IF thin THEN rec[w].virt ELSE lvs[LV(w)].size]]
    IN
    /\ At(w, "a_libvirt")
    /\ \/ /\ CallOk(w) /\ can
          /\ devs' = plugged
          /\ Goto(w, "a_persist")
          /\ UNCHANGED local
       \/ /\ CallErr(w) \/ ~can
          /\ UNCHANGED devs
          /\ Return(w)
       \/ /\ Late(w) /\ can
          /\ devs' = plugged
          /\ Return(w)
    /\ UNCHANGED <<lockVars, disks, atts, lvs, lost, leaked>>

\* MUTANT of AttachPersist: a failure is returned without the rollback.
AttachPersistNoUndo(w) ==
    LET k == <<cur[w].disk, cur[w].vm>> IN
    /\ At(w, "a_persist")
    /\ \/ /\ StoreOk(w) /\ atts[k] = None
          /\ atts' = [atts EXCEPT ![k] = cur[w]]
       \/ /\ StoreErr(w) \/ atts[k] # None
          /\ UNCHANGED atts
    /\ Return(w)
    /\ UNCHANGED <<lockVars, disks, lvs, devs, lost, leaked>>

\* Store.CreateAttachment
AttachPersist(w) ==
    LET k == <<cur[w].disk, cur[w].vm>>
        added == [atts EXCEPT ![k] = cur[w]]
    IN
    /\ At(w, "a_persist")
    /\ \/ /\ StoreOk(w) /\ atts[k] = None
          /\ atts' = added
          /\ Return(w)
       \/ /\ StoreErr(w) \/ atts[k] # None
          /\ UNCHANGED <<atts, local>>
          /\ Goto(w, "a_undo")
       \/ /\ Late(w) /\ atts[k] = None
          /\ atts' = added
          /\ UNCHANGED local
          /\ Goto(w, "a_undo")
    /\ UNCHANGED <<lockVars, disks, lvs, devs, lost, leaked>>

\* The rollback Libvirt.DetachDisk; its error is dropped.
AttachUndo(w) ==
    LET t == <<cur[w].vm, cur[w].tgt>> IN
    /\ At(w, "a_undo")
    /\ \/ CallOk(w) /\ devs' = [devs EXCEPT ![t] = None]
       \/ CallErr(w) /\ devs' = devs
    /\ Return(w)
    /\ UNCHANGED <<lockVars, disks, atts, lvs, lost, leaked>>

-----------------------------------------------------------------------------
Handler(w) ==
    \/ ReadDisk(w)
    \/ Acquire(w) \/ AcquireFails(w) \/ AcquireWaited(w) \/ AcquireGivesUp(w)
    \/ Release(w)
    \/ CreateGet(w) \/ CreateLV(w) \/ CreateHeader(w) \/ CreatePersist(w)
    \/ CreateUndo(w)
    \/ DeleteList(w) \/ DetachGet(w) \/ DetachLibvirt(w) \/ DetachStore(w)
    \/ DeleteLV(w) \/ DeleteRecord(w)
    \/ ExtendLV(w) \/ ExtendPersist(w) \/ ExtendList(w) \/ ExtendResize(w)
    \/ AttachPick(w) \/ AttachLibvirt(w) \/ AttachPersist(w) \/ AttachUndo(w)

Init == LockInit /\ DiskInit

Next ==
    \/ \E n \in Nodes : DaemonStep(n) /\ UNCHANGED diskVars
    \/ \E w \in Workers : CallCreate(w) \/ CallNamed(w) \/ CancelCtx(w) \/ Handler(w)

Spec == Init /\ [][Next]_vars

(***************************************************************************)
(* Fairness: a running handler goes on to its next call, etcd ends the     *)
(* lease of a dead daemon.  Clients need not call and nothing need fail.   *)
(***************************************************************************)
FairSpec ==
    /\ Spec
    /\ \A w \in Workers : WF_vars(Handler(w))
    /\ \A n \in Nodes : WF_vars(up[n] = "dead" /\ EndLease(n) /\ UNCHANGED diskVars)

-----------------------------------------------------------------------------
(* What the service promises.                                               *)

\* Type invariant of the whole model.
TypeOK == LockTypeOK /\ DiskTypeOK

Recorded(g, d) == disks[d] # None /\ disks[d].vg = g

\* Every disk in the catalog has its logical volume.  The one excuse is a
\* DeleteDisk that has removed the volume and not yet the record (it may
\* have died there), or a call that failed at that point or whose effect
\* came with an error.
RecordHasLV ==
    \A d \in Disks : disks[d] # None =>
        \/ lvs[<<disks[d].vg, d>>] # None
        \/ d \in lost
        \/ \E w \in Workers : pc[w] = "d_record" /\ LV(w) = <<disks[d].vg, d>>

\* the calls of CreateDisk between making the volume and recording it
Creating == {"c_header", "c_persist", "c_undo"}

\* d has left a volume behind: a rollback of CreateDisk failed, lvcreate
\* failed after the fact, or a daemon died between volume and record.
Leaky(d) ==
    \/ d \in leaked
    \/ \E w \in Workers : ~Runs(w) /\ pc[w] \in Creating /\ Disk(w) = d

\* Every logical volume of the service is in the catalog, or a running
\* CreateDisk is about to record it, or a volume of that name was left
\* behind earlier.
NoOrphanLV ==
    \A g \in VGs, d \in Disks : lvs[<<g, d>>] # None =>
        \/ Recorded(g, d)
        \/ Leaky(d)
        \/ \E w \in Workers : Runs(w) /\ pc[w] \in Creating /\ LV(w) = <<g, d>>

\* Only DeleteDisk takes a recorded disk's volume away: the rollback of
\* CreateDisk never removes a volume that is in the catalog.
OnlyDeleteRemoves ==
    [][\A g \in VGs, d \in Disks :
          lvs[<<g, d>>] # None /\ lvs'[<<g, d>>] = None /\ Recorded(g, d)
            => d \in lost \/ \E w \in Workers : pc[w] = "d_lv" /\ LV(w) = <<g, d>>]_vars

\* A record never claims more bytes than its volume has.
SizeNotOverstated ==
    \A d \in Disks :
        disks[d] # None /\ lvs[<<disks[d].vg, d>>] # None
            => disks[d].size =< lvs[<<disks[d].vg, d>>].size

\* The mode in the catalog is the format on the volume.
ModeMatchesContent ==
    \A d \in Disks :
        disks[d] # None /\ lvs[<<disks[d].vg, d>>] # None
            => (disks[d].mode = "thin") = (lvs[<<disks[d].vg, d>>].fmt = "qcow2")

\* Every attachment in the catalog is a disk of the domain, at its target.
AttachmentHasDevice ==
    \A k \in Disks \X VMs : atts[k] # None =>
        LET dev == devs[<<k[2], atts[k].tgt>>]
        IN  dev # None /\ dev.disk = k[1]

\* Between calls the catalog's attachments are exactly the domains' disks.
AttachmentsAgree ==
    (\A w \in Workers : pc[w] = "idle") =>
        {<<k[1], k[2], atts[k].tgt>> : k \in {k \in Disks \X VMs : atts[k] # None}}
          = {<<devs[t].disk, t[1], t[2]>> : t \in {t \in VMs \X Targets : devs[t] # None}}

\* Between calls size_bytes is the size of the volume, up to its last extent.
SizeIsPhysical ==
    (\A w \in Workers : pc[w] = "idle") =>
        \A d \in Disks :
            disks[d] # None /\ lvs[<<disks[d].vg, d>>] # None
                => RoundUp(disks[d].size) = lvs[<<disks[d].vg, d>>].size

\* The guest sees the virtual size of the qcow2 image of a thin disk.
ThinGuestSeesVirtual ==
    \A t \in VMs \X Targets :
        devs[t] # None /\ devs[t].fmt = "qcow2" /\ disks[devs[t].disk] # None
            => devs[t].cap = disks[devs[t].disk].virt

\* No attachment remains of a disk that is gone.
NoDanglingAttachment ==
    \A k \in Disks \X VMs :
        atts[k] # None /\ disks[k[1]] = None => \E w \in Workers : pc[w] # "idle"

\* A detach takes the disk it names from the domain, never another one.
DetachesOwnDisk ==
    [][\A t \in VMs \X Targets :
          devs[t] # None /\ devs'[t] = None =>
             \E w \in Workers : /\ pc[w] \in {"detach", "a_undo"}
                                /\ pc'[w] # pc[w]
                                /\ Disk(w) = devs[t].disk]_vars

\* A call that has begun comes to its end if its daemon lives, whatever
\* other workers, daemons and clients do.
HandlersEnd ==
    \A w \in Workers : pc[w] # "idle" ~> (pc[w] = "idle" \/ ~Runs(w))
=============================================================================
