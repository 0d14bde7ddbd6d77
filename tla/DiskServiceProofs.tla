--------------------------- MODULE DiskServiceProofs ---------------------------
(***************************************************************************)
(* Proofs about the disk service for any number of daemons, workers,       *)
(* volume groups, disks and domains.                                       *)
(***************************************************************************)
EXTENDS DiskService, VGLockProofs, WellFoundedInduction

-----------------------------------------------------------------------------
(* Type correctness.                                                        *)

\* The calls of each operation.
OpAt(op, l) ==
    \/ op = "create" /\ l \in {"lock", "wait", "unlock", "c_get", "c_lv", "c_header",
                               "c_persist", "c_undo"}
    \/ op = "delete" /\ l \in {"get", "lock", "wait", "unlock", "d_list", "detach",
                               "detached", "d_lv", "d_record"}
    \/ op = "extend" /\ l \in {"get", "lock", "wait", "unlock", "e_lv", "e_persist",
                               "e_list", "e_resize"}
    \/ op = "attach" /\ l \in {"get", "a_pick", "a_libvirt", "a_persist", "a_undo"}
    \/ op = "detach" /\ l \in {"get", "x_att", "detach", "detached"}

\* What a worker's local state holds, by the call it is about to make.
Shape(w) ==
    pc[w] # "idle" =>
        /\ req[w] \in Requests
        /\ OpAt(req[w].op, pc[w])
        /\ pc[w] # "get" => rec[w] \in DiskRec
        /\ pc[w] \in {"detached", "a_libvirt", "a_persist", "a_undo"} => cur[w] \in AttRec

ShapeOK == \A w \in Workers : Shape(w)
TypeInv == TypeOK /\ ShapeOK

-----------------------------------------------------------------------------
(* The service uses the lock as VGLock says.                                *)

\* A handler's step is a step of the lock or leaves the lock alone.
LEMMA HandlerLockStep ==
    ASSUME NEW w \in Workers, TypeInv,
           CallCreate(w) \/ CallNamed(w) \/ CancelCtx(w) \/ Handler(w)
    PROVE  [LockNext]_lockVars
  <1>1. CASE CallCreate(w) \/ CallNamed(w) \/ CancelCtx(w) \/ ReadDisk(w)
    BY <1>1 DEF CallCreate, CallNamed, CancelCtx, ReadDisk
  <1>2. CASE Acquire(w) \/ AcquireFails(w)
    <2>1. pc[w] = "lock" /\ Runs(w)
      BY <1>2 DEF Acquire, AcquireFails, At
    <2>2. rec[w].vg \in VGs
      BY <2>1 DEF TypeInv, ShapeOK, Shape, DiskRec
    <2>3. UNCHANGED lockVars \/ LockStep(w)
      BY <1>2, <2>2 DEF Acquire, AcquireFails, LockStep
    <2> QED BY <2>1, <2>3 DEF LockNext
  <1>3. CASE AcquireWaited(w) \/ AcquireGivesUp(w) \/ Release(w)
    BY <1>3 DEF AcquireWaited, AcquireGivesUp, Release, At, LockStep, LockNext
  <1>4. CASE CreateGet(w) \/ CreateLV(w) \/ CreateHeader(w) \/ CreatePersist(w)
             \/ CreateUndo(w)
    BY <1>4 DEF CreateGet, CreateLV, CreateHeader, CreatePersist, CreateUndo
  <1>5. CASE DeleteList(w) \/ DetachGet(w) \/ DetachLibvirt(w) \/ DetachStore(w)
             \/ DeleteLV(w) \/ DeleteRecord(w)
    BY <1>5 DEF DeleteList, DetachGet, DetachLibvirt, DetachStore, DeleteLV, DeleteRecord
  <1>6. CASE ExtendLV(w) \/ ExtendPersist(w) \/ ExtendList(w) \/ ExtendResize(w)
    BY <1>6 DEF ExtendLV, ExtendPersist, ExtendList, ExtendResize
  <1>7. CASE AttachPick(w) \/ AttachLibvirt(w) \/ AttachPersist(w) \/ AttachUndo(w)
    BY <1>7 DEF AttachPick, AttachLibvirt, AttachPersist, AttachUndo
  <1> QED
    BY <1>1, <1>2, <1>3, <1>4, <1>5, <1>6, <1>7 DEF Handler

-----------------------------------------------------------------------------
(* Sizes are natural numbers.                                               *)

LEMMA RoundUpNat == ASSUME NEW s \in Nat PROVE RoundUp(s) \in Nat
  <1>1. Extent \in Nat /\ Extent > 0
    BY DiskAssumption
  <1>2. s + Extent - 1 \in Nat
    BY <1>1
  <1>3. (s + Extent - 1) \div Extent \in Nat
    BY <1>1, <1>2
  <1> QED BY <1>1, <1>3 DEF RoundUp

LEMMA ExtendedNat ==
    ASSUME NEW lv \in LVRec, NEW in \in ExtendIn PROVE Extended(lv, in) \in Nat
  <1>1. lv.size \in Nat /\ in.pct \in Nat /\ in.size \in Nat /\ in.delta \in Nat
    BY DEF LVRec, ExtendIn
  <1>2. lv.size * in.pct \in Nat
    BY <1>1
  <1>3. (lv.size * in.pct + 99) \div 100 \in Nat
    BY <1>2
  <1> QED BY <1>1, <1>3, RoundUpNat DEF Extended, Percent

LEMMA NewSizeNat ==
    ASSUME NEW r \in DiskRec, NEW in \in ExtendIn PROVE NewSize(r, in) \in Nat
  <1>1. r.size \in Nat /\ in.pct \in Nat /\ in.size \in Nat /\ in.delta \in Nat
    BY DEF DiskRec, ExtendIn
  <1>2. Word \in Nat /\ Word > 0
    BY DiskAssumption
  <1>3. r.size * in.pct \in Nat
    BY <1>1
  <1>4. (r.size * in.pct) % Word \in Nat
    BY <1>2, <1>3
  <1>5. ((r.size * in.pct) % Word) \div 100 \in Nat
    BY <1>4
  <1>6. (r.size + ((r.size * in.pct) % Word) \div 100) % Word \in Nat
    BY <1>1, <1>2, <1>5
  <1>7. (r.size + in.delta) % Word \in Nat
    BY <1>1, <1>2
  <1> QED BY <1>1, <1>6, <1>7 DEF NewSize

LEMMA NormaliseType ==
    ASSUME NEW in \in CreateInputs, Acceptable(in)
    PROVE  normaliseCreate(in) \in DiskRec
  <1>1. /\ in.vg \in VGs \cup {NoVG} /\ in.size \in Nat /\ in.virt \in Nat
        /\ DefaultVG \in VGs \cup {NoVG} /\ DefaultThinInitial \in Nat
    BY DiskAssumption DEF CreateIn
  <1>2. NormVG(in) \in VGs
    BY <1>1 DEF Acceptable, NormVG
  <1>3. NormMode(in) \in {"thick", "thin"} /\ NormSize(in) \in Nat /\ NormVirt(in) \in Nat
    BY <1>1 DEF NormMode, NormSize, NormVirt
  <1> QED BY <1>2, <1>3 DEF normaliseCreate, DiskRec

LEMMA PickType == ASSUME NEW used PROVE pickTargetDev(used) \in Targets
  <1> DEFINE free == 1 .. Slots \ used
  <1>1. Slots \in Nat
    BY DiskAssumption
  <1>2. CASE free = {}
    BY <1>1, <1>2 DEF pickTargetDev, Targets
  <1>3. CASE free # {}
    <2> DEFINE R == OpToRel(<, Nat)
    <2>1. \A x, y \in Nat : <<y, x>> \in R <=> y < x
      BY DEF OpToRel
    <2> HIDE DEF R
    <2>2. IsWellFoundedOn(R, Nat)
      BY NatLessThanWellFounded, Zenon DEF R
    <2>3. free \subseteq Nat /\ free \subseteq Targets
      BY <1>1 DEF Targets
    <2> HIDE DEF free
    <2>4. PICK x \in free : \A y \in free : ~(<<y, x>> \in R)
      BY <1>3, <2>2, <2>3, WFMin
    <2>5. \E t \in free : \A u \in free : t =< u
      <3>1. ASSUME NEW y \in free PROVE x =< y
        <4>1. x \in Nat /\ y \in Nat
          BY <2>3
        <4>2. ~(y < x)
          BY <2>1, <2>4, <4>1, Zenon
        <4> QED BY <4>1, <4>2
      <3> QED BY <3>1
    <2>6. (CHOOSE t \in free : \A u \in free : t =< u) \in free
      BY <2>5
    <2> QED BY <1>3, <2>3, <2>6 DEF pickTargetDev, free
  <1> QED BY <1>2, <1>3

-----------------------------------------------------------------------------
(* Every step keeps the type invariant.                                     *)

LEMMA RequestType ==
    ASSUME NEW r \in Requests
    PROVE  /\ r.disk \in Disks
           /\ r.op \in {"create", "delete", "extend", "attach", "detach"}
           /\ r.op = "extend" => r.in \in ExtendIn
           /\ r.op = "attach" => r.vm \in VMs /\ r.tgt \in Targets \cup {0}
           /\ r.op = "detach" => r.vm \in VMs
  BY DEF Requests

\* The request and the volume of a worker that is serving a call.
LEMMA WorkerType ==
    ASSUME TypeInv, NEW w \in Workers, pc[w] # "idle"
    PROVE  /\ Disk(w) \in Disks
           /\ pc[w] # "get" => /\ rec[w] \in DiskRec
                               /\ rec[w].vg \in VGs
                               /\ LV(w) \in VGs \X Disks
  BY RequestType DEF TypeInv, ShapeOK, Shape, Disk, LV, DiskRec

\* A step of w concerns w's local state only.
OnlyLocal(w) ==
    \A v \in Workers : v # w => /\ pc'[v] = pc[v] /\ req'[v] = req[v]
                                /\ rec'[v] = rec[v] /\ cur'[v] = cur[v]

LEMMA ShapeStep ==
    ASSUME TypeInv, NEW w \in Workers, OnlyLocal(w), Shape(w)'
    PROVE  ShapeOK'
  BY DEF TypeInv, ShapeOK, Shape, OnlyLocal

LocalTypes ==
    /\ pc \in [Workers -> PCs]
    /\ req \in [Workers -> Requests \cup {None}]
    /\ rec \in [Workers -> DiskRec \cup {None}]
    /\ todo \in [Workers -> SUBSET AttRec]
    /\ cur \in [Workers -> AttRec \cup {None}]
    /\ ctx \in [Workers -> {"live", "done"}]

\* A worker that returns is idle and holds nothing.
LEMMA ReturnType ==
    ASSUME TypeInv, NEW w \in Workers, Return(w)
    PROVE  LocalTypes' /\ ShapeOK' /\ pc'[w] = "idle" /\ OnlyLocal(w)
  <1>1. LocalTypes' /\ OnlyLocal(w) /\ pc'[w] = "idle"
    BY DEF TypeInv, TypeOK, DiskTypeOK, LocalTypes, Return, Goto, PCs, OnlyLocal
  <1> QED BY <1>1, ShapeStep DEF Shape

\* A worker that goes on to another call of its request.
LEMMA GotoType ==
    ASSUME TypeInv, NEW w \in Workers, NEW l \in PCs, Goto(w, l),
           pc[w] # "idle", OpAt(req[w].op, l),
           l # "get", rec[w] \in DiskRec,
           l \in {"detached", "a_libvirt", "a_persist", "a_undo"} => cur[w] \in AttRec,
           UNCHANGED <<req, rec, cur>>
    PROVE  pc' \in [Workers -> PCs] /\ ShapeOK' /\ pc'[w] = l /\ OnlyLocal(w)
  <1>1. pc' \in [Workers -> PCs] /\ OnlyLocal(w) /\ pc'[w] = l
    BY DEF TypeInv, TypeOK, DiskTypeOK, Goto, OnlyLocal
  <1>2. req[w] \in Requests
    BY DEF TypeInv, ShapeOK, Shape
  <1> QED BY <1>1, <1>2, ShapeStep DEF Shape

LEMMA CreateTypeStep ==
    ASSUME TypeInv, NEW w \in Workers,
           CreateGet(w) \/ CreateLV(w) \/ CreateHeader(w) \/ CreatePersist(w)
             \/ CreateUndo(w)
    PROVE  DiskTypeOK' /\ ShapeOK'
  <1>0. /\ pc[w] \in {"c_get", "c_lv", "c_header", "c_persist", "c_undo"}
        /\ UNCHANGED <<req, rec, todo, cur, ctx, atts, devs>>
        /\ \E l \in {"unlock", "c_lv", "c_header", "c_persist", "c_undo"} : Goto(w, l)
    BY DEF CreateGet, CreateLV, CreateHeader, CreatePersist, CreateUndo, At, local
  <1>1. /\ Disk(w) \in Disks /\ LV(w) \in VGs \X Disks /\ rec[w] \in DiskRec
        /\ RoundUp(rec[w].size) \in Nat
    BY <1>0, WorkerType, RoundUpNat DEF DiskRec
  <1>2. pc' \in [Workers -> PCs] /\ ShapeOK'
    <2>1. OpAt(req[w].op, pc[w])
      BY <1>0 DEF TypeInv, ShapeOK, Shape
    <2>2. req[w].op = "create"
      BY <1>0, <2>1 DEF OpAt
    <2> QED BY <1>0, <1>1, <2>2, GotoType DEF OpAt, PCs
  <1>3. /\ disks' \in [Disks -> DiskRec \cup {None}]
        /\ lost' \subseteq Disks /\ leaked' \subseteq Disks
    BY <1>1 DEF TypeInv, TypeOK, DiskTypeOK, CreateGet, CreateLV, CreateHeader,
         CreatePersist, CreateUndo
  <1>4. lvs' \in [VGs \X Disks -> LVRec \cup {None}]
    <2> DEFINE made == [size |-> RoundUp(rec[w].size), fmt |-> "raw"]
               dd == [size |-> lvs[LV(w)].size, fmt |-> "qcow2"]
    <2>1. made \in LVRec /\ (lvs[LV(w)] # None => dd \in LVRec)
      BY <1>1 DEF TypeInv, TypeOK, DiskTypeOK, LVRec
    <2> QED
      BY <1>1, <2>1 DEF TypeInv, TypeOK, DiskTypeOK, CreateGet, CreateLV, CreateHeader,
         CreatePersist, CreateUndo, LVRec
  <1> QED BY <1>0, <1>2, <1>3, <1>4 DEF TypeInv, TypeOK, DiskTypeOK

\* Attachments read from the catalog are attachment records.
LEMMA AttachmentsType ==
    ASSUME TypeInv, NEW d \in Disks PROVE AttachmentsOf(d) \subseteq AttRec
  BY DEF TypeInv, TypeOK, DiskTypeOK, AttachmentsOf

\* A handler that gives up returns, or goes to its deferred release.
LEMMA AbortType ==
    ASSUME TypeInv, NEW w \in Workers, pc[w] \in {"detach", "detached"}, Abort(w)
    PROVE  LocalTypes' /\ ShapeOK'
  <1>1. req[w] \in Requests /\ req[w].op \in {"delete", "detach"} /\ rec[w] \in DiskRec
    BY DEF TypeInv, ShapeOK, Shape, OpAt
  <1>2. CASE Unlocked(req[w].op)
    BY <1>2, ReturnType DEF Abort
  <1>3. CASE ~Unlocked(req[w].op)
    <2>1. Goto(w, "unlock") /\ UNCHANGED <<req, rec, todo, cur, ctx>>
      BY <1>3 DEF Abort, local
    <2>2. pc' \in [Workers -> PCs] /\ ShapeOK'
      BY <1>1, <1>3, <2>1, GotoType DEF OpAt, Unlocked, PCs
    <2> QED BY <2>1, <2>2 DEF TypeInv, TypeOK, DiskTypeOK, LocalTypes
  <1> QED BY <1>2, <1>3

LEMMA DeleteTypeStep ==
    ASSUME TypeInv, NEW w \in Workers,
           DeleteList(w) \/ DeleteLV(w) \/ DeleteRecord(w)
    PROVE  DiskTypeOK' /\ ShapeOK'
  <1>0. /\ pc[w] \in {"d_list", "d_lv", "d_record"}
        /\ UNCHANGED <<req, rec, cur, ctx, atts, devs>>
        /\ \E l \in {"unlock", "d_lv", "detach", "d_record"} : Goto(w, l)
    BY DEF DeleteList, DeleteLV, DeleteRecord, At, local
  <1>1. Disk(w) \in Disks /\ LV(w) \in VGs \X Disks /\ rec[w] \in DiskRec
    BY <1>0, WorkerType
  <1>2. pc' \in [Workers -> PCs] /\ ShapeOK'
    <2>1. OpAt(req[w].op, pc[w])
      BY <1>0 DEF TypeInv, ShapeOK, Shape
    <2>2. req[w].op = "delete"
      BY <1>0, <2>1 DEF OpAt
    <2> QED BY <1>0, <1>1, <2>2, GotoType DEF OpAt, PCs
  <1>3. /\ disks' \in [Disks -> DiskRec \cup {None}]
        /\ lvs' \in [VGs \X Disks -> LVRec \cup {None}]
        /\ lost' \subseteq Disks /\ leaked' \subseteq Disks
    BY <1>1 DEF TypeInv, TypeOK, DiskTypeOK, DeleteList, DeleteLV, DeleteRecord
  <1>4. todo' \in [Workers -> SUBSET AttRec]
    BY <1>1, AttachmentsType
    DEF TypeInv, TypeOK, DiskTypeOK, DeleteList, DeleteLV, DeleteRecord, local
  <1> QED BY <1>0, <1>2, <1>3, <1>4 DEF TypeInv, TypeOK, DiskTypeOK

LEMMA DetachTypeStep ==
    ASSUME TypeInv, NEW w \in Workers,
           DetachGet(w) \/ DetachLibvirt(w) \/ DetachStore(w)
    PROVE  DiskTypeOK' /\ ShapeOK'
  <1>1. CASE DetachGet(w)
    <2>0. pc[w] = "x_att" /\ req[w].op = "detach" /\ rec[w] \in DiskRec
      BY <1>1 DEF DetachGet, At, TypeInv, ShapeOK, Shape, OpAt
    <2>1. CASE Return(w)
      BY <1>1, <2>1, ReturnType DEF LocalTypes, DetachGet, TypeInv, TypeOK, DiskTypeOK
    <2>2. CASE ~Return(w)
      <3>1. /\ Goto(w, "detach") /\ UNCHANGED <<req, rec, cur, ctx>>
            /\ atts[<<Disk(w), req[w].vm>>] # None
            /\ todo' = [todo EXCEPT ![w] = {atts[<<Disk(w), req[w].vm>>]}]
        BY <1>1, <2>2 DEF DetachGet
      <3>2. <<Disk(w), req[w].vm>> \in Disks \X VMs
        BY <2>0, RequestType DEF TypeInv, ShapeOK, Shape, Disk
      <3>3. todo' \in [Workers -> SUBSET AttRec]
        BY <3>1, <3>2 DEF TypeInv, TypeOK, DiskTypeOK
      <3>4. pc' \in [Workers -> PCs] /\ ShapeOK'
        BY <2>0, <3>1, GotoType DEF OpAt, PCs
      <3> QED
        BY <1>1, <3>1, <3>3, <3>4 DEF DetachGet, TypeInv, TypeOK, DiskTypeOK
    <2> QED BY <2>1, <2>2
  <1>2. CASE DetachLibvirt(w)
    <2>0. pc[w] = "detach"
      BY <1>2 DEF DetachLibvirt, At
    <2>1. PICK a \in todo[w] :
            /\ devs' = devs \/ devs' = [devs EXCEPT ![<<a.vm, a.tgt>>] = None]
            /\ \/ Abort(w)
               \/ /\ todo' = [todo EXCEPT ![w] = @ \ {a}]
                  /\ cur' = [cur EXCEPT ![w] = a]
                  /\ Goto(w, "detached")
                  /\ UNCHANGED <<req, rec, ctx>>
      BY <1>2 DEF DetachLibvirt
    <2>2. a \in AttRec
      BY <2>1 DEF TypeInv, TypeOK, DiskTypeOK
    <2>3. devs' \in [VMs \X Targets -> DevRec \cup {None}]
      BY <2>1, <2>2 DEF TypeInv, TypeOK, DiskTypeOK, AttRec
    <2>4. LocalTypes' /\ ShapeOK'
      <3>1. CASE Abort(w)
        BY <2>0, <3>1, AbortType
      <3>2. CASE ~Abort(w)
        <4>0. /\ todo' = [todo EXCEPT ![w] = todo[w] \ {a}]
              /\ cur' = [cur EXCEPT ![w] = a]
              /\ pc' = [pc EXCEPT ![w] = "detached"]
              /\ UNCHANGED <<req, rec, ctx>>
          BY <2>1, <3>2 DEF Goto
        <4>1. LocalTypes' /\ OnlyLocal(w)
          BY <2>2, <4>0
          DEF TypeInv, TypeOK, DiskTypeOK, LocalTypes, PCs, OnlyLocal
        <4>2. /\ pc'[w] = "detached" /\ cur'[w] = a
              /\ req'[w] = req[w] /\ rec'[w] = rec[w]
          BY <2>1, <3>2 DEF TypeInv, TypeOK, DiskTypeOK, Goto
        <4>3. /\ req[w] \in Requests /\ rec[w] \in DiskRec
              /\ req[w].op \in {"delete", "detach"}
          BY <2>0 DEF TypeInv, ShapeOK, Shape, OpAt
        <4>4. Shape(w)'
          BY <2>2, <4>2, <4>3 DEF Shape, OpAt
        <4> QED BY <4>1, <4>4, ShapeStep
      <3> QED BY <3>1, <3>2
    <2> QED
      BY <1>2, <2>3, <2>4 DEF DetachLibvirt, TypeInv, TypeOK, DiskTypeOK, LocalTypes
  <1>3. CASE DetachStore(w)
    <2>0. /\ pc[w] = "detached" /\ cur[w] \in AttRec /\ rec[w] \in DiskRec
          /\ req[w].op \in {"delete", "detach"}
      BY <1>3 DEF DetachStore, At, TypeInv, ShapeOK, Shape, OpAt
    <2>1. atts' \in [Disks \X VMs -> AttRec \cup {None}]
      BY <1>3, <2>0 DEF DetachStore, TypeInv, TypeOK, DiskTypeOK, AttRec
    <2>2. LocalTypes' /\ ShapeOK'
      <3>1. CASE Abort(w) \/ Return(w)
        BY <2>0, <3>1, AbortType, ReturnType
      <3>2. CASE ~(Abort(w) \/ Return(w))
        <4>1. /\ cur' = [cur EXCEPT ![w] = None]
              /\ UNCHANGED <<req, rec, todo, ctx>>
              /\ ~Unlocked(req[w].op)
              /\ \E l \in {"d_lv", "detach"} : Goto(w, l)
          BY <1>3, <3>2 DEF DetachStore
        <4>2. LocalTypes' /\ OnlyLocal(w)
          BY <4>1 DEF TypeInv, TypeOK, DiskTypeOK, LocalTypes, Goto, PCs, OnlyLocal
        <4>3. Shape(w)'
          BY <2>0, <4>1
          DEF TypeInv, TypeOK, DiskTypeOK, ShapeOK, Shape, OpAt, Goto, Unlocked
        <4> QED BY <4>2, <4>3, ShapeStep
      <3> QED BY <3>1, <3>2
    <2> QED
      BY <1>3, <2>1, <2>2 DEF DetachStore, TypeInv, TypeOK, DiskTypeOK, LocalTypes
  <1> QED BY <1>1, <1>2, <1>3

LEMMA ExtendTypeStep ==
    ASSUME TypeInv, NEW w \in Workers,
           ExtendLV(w) \/ ExtendPersist(w) \/ ExtendList(w) \/ ExtendResize(w)
    PROVE  DiskTypeOK' /\ ShapeOK'
  <1>0. /\ pc[w] \in {"e_lv", "e_persist", "e_list", "e_resize"}
        /\ UNCHANGED <<req, cur, ctx, atts, lost, leaked>>
        /\ \E l \in {"unlock", "e_persist", "e_list", "e_resize"} : Goto(w, l)
    BY DEF ExtendLV, ExtendPersist, ExtendList, ExtendResize, At, local
  <1>1. Disk(w) \in Disks /\ LV(w) \in VGs \X Disks /\ rec[w] \in DiskRec
    BY <1>0, WorkerType
  <1>2. req[w] \in Requests /\ req[w].op = "extend" /\ req[w].in \in ExtendIn
    <2>1. req[w] \in Requests /\ OpAt(req[w].op, pc[w])
      BY <1>0 DEF TypeInv, ShapeOK, Shape
    <2>2. req[w].op = "extend"
      BY <1>0, <2>1 DEF OpAt
    <2> QED BY <2>1, <2>2, RequestType
  <1>3. rec' \in [Workers -> DiskRec \cup {None}] /\ rec'[w] \in DiskRec
        /\ \A v \in Workers : v # w => rec'[v] = rec[v]
    <2>1. CASE rec' = rec
      BY <1>1, <2>1 DEF TypeInv, TypeOK, DiskTypeOK
    <2>2. CASE rec' # rec
      <3>1. rec' = [rec EXCEPT ![w] = [rec[w] EXCEPT !.size = NewSize(rec[w], req[w].in)]]
        BY <2>2 DEF ExtendLV, ExtendPersist, ExtendList, ExtendResize, local
      <3>2. [rec[w] EXCEPT !.size = NewSize(rec[w], req[w].in)] \in DiskRec
        BY <1>1, <1>2, NewSizeNat DEF DiskRec
      <3> QED BY <3>1, <3>2 DEF TypeInv, TypeOK, DiskTypeOK
    <2> QED BY <2>1, <2>2
  <1>4. pc' \in [Workers -> PCs] /\ ShapeOK'
    <2>1. PICK l \in {"unlock", "e_persist", "e_list", "e_resize"} : Goto(w, l)
      BY <1>0
    <2>2. pc' \in [Workers -> PCs] /\ OnlyLocal(w) /\ pc'[w] = l
      BY <1>0, <1>3, <2>1 DEF TypeInv, TypeOK, DiskTypeOK, Goto, PCs, OnlyLocal
    <2>3. Shape(w)'
      BY <1>0, <1>2, <1>3, <2>2 DEF Shape, OpAt
    <2> QED BY <2>2, <2>3, ShapeStep
  <1>5. disks' \in [Disks -> DiskRec \cup {None}]
    BY <1>1 DEF TypeInv, TypeOK, DiskTypeOK, ExtendLV, ExtendPersist, ExtendList, ExtendResize
  <1>6. lvs' \in [VGs \X Disks -> LVRec \cup {None}]
    <2>1. CASE lvs' = lvs
      BY <2>1 DEF TypeInv, TypeOK, DiskTypeOK
    <2>2. CASE lvs' # lvs
      <3> DEFINE old == lvs[LV(w)]
                 new == [old EXCEPT !.size = Extended(old, req[w].in)]
      <3>1. lvs' = [lvs EXCEPT ![LV(w)] = new] /\ old # None
        BY <2>2 DEF ExtendLV, ExtendPersist, ExtendList, ExtendResize
      <3>2. old \in LVRec
        BY <1>1, <3>1 DEF TypeInv, TypeOK, DiskTypeOK
      <3>3. new \in LVRec
        BY <1>2, <3>2, ExtendedNat DEF LVRec
      <3> QED BY <3>1, <3>3 DEF TypeInv, TypeOK, DiskTypeOK
    <2> QED BY <2>1, <2>2
  <1>7. todo' \in [Workers -> SUBSET AttRec]
    <2>1. \/ todo' = todo
          \/ todo' = [todo EXCEPT ![w] = AttachmentsOf(Disk(w))]
          \/ \E a : todo' = [todo EXCEPT ![w] = todo[w] \ {a}]
      BY DEF ExtendLV, ExtendPersist, ExtendList, ExtendResize, local
    <2> QED BY <1>1, <2>1, AttachmentsType DEF TypeInv, TypeOK, DiskTypeOK
  <1>8. devs' \in [VMs \X Targets -> DevRec \cup {None}]
    <2>1. CASE devs' = devs
      BY <2>1 DEF TypeInv, TypeOK, DiskTypeOK
    <2>2. CASE devs' # devs
      <3>1. PICK a \in todo[w] :
              /\ devs[<<a.vm, a.tgt>>] # None
              /\ devs' = [devs EXCEPT ![<<a.vm, a.tgt>>] =
                            [devs[<<a.vm, a.tgt>>] EXCEPT !.cap = rec[w].size]]
        BY <2>2 DEF ExtendLV, ExtendPersist, ExtendList, ExtendResize
      <3> DEFINE t == <<a.vm, a.tgt>>
      <3>2. t \in VMs \X Targets
        BY <3>1 DEF TypeInv, TypeOK, DiskTypeOK, AttRec
      <3>3. devs[t] \in DevRec /\ rec[w].size \in Nat
        BY <1>1, <3>1, <3>2 DEF TypeInv, TypeOK, DiskTypeOK, DiskRec
      <3>4. [devs[t] EXCEPT !.cap = rec[w].size] \in DevRec
        BY <3>3 DEF DevRec
      <3> QED BY <3>1, <3>4 DEF TypeInv, TypeOK, DiskTypeOK
    <2> QED BY <2>1, <2>2
  <1> QED
    BY <1>0, <1>3, <1>4, <1>5, <1>6, <1>7, <1>8 DEF TypeInv, TypeOK, DiskTypeOK

LEMMA AttachTypeStep ==
    ASSUME TypeInv, NEW w \in Workers,
           AttachPick(w) \/ AttachLibvirt(w) \/ AttachPersist(w) \/ AttachUndo(w)
    PROVE  DiskTypeOK' /\ ShapeOK'
  <1>0. /\ pc[w] \in {"a_pick", "a_libvirt", "a_persist", "a_undo"}
        /\ UNCHANGED <<disks, lvs, lost, leaked>>
    BY DEF AttachPick, AttachLibvirt, AttachPersist, AttachUndo, At
  <1>1. /\ Disk(w) \in Disks /\ LV(w) \in VGs \X Disks /\ rec[w] \in DiskRec
        /\ req[w] \in Requests /\ req[w].op = "attach"
        /\ pc[w] # "a_pick" => cur[w] \in AttRec
    <2>1. req[w] \in Requests /\ OpAt(req[w].op, pc[w])
      BY <1>0 DEF TypeInv, ShapeOK, Shape
    <2> QED BY <1>0, <2>1, WorkerType DEF TypeInv, ShapeOK, Shape, OpAt
  <1>2. LocalTypes' /\ ShapeOK'
    <2>1. CASE Return(w)
      BY <2>1, ReturnType
    <2>2. CASE ~Return(w) /\ AttachPick(w)
      <3> DEFINE r == req[w]
                 tgt == IF r.tgt = 0 THEN pickTargetDev({a.tgt : a \in AttachmentsTo(r.vm)})
                                     ELSE r.tgt
                 new == [disk |-> r.disk, vm |-> r.vm, host |-> Host(w), tgt |-> tgt]
      <3>1. /\ cur' = [cur EXCEPT ![w] = new] /\ Goto(w, "a_libvirt")
            /\ UNCHANGED <<req, rec, todo, ctx>>
        BY <2>2 DEF AttachPick
      <3>2. tgt \in Targets
        BY <1>1, PickType, RequestType
      <3>3. Host(w) \in Hosts
        BY LockAssumption DEF Host
      <3>4. new \in AttRec
        <4>1. r.disk \in Disks /\ r.vm \in VMs
          BY <1>1, RequestType
        <4> HIDE DEF tgt
        <4> QED BY <3>2, <3>3, <4>1 DEF AttRec
      <3> HIDE DEF new
      <3>5. LocalTypes' /\ OnlyLocal(w) /\ pc'[w] = "a_libvirt" /\ cur'[w] = new
        BY <3>1, <3>4 DEF TypeInv, TypeOK, DiskTypeOK, LocalTypes, OnlyLocal, Goto, PCs
      <3>6. Shape(w)'
        BY <1>1, <3>1, <3>4, <3>5 DEF Shape, OpAt
      <3> QED BY <3>5, <3>6, ShapeStep
    <2>3. CASE ~Return(w) /\ ~AttachPick(w)
      <3>1. /\ UNCHANGED <<req, rec, todo, cur, ctx>> /\ pc[w] # "a_pick"
            /\ \E l \in {"a_persist", "a_undo"} : Goto(w, l)
        BY <2>3 DEF AttachLibvirt, AttachPersist, AttachUndo, local, At
      <3>2. pc' \in [Workers -> PCs] /\ ShapeOK'
        BY <1>0, <1>1, <3>1, GotoType DEF OpAt, PCs
      <3> QED BY <3>1, <3>2 DEF TypeInv, TypeOK, DiskTypeOK, LocalTypes
    <2> QED BY <2>1, <2>2, <2>3
  <1>3. atts' \in [Disks \X VMs -> AttRec \cup {None}]
    <2>1. CASE atts' = atts
      BY <2>1 DEF TypeInv, TypeOK, DiskTypeOK
    <2>2. CASE atts' # atts
      <3>1. pc[w] # "a_pick" /\ atts' = [atts EXCEPT ![<<cur[w].disk, cur[w].vm>>] = cur[w]]
        BY <2>2 DEF AttachPick, AttachLibvirt, AttachPersist, AttachUndo, At
      <3> QED BY <1>1, <3>1 DEF TypeInv, TypeOK, DiskTypeOK
    <2> QED BY <2>1, <2>2
  <1>4. devs' \in [VMs \X Targets -> DevRec \cup {None}]
    <2> DEFINE thin == rec[w].mode = "thin"
               new == [vg |-> rec[w].vg, disk |-> Disk(w),
                       fmt |-> IF thin THEN "qcow2" ELSE "raw",
                       cap |-> IF thin THEN rec[w].virt ELSE lvs[LV(w)].size]
               t == <<cur[w].vm, cur[w].tgt>>
    <2>1. \/ devs' = devs
          \/ pc[w] # "a_pick" /\ devs' = [devs EXCEPT ![t] = None]
          \/ /\ pc[w] # "a_pick" /\ lvs[LV(w)] # None
             /\ devs' = [devs EXCEPT ![t] = new]
      BY DEF AttachPick, AttachLibvirt, AttachPersist, AttachUndo, At
    <2>2. lvs[LV(w)] # None => lvs[LV(w)].size \in Nat
      BY <1>1 DEF TypeInv, TypeOK, DiskTypeOK, LVRec
    <2>3. lvs[LV(w)] # None => new \in DevRec
      BY <1>1, <2>2 DEF DevRec, DiskRec
    <2> HIDE DEF new
    <2> QED BY <2>1, <2>3 DEF TypeInv, TypeOK, DiskTypeOK
  <1> QED BY <1>0, <1>2, <1>3, <1>4 DEF TypeInv, TypeOK, DiskTypeOK, LocalTypes

LEMMA CallTypeStep ==
    ASSUME TypeInv, NEW w \in Workers,
           CallCreate(w) \/ CallNamed(w) \/ CancelCtx(w) \/ ReadDisk(w)
    PROVE  DiskTypeOK' /\ ShapeOK'
  <1>0. UNCHANGED <<disks, atts, lvs, devs, lost, leaked>>
    BY DEF CallCreate, CallNamed, CancelCtx, ReadDisk
  <1>1. CASE CallCreate(w)
    <2>1. PICK d \in Disks, in \in CreateInputs :
            /\ Acceptable(in)
            /\ req' = [req EXCEPT ![w] = [op |-> "create", disk |-> d]]
            /\ rec' = [rec EXCEPT ![w] = normaliseCreate(in)]
      BY <1>1 DEF CallCreate
    <2>2. normaliseCreate(in) \in DiskRec /\ [op |-> "create", disk |-> d] \in Requests
      BY <2>1, NormaliseType DEF Requests
    <2>3. LocalTypes' /\ OnlyLocal(w)
      BY <1>1, <2>1, <2>2
      DEF CallCreate, Goto, TypeInv, TypeOK, DiskTypeOK, LocalTypes, OnlyLocal, PCs
    <2>4. Shape(w)'
      BY <1>1, <2>1, <2>2 DEF CallCreate, Goto, TypeInv, TypeOK, DiskTypeOK, Shape, OpAt
    <2> QED BY <1>0, <2>3, <2>4, ShapeStep DEF LocalTypes, TypeInv, TypeOK, DiskTypeOK
  <1>2. CASE CallNamed(w)
    <2>1. PICK r \in NamedRequests : req' = [req EXCEPT ![w] = r]
      BY <1>2 DEF CallNamed
    <2>2. r \in Requests /\ r.op \in {"delete", "extend", "attach", "detach"}
      BY <2>1, DiskAssumption DEF NamedRequests, Requests
    <2>3. LocalTypes' /\ OnlyLocal(w)
      BY <1>2, <2>1, <2>2
      DEF CallNamed, Goto, TypeInv, TypeOK, DiskTypeOK, LocalTypes, OnlyLocal, PCs
    <2>4. Shape(w)'
      BY <1>2, <2>1, <2>2 DEF CallNamed, Goto, TypeInv, TypeOK, DiskTypeOK, Shape, OpAt
    <2> QED BY <1>0, <2>3, <2>4, ShapeStep DEF LocalTypes, TypeInv, TypeOK, DiskTypeOK
  <1>3. CASE CancelCtx(w)
    BY <1>3 DEF CancelCtx, TypeInv, TypeOK, DiskTypeOK, ShapeOK, Shape
  <1>4. CASE ReadDisk(w)
    <2>0. pc[w] = "get" /\ Disk(w) \in Disks
      BY <1>4, WorkerType DEF ReadDisk, At
    <2>1. req[w] \in Requests /\ req[w].op \in {"delete", "extend", "attach", "detach"}
      BY <2>0 DEF TypeInv, ShapeOK, Shape, OpAt
    <2>2. CASE Return(w)
      BY <1>0, <2>2, ReturnType DEF LocalTypes, TypeInv, TypeOK, DiskTypeOK
    <2>3. CASE ~Return(w)
      <3> DEFINE l == IF req[w].op = "attach" THEN "a_pick"
                      ELSE IF req[w].op = "detach" THEN "x_att" ELSE "lock"
      <3>1. /\ disks[Disk(w)] # None /\ rec' = [rec EXCEPT ![w] = disks[Disk(w)]]
            /\ pc' = [pc EXCEPT ![w] = l] /\ UNCHANGED <<req, todo, cur, ctx>>
        BY <1>4, <2>3 DEF ReadDisk, Goto
      <3>2. disks[Disk(w)] \in DiskRec
        BY <2>0, <3>1 DEF TypeInv, TypeOK, DiskTypeOK
      <3>3. LocalTypes' /\ OnlyLocal(w)
        BY <3>1, <3>2 DEF TypeInv, TypeOK, DiskTypeOK, LocalTypes, OnlyLocal, PCs
      <3>4. Shape(w)'
        BY <2>1, <3>1, <3>2 DEF TypeInv, TypeOK, DiskTypeOK, Shape, OpAt
      <3> QED BY <1>0, <3>3, <3>4, ShapeStep DEF LocalTypes, TypeInv, TypeOK, DiskTypeOK
    <2> QED BY <2>2, <2>3
  <1> QED BY <1>1, <1>2, <1>3, <1>4

LEMMA LockingTypeStep ==
    ASSUME TypeInv, NEW w \in Workers,
           Acquire(w) \/ AcquireFails(w) \/ AcquireWaited(w) \/ AcquireGivesUp(w)
             \/ Release(w)
    PROVE  DiskTypeOK' /\ ShapeOK'
  <1>0. /\ UNCHANGED <<disks, atts, lvs, devs, lost, leaked>>
        /\ pc[w] \in {"lock", "wait", "unlock"}
    BY DEF Acquire, AcquireFails, AcquireWaited, AcquireGivesUp, Release, At
  <1>1. CASE Return(w)
    BY <1>0, <1>1, ReturnType DEF LocalTypes, TypeInv, TypeOK, DiskTypeOK
  <1>2. CASE ~Return(w)
    <2>1. /\ UNCHANGED <<req, rec, todo, cur, ctx>>
          /\ Goto(w, "wait") \/ Goto(w, Entry(req[w].op))
      BY <1>2 DEF Acquire, AcquireFails, AcquireWaited, AcquireGivesUp, Release, local
    <2>2. rec[w] \in DiskRec /\ OpAt(req[w].op, pc[w])
      BY <1>0 DEF TypeInv, ShapeOK, Shape
    <2>3. req[w].op \in {"create", "delete", "extend"}
      BY <1>0, <2>2 DEF OpAt
    <2>4. /\ Entry(req[w].op) \in {"c_get", "d_list", "e_lv"}
          /\ OpAt(req[w].op, Entry(req[w].op)) /\ OpAt(req[w].op, "wait")
      BY <2>3 DEF OpAt, Entry
    <2>5. pc' \in [Workers -> PCs] /\ ShapeOK'
      BY <1>0, <2>1, <2>2, <2>4, GotoType DEF PCs
    <2> QED BY <1>0, <2>1, <2>5 DEF TypeInv, TypeOK, DiskTypeOK
  <1> QED BY <1>1, <1>2

LEMMA TypeInvInit == Init => TypeInv
  BY LockTypeInit
  DEF Init, DiskInit, TypeInv, TypeOK, DiskTypeOK, ShapeOK, Shape, PCs

LEMMA NextLockStep ==
    ASSUME TypeInv, [Next]_vars PROVE [LockNext]_lockVars
  <1>1. CASE UNCHANGED vars
    BY <1>1 DEF vars
  <1>2. ASSUME NEW n \in Nodes, DaemonStep(n) PROVE [LockNext]_lockVars
    BY <1>2 DEF LockNext
  <1> QED BY <1>1, <1>2, HandlerLockStep DEF Next

LEMMA TypeInvStep ==
    ASSUME TypeInv, [Next]_vars PROVE TypeInv'
  <1>1. LockTypeOK'
    BY NextLockStep, LockTypeStep DEF TypeInv, TypeOK
  <1>2. CASE UNCHANGED vars \/ \E n \in Nodes : DaemonStep(n) /\ UNCHANGED diskVars
    <2>1. UNCHANGED diskVars
      BY <1>2 DEF vars
    <2> QED BY <1>1, <2>1 DEF diskVars, TypeInv, TypeOK, DiskTypeOK, ShapeOK, Shape
  <1>3. ASSUME NEW w \in Workers,
               CallCreate(w) \/ CallNamed(w) \/ CancelCtx(w) \/ Handler(w)
        PROVE  TypeInv'
    BY <1>1, <1>3, CallTypeStep, LockingTypeStep, CreateTypeStep, DeleteTypeStep,
       DetachTypeStep, ExtendTypeStep, AttachTypeStep DEF Handler, TypeInv, TypeOK
  <1> QED BY <1>2, <1>3 DEF Next

\* The catalog, the storage, the domains, the lock and the workers keep their
\* types, whatever fails (internal/disk, internal/cluster).
THEOREM TypeCorrect == Spec => []TypeOK
  <1>1. TypeInv => TypeOK
    BY DEF TypeInv
  <1> QED BY <1>1, TypeInvInit, TypeInvStep, PTL DEF Spec

\* Every behaviour of the service is a behaviour of the lock: the service
\* never touches keys and leases but through Acquire and its release.
THEOREM ServiceUsesLock == Spec => LockSpec
  <1>1. Init => LockInit
    BY DEF Init
  <1> QED BY <1>1, TypeInvInit, TypeInvStep, NextLockStep, PTL DEF Spec, LockSpec
=============================================================================
