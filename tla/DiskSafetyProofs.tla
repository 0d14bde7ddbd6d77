---------------------------- MODULE DiskSafetyProofs ----------------------------
(***************************************************************************)
(* The catalog and the volumes of a cluster stay consistent, for any       *)
(* number of daemons, volume groups and disks: what the locked sections of *)
(* the disk service guarantee, proved from the exclusion of VGLockProofs.  *)
(***************************************************************************)
EXTENDS DiskServiceProofs

-----------------------------------------------------------------------------
(* Locked sections of a cluster.                                            *)

\* A cluster in which each daemon has at most one call in flight and no lease
\* ends under a running daemon.
Clustered == OneWorkerPerNode /\ Locker = "etcd" /\ "expire" \notin Faults

\* w is in the part of its operation that comes after Acquire
Inside(w) ==
    \/ pc[w] \in {"unlock", "c_get", "c_lv", "d_list", "d_lv", "d_record",
                  "e_lv", "e_persist", "e_list", "e_resize"} \cup Creating
    \/ pc[w] \in {"detach", "detached"} /\ req[w].op = "delete"

\* A worker holds the lock of its record's volume group exactly while it is
\* inside, and waits for it exactly while it is in Mutex.Lock.
Locks(w) ==
    /\ lst[w] = "held" <=> Inside(w)
    /\ lst[w] = "wait" <=> pc[w] = "wait"
    /\ lst[w] # "free" => lvg[w] = rec[w].vg
LocksItsVG == \A w \in Workers : Locks(w)

\* No lease ends under a running daemon.
LeaseLives == \A n \in Nodes : up[n] = "up" => lease[n]

\* Nobody works for a daemon that has not started.
NewIsStill == \A w \in Workers : up[NodeOf[w]] = "new" => pc[w] = "idle"

ProtocolInv == TypeInv /\ LockInv /\ LeaseLives /\ NewIsStill /\ LocksItsVG

\* The state of the lock as the other workers see it.
LEMMA OthersLock ==
    ASSUME TypeInv, LocksItsVG, NEW w \in Workers, OnlyLocal(w),
           \A v \in Workers : v # w => lst'[v] = lst[v] /\ lvg'[v] = lvg[v],
           Locks(w)'
    PROVE  LocksItsVG'
  BY DEF LocksItsVG, Locks, Inside, OnlyLocal

\* The steps inside and outside the locked section that leave the lock alone:
\* they stay inside, or stay outside.
LEMMA QuietLocks ==
    ASSUME TypeInv, LocksItsVG, NEW w \in Workers, OnlyLocal(w), UNCHANGED lockVars,
           pc[w] # "wait", pc'[w] # "wait", Inside(w)' <=> Inside(w),
           Inside(w) => rec'[w].vg = rec[w].vg
    PROVE  LocksItsVG'
  <1>1. Locks(w)'
    BY DEF LocksItsVG, Locks, TypeInv, TypeOK, LockTypeOK, lockVars
  <1> QED BY <1>1, OthersLock DEF lockVars

LEMMA LocksStep ==
    ASSUME TypeInv, TypeInv', LocksItsVG, NEW w \in Workers,
           CallCreate(w) \/ CallNamed(w) \/ CancelCtx(w) \/ Handler(w)
    PROVE  LocksItsVG' /\ OnlyLocal(w)
  <1> USE DEF At
  <1>0. Shape(w) /\ Shape(w)' /\ Locks(w)
    BY DEF TypeInv, ShapeOK, LocksItsVG
  <1>1. CASE CallCreate(w) \/ CallNamed(w)
    <2>1. /\ OnlyLocal(w) /\ UNCHANGED lockVars /\ pc[w] = "idle"
          /\ pc'[w] \in {"lock", "get"}
      BY <1>1 DEF CallCreate, CallNamed, Goto, OnlyLocal, TypeInv, TypeOK, DiskTypeOK
    <2> QED BY <2>1, QuietLocks DEF Inside, Creating
  <1>2. CASE CancelCtx(w)
    BY <1>2 DEF CancelCtx, OnlyLocal, LocksItsVG, Locks, Inside, lockVars
  <1>3. CASE ReadDisk(w)
    <2>1. /\ OnlyLocal(w) /\ UNCHANGED lockVars /\ pc[w] = "get"
          /\ pc'[w] \in {"idle", "a_pick", "x_att", "lock"}
      BY <1>3, ReturnType DEF ReadDisk, Goto, OnlyLocal, TypeInv, TypeOK, DiskTypeOK
    <2> QED BY <2>1, QuietLocks DEF Inside, Creating
  <1>4. CASE Acquire(w) \/ AcquireFails(w) \/ AcquireWaited(w) \/ AcquireGivesUp(w) \/ Release(w)
    <2>1. /\ OnlyLocal(w) /\ pc[w] \in {"lock", "wait", "unlock"}
          /\ \/ Return(w) /\ pc'[w] = "idle" /\ lst'[w] = "free"
             \/ /\ rec' = rec /\ lvg'[w] = rec[w].vg /\ req' = req
                /\ \/ lst'[w] = "held" /\ pc'[w] = Entry(req[w].op)
                   \/ lst'[w] = "wait" /\ pc'[w] = "wait"
      <3>1. CASE Acquire(w)
        BY <3>1 DEF Acquire, Goto, OnlyLocal, NoopAcquire, TryAcquire,
             TypeInv, TypeOK, DiskTypeOK, LockTypeOK
      <3>2. CASE AcquireFails(w)
        <4>1. lst[w] = "free" /\ lst' = lst
          BY <1>0, <3>2 DEF AcquireFails, Locks, Inside, Creating, TryAcquireLate, lockVars,
               TypeInv, TypeOK, LockTypeOK
        <4> QED BY <3>2, <4>1, ReturnType DEF AcquireFails
      <3>3. CASE AcquireWaited(w)
        <4>1. CASE Return(w) /\ lst'[w] = "free"
          BY <3>3, <4>1, ReturnType DEF AcquireWaited
        <4>2. CASE ~(Return(w) /\ lst'[w] = "free")
          <5>1. lst'[w] = "held" /\ Goto(w, Entry(req[w].op)) /\ UNCHANGED <<req, rec, cur>>
            BY <3>3, <4>2 DEF AcquireWaited, local
          <5>2. lvg'[w] = lvg[w]
            BY <3>3, <5>1 DEF AcquireWaited, LockWaitOver, SetFree, TypeInv, TypeOK, LockTypeOK
          <5>3. lvg[w] = rec[w].vg
            BY <1>0, <3>3 DEF AcquireWaited, LockWaitOver, Locks
          <5> QED
            BY <3>3, <5>1, <5>2, <5>3
            DEF AcquireWaited, Goto, OnlyLocal, TypeInv, TypeOK, DiskTypeOK
        <4> QED BY <4>1, <4>2
      <3>4. CASE AcquireGivesUp(w) \/ Release(w)
        <4>1. Return(w) /\ lst' = [lst EXCEPT ![w] = "free"] /\ pc[w] \in {"wait", "unlock"}
          BY <3>4 DEF AcquireGivesUp, Release, LockWaitFails, Unlock, UnlockFails, SetFree
        <4>2. lst'[w] = "free"
          BY <4>1 DEF TypeInv, TypeOK, LockTypeOK
        <4> QED BY <4>1, <4>2, ReturnType
      <3> QED BY <1>4, <3>1, <3>2, <3>3, <3>4
    <2>2. \A v \in Workers : v # w => lst'[v] = lst[v] /\ lvg'[v] = lvg[v]
      BY <1>4 DEF Acquire, AcquireFails, AcquireWaited, AcquireGivesUp, Release, NoopAcquire,
           TryAcquire, TryAcquireLate, LockWaitOver, LockWaitFails, Unlock, UnlockFails,
           SetFree, lockVars, TypeInv, TypeOK, LockTypeOK
    <2>3. req[w].op \in {"create", "delete", "extend"}
      BY <1>0, <2>1 DEF Shape, OpAt
    <2>4. Locks(w)'
      BY <2>1, <2>3 DEF Locks, Inside, Creating, Entry
    <2> QED BY <2>1, <2>2, <2>4, OthersLock
  <1>5. CASE CreateGet(w) \/ CreateLV(w) \/ CreateHeader(w) \/ CreatePersist(w) \/ CreateUndo(w)
             \/ DeleteList(w) \/ DeleteLV(w) \/ DeleteRecord(w)
             \/ ExtendLV(w) \/ ExtendPersist(w) \/ ExtendList(w) \/ ExtendResize(w)
    <2>1. /\ UNCHANGED lockVars /\ UNCHANGED <<req, cur>>
          /\ pc[w] \in {"c_get", "c_lv", "c_header", "c_persist", "c_undo", "d_list", "d_lv",
                        "d_record", "e_lv", "e_persist", "e_list", "e_resize"}
      BY <1>5 DEF CreateGet, CreateLV, CreateHeader, CreatePersist, CreateUndo,
           DeleteList, DeleteLV, DeleteRecord, ExtendLV, ExtendPersist, ExtendList,
           ExtendResize, local
    <2>2. rec' = rec \/ rec' = [rec EXCEPT ![w].size = NewSize(rec[w], req[w].in)]
      BY <1>5 DEF CreateGet, CreateLV, CreateHeader, CreatePersist, CreateUndo,
           DeleteList, DeleteLV, DeleteRecord, ExtendLV, ExtendPersist, ExtendList,
           ExtendResize, local
    <2>3. rec'[w].vg = rec[w].vg /\ \A v \in Workers : v # w => rec'[v] = rec[v]
      <3>1. rec[w] \in DiskRec
        BY <1>0, <2>1 DEF Shape
      <3> QED BY <2>2, <3>1 DEF TypeInv, TypeOK, DiskTypeOK, DiskRec
    <2>4. \E l \in {"unlock", "c_lv", "c_header", "c_persist", "c_undo", "detach", "d_lv",
                    "d_record", "e_persist", "e_list", "e_resize"} :
             Goto(w, l) /\ (l = "detach" => DeleteList(w))
      BY <1>5 DEF CreateGet, CreateLV, CreateHeader, CreatePersist, CreateUndo,
           DeleteList, DeleteLV, DeleteRecord, ExtendLV, ExtendPersist, ExtendList,
           ExtendResize
    <2>5. DeleteList(w) => req[w].op = "delete"
      BY <1>0 DEF DeleteList, Shape, OpAt
    <2>6. OnlyLocal(w) /\ Inside(w) /\ Inside(w)' /\ pc'[w] # "wait"
      BY <2>1, <2>3, <2>4, <2>5
      DEF OnlyLocal, Inside, Creating, Goto, TypeInv, TypeOK, DiskTypeOK
    <2> QED BY <2>1, <2>3, <2>6, QuietLocks
  <1>6. CASE DetachGet(w) \/ AttachPick(w) \/ AttachLibvirt(w) \/ AttachPersist(w) \/ AttachUndo(w)
    <2>1. /\ UNCHANGED lockVars
          /\ pc[w] \in {"x_att", "a_pick", "a_libvirt", "a_persist", "a_undo"}
      BY <1>6 DEF DetachGet, AttachPick, AttachLibvirt, AttachPersist, AttachUndo
    <2>2. CASE Return(w)
      <3>1. OnlyLocal(w) /\ pc'[w] = "idle"
        BY <2>2, ReturnType
      <3> QED BY <2>1, <3>1, QuietLocks DEF Inside, Creating
    <2>3. CASE ~Return(w)
      <3>1. /\ UNCHANGED <<req, rec>>
            /\ \E l \in {"detach", "a_libvirt", "a_persist", "a_undo"} : Goto(w, l)
            /\ \A v \in Workers : v # w => cur'[v] = cur[v]
        BY <1>6, <2>3 DEF DetachGet, AttachPick, AttachLibvirt, AttachPersist, AttachUndo,
             local, TypeInv, TypeOK, DiskTypeOK
      <3>2. req[w].op \in {"attach", "detach"}
        BY <1>0, <2>1 DEF Shape, OpAt
      <3>3. OnlyLocal(w) /\ ~Inside(w) /\ ~Inside(w)' /\ pc'[w] # "wait"
        BY <2>1, <3>1, <3>2 DEF OnlyLocal, Inside, Creating, Goto, TypeInv, TypeOK, DiskTypeOK
      <3> QED BY <2>1, <3>3, QuietLocks
    <2> QED BY <2>2, <2>3
  <1>7. CASE DetachLibvirt(w) \/ DetachStore(w)
    <2>1. UNCHANGED lockVars /\ pc[w] \in {"detach", "detached"}
      BY <1>7 DEF DetachLibvirt, DetachStore
    <2>2. req[w].op \in {"delete", "detach"}
      BY <1>0, <2>1 DEF Shape, OpAt
    <2>3. CASE Return(w) /\ Unlocked(req[w].op)
      <3>1. OnlyLocal(w) /\ pc'[w] = "idle"
        BY <2>3, ReturnType
      <3> QED BY <2>1, <2>2, <2>3, <3>1, QuietLocks DEF Inside, Creating, Unlocked
    <2>4. CASE ~(Return(w) /\ Unlocked(req[w].op))
      <3>1. /\ UNCHANGED <<req, rec>>
            /\ \E l \in {"detached", "d_lv", "detach", "unlock"} :
                  Goto(w, l) /\ (l \in {"d_lv", "unlock"} => ~Unlocked(req[w].op))
            /\ \A v \in Workers : v # w => cur'[v] = cur[v]
        BY <1>7, <2>4 DEF DetachLibvirt, DetachStore, Abort, local, TypeInv, TypeOK, DiskTypeOK
      <3>2. OnlyLocal(w) /\ pc'[w] # "wait" /\ (Inside(w)' <=> Inside(w))
        BY <2>1, <2>2, <3>1
        DEF OnlyLocal, Inside, Creating, Goto, Unlocked, TypeInv, TypeOK, DiskTypeOK
      <3> QED BY <2>1, <3>1, <3>2, QuietLocks
    <2> QED BY <2>3, <2>4
  <1> QED
    BY <1>1, <1>2, <1>3, <1>4, <1>5, <1>6, <1>7 DEF Handler

-----------------------------------------------------------------------------
(* The protocol invariant is inductive.                                     *)

LEMMA ProtocolInvInit ==
    ASSUME Init PROVE ProtocolInv
  <1>1. TypeInv /\ LockInv
    BY TypeInvInit, LockInvInit DEF Init
  <1>2. LeaseLives /\ NewIsStill
    BY LockAssumption DEF Init, LockInit, DiskInit, LeaseLives, NewIsStill
  <1>3. LocksItsVG
    BY DEF Init, LockInit, DiskInit, LocksItsVG, Locks, Inside, Creating
  <1> QED BY <1>1, <1>2, <1>3 DEF ProtocolInv

\* A step of a worker: its process runs, processes and leases stay.
LEMMA WorkerRuns ==
    ASSUME NEW w \in Workers,
           CallCreate(w) \/ CallNamed(w) \/ CancelCtx(w) \/ Handler(w)
    PROVE  Runs(w) /\ UNCHANGED <<up, lease>>
  <1> USE DEF At, lockVars
  <1>1. CASE CallCreate(w) \/ CallNamed(w) \/ CancelCtx(w) \/ ReadDisk(w)
    BY <1>1 DEF CallCreate, CallNamed, CancelCtx, ReadDisk
  <1>2. CASE Acquire(w) \/ AcquireFails(w) \/ AcquireWaited(w) \/ AcquireGivesUp(w) \/ Release(w)
    BY <1>2 DEF Acquire, AcquireFails, AcquireWaited, AcquireGivesUp, Release, NoopAcquire,
         TryAcquire, TryAcquireLate, LockWaitOver, LockWaitFails, Unlock, UnlockFails
  <1>3. CASE CreateGet(w) \/ CreateLV(w) \/ CreateHeader(w) \/ CreatePersist(w) \/ CreateUndo(w)
    BY <1>3 DEF CreateGet, CreateLV, CreateHeader, CreatePersist, CreateUndo
  <1>4. CASE DeleteList(w) \/ DetachGet(w) \/ DetachLibvirt(w) \/ DetachStore(w)
             \/ DeleteLV(w) \/ DeleteRecord(w)
    BY <1>4 DEF DeleteList, DetachGet, DetachLibvirt, DetachStore, DeleteLV, DeleteRecord
  <1>5. CASE ExtendLV(w) \/ ExtendPersist(w) \/ ExtendList(w) \/ ExtendResize(w)
    BY <1>5 DEF ExtendLV, ExtendPersist, ExtendList, ExtendResize
  <1>6. CASE AttachPick(w) \/ AttachLibvirt(w) \/ AttachPersist(w) \/ AttachUndo(w)
    BY <1>6 DEF AttachPick, AttachLibvirt, AttachPersist, AttachUndo
  <1> QED BY <1>1, <1>2, <1>3, <1>4, <1>5, <1>6 DEF Handler

LEMMA ProtocolInvStep ==
    ASSUME Clustered, ProtocolInv, [Next]_vars PROVE ProtocolInv'
  <1>1. TypeInv' /\ LockInv'
    BY TypeInvStep, NextLockStep, LockInvStep DEF ProtocolInv, Clustered
  <1>2. CASE UNCHANGED vars
    BY <1>1, <1>2
    DEF vars, lockVars, diskVars, ProtocolInv, LeaseLives, NewIsStill, LocksItsVG, Locks, Inside
  <1>3. ASSUME NEW n \in Nodes, DaemonStep(n), UNCHANGED diskVars PROVE ProtocolInv'
    <2>1. lst' = lst /\ lvg' = lvg
      BY <1>3 DEF DaemonStep, StartDaemon, Crash, EndLease
    <2>2. LocksItsVG'
      BY <1>3, <2>1 DEF diskVars, ProtocolInv, LocksItsVG, Locks, Inside
    <2>3. LeaseLives'
      BY <1>3 DEF DaemonStep, StartDaemon, Crash, EndLease, LeaseLives, ProtocolInv,
           Clustered, LockInv, LockTypeOK
    <2>4. NewIsStill'
      BY <1>3, LockAssumption
      DEF DaemonStep, StartDaemon, Crash, EndLease, NewIsStill, ProtocolInv, diskVars,
          LockInv, LockTypeOK
    <2> QED BY <1>1, <2>2, <2>3, <2>4 DEF ProtocolInv
  <1>4. ASSUME NEW w \in Workers,
               CallCreate(w) \/ CallNamed(w) \/ CancelCtx(w) \/ Handler(w)
        PROVE  ProtocolInv'
    <2>1. Runs(w) /\ UNCHANGED <<up, lease>>
      BY <1>4, WorkerRuns
    <2>2. LocksItsVG' /\ OnlyLocal(w)
      BY <1>1, <1>4, LocksStep DEF ProtocolInv
    <2>3. LeaseLives' /\ NewIsStill'
      BY <2>1, <2>2 DEF ProtocolInv, LeaseLives, NewIsStill, OnlyLocal, Runs
    <2> QED BY <1>1, <2>2, <2>3 DEF ProtocolInv
  <1> QED BY <1>2, <1>3, <1>4 DEF Next

\* Two running workers are never inside the lock of one volume group.
LEMMA InsideAlone ==
    ASSUME Clustered, ProtocolInv, NEW v \in Workers, NEW w \in Workers,
           Runs(v), Runs(w), Inside(v), Inside(w), rec[v].vg = rec[w].vg
    PROVE  v = w
  <1>1. MutualExclusion
    BY LockInvExcludes DEF Clustered, ProtocolInv
  <1>2. lst[v] = "held" /\ lst[w] = "held" /\ lvg[v] = lvg[w]
    BY DEF ProtocolInv, LocksItsVG, Locks
  <1>3. Guarded(v) /\ Guarded(w)
    BY <1>2, LockAssumption DEF Guarded, Holds, Runs, ProtocolInv, LeaseLives
  <1> QED BY <1>1, <1>2, <1>3 DEF MutualExclusion

-----------------------------------------------------------------------------
(* Catalog and volumes.                                                     *)

\* What a CreateDisk past its existence check relies on: no record of its
\* disk in its volume group, unless its own Store.CreateDisk was late; and,
\* once made, its volume.
OwnsLV(w) ==
    /\ pc[w] \in {"c_lv"} \cup Creating
          => ~Recorded(rec[w].vg, Disk(w)) \/ Disk(w) \in lost
    /\ pc[w] \in Creating => lvs[LV(w)] # None

\* What an ExtendDisk or DeleteDisk that has changed the volume relies on: the
\* record it is about to replace or remove is that of the volume, unless the
\* volume was left behind by someone.
WorksOn(w) ==
    /\ pc[w] = "e_persist" => lvs[LV(w)] # None
    /\ pc[w] = "d_record" => lvs[LV(w)] = None
    /\ pc[w] \in {"e_persist", "d_record"}
          => Recorded(rec[w].vg, Disk(w)) \/ Leaky(Disk(w))

Claims(w) == Runs(w) => OwnsLV(w) /\ WorksOn(w)

Consistent ==
    /\ \A w \in Workers : Claims(w)
    /\ RecordHasLV
    /\ NoOrphanLV

\* What a step of w may do to the catalog and the volumes: touch its own disk
\* inside its lock, and replace only a record of its volume group.
Touches(w) ==
    /\ OnlyLocal(w) /\ up' = up /\ Runs(w)
    /\ lost \subseteq lost' /\ leaked \subseteq leaked'
    /\ \A x \in VGs \X Disks :
          ~(lvs'[x] = None <=> lvs[x] = None) => Inside(w) /\ x = LV(w)
    /\ \A d \in Disks : disks'[d] # disks[d] =>
          /\ Inside(w) /\ d = Disk(w)
          /\ disks'[d] = None \/ disks'[d].vg = rec[w].vg
          /\ disks[d] = None \/ Recorded(rec[w].vg, d) \/ Leaky(d)

\* What was left behind stays left behind.
LEMMA LeakyStays ==
    ASSUME NEW w \in Workers, Touches(w), NEW d, Leaky(d)
    PROVE  Leaky(d)'
  BY DEF Touches, Leaky, OnlyLocal, Runs, Disk

\* A step of w does not disturb what another worker relies on.
LEMMA OthersClaims ==
    ASSUME Clustered, ProtocolInv, NEW w \in Workers, NEW v \in Workers, v # w,
           Touches(w), Claims(v)
    PROVE  Claims(v)'
  <1> SUFFICES ASSUME Runs(v), pc[v] \in {"c_lv", "e_persist", "d_record"} \cup Creating
               PROVE  (OwnsLV(v) /\ WorksOn(v))'
    BY DEF Claims, OwnsLV, WorksOn, Touches, OnlyLocal, Runs
  <1>1. Inside(v) /\ Runs(w) /\ OwnsLV(v) /\ WorksOn(v)
    BY DEF Inside, Touches, Claims
  <1>2. pc'[v] = pc[v] /\ rec'[v] = rec[v] /\ req'[v] = req[v]
    BY DEF Touches, OnlyLocal
  <1>3. rec[v] \in DiskRec /\ Disk(v) \in Disks /\ LV(v) \in VGs \X Disks
    <2>1. Shape(v)
      BY DEF ProtocolInv, TypeInv, ShapeOK
    <2>2. rec[v] \in DiskRec /\ req[v] \in Requests
      BY <2>1 DEF Shape, Creating
    <2> QED BY <2>2 DEF Requests, DiskRec, Disk, LV
  <1>4. Inside(w) => rec[v].vg # rec[w].vg
    BY <1>1, InsideAlone
  <1>5. lvs'[LV(v)] = None <=> lvs[LV(v)] = None
    BY <1>3, <1>4 DEF Touches, LV
  <1>6. Recorded(rec[v].vg, Disk(v))' => Recorded(rec[v].vg, Disk(v))
    BY <1>2, <1>3, <1>4 DEF Touches, Recorded, Disk
  <1>7. Recorded(rec[v].vg, Disk(v)) => Recorded(rec[v].vg, Disk(v))' \/ Leaky(Disk(v))
    BY <1>2, <1>3, <1>4 DEF Touches, Recorded, Disk
  <1>8. Leaky(Disk(v)) => Leaky(Disk(v))'
    BY <1>2, LeakyStays DEF Leaky, Disk
  <1>9. OwnsLV(v)'
    BY <1>1, <1>2, <1>5, <1>6 DEF OwnsLV, Touches, Disk, LV, Creating
  <1>10. WorksOn(v)'
    BY <1>1, <1>2, <1>5, <1>7, <1>8 DEF WorksOn, Disk, LV
  <1> QED BY <1>9, <1>10

\* w goes on with the same request and volume.
SameLV(w) == rec'[w].vg = rec[w].vg /\ req'[w] = req[w]

\* RecordHasLV across a step of w: new records have volumes, a recorded volume
\* goes only to d_record or into history, and d_record ends with the record.
LEMMA RecordKept ==
    ASSUME ProtocolInv, NEW w \in Workers, Touches(w), RecordHasLV,
           disks'[Disk(w)] # disks[Disk(w)] /\ disks'[Disk(w)] # None
              => lvs'[<<disks'[Disk(w)].vg, Disk(w)>>] # None,
           lvs[LV(w)] # None /\ lvs'[LV(w)] = None /\ Recorded(rec[w].vg, Disk(w))
              => Disk(w) \in lost' \/ (pc'[w] = "d_record" /\ SameLV(w)),
           pc[w] = "d_record" => disks'[Disk(w)] = None \/ Disk(w) \in lost',
           TypeOK'
    PROVE  RecordHasLV'
  <1> SUFFICES ASSUME NEW d \in Disks, disks'[d] # None,
                      lvs'[<<disks'[d].vg, d>>] = None, d \notin lost'
               PROVE  \E v \in Workers : pc'[v] = "d_record" /\ LV(v)' = <<disks'[d].vg, d>>
    BY DEF RecordHasLV
  <1>1. disks'[d] = disks[d]
    BY DEF Touches
  <1>2. disks[d] \in DiskRec /\ <<disks[d].vg, d>> \in VGs \X Disks
    BY <1>1 DEF ProtocolInv, TypeInv, TypeOK, DiskTypeOK, DiskRec
  <1>3. d \notin lost
    BY DEF Touches
  <1>4. CASE lvs[<<disks[d].vg, d>>] # None
    <2>1. <<disks[d].vg, d>> = LV(w)
      BY <1>1, <1>2, <1>4 DEF Touches
    <2>2. d = Disk(w) /\ disks[d].vg = rec[w].vg
      BY <2>1 DEF LV
    <2>3. Recorded(rec[w].vg, Disk(w))
      BY <1>1, <2>2 DEF Recorded
    <2>4. pc'[w] = "d_record" /\ SameLV(w)
      BY <1>1, <1>4, <2>1, <2>2, <2>3
    <2>5. LV(w)' = <<disks'[d].vg, d>>
      BY <1>1, <2>1, <2>4 DEF LV, Disk, SameLV
    <2> QED BY <2>4, <2>5
  <1>5. CASE lvs[<<disks[d].vg, d>>] = None
    <2>1. PICK v \in Workers : pc[v] = "d_record" /\ LV(v) = <<disks[d].vg, d>>
      BY <1>1, <1>3, <1>5 DEF RecordHasLV
    <2>2. v # w
      BY <2>1, <1>1 DEF LV
    <2>3. pc'[v] = "d_record" /\ LV(v)' = LV(v)
      BY <2>1, <2>2 DEF Touches, OnlyLocal, LV, Disk
    <2> QED BY <1>1, <2>1, <2>3
  <1> QED BY <1>4, <1>5

\* NoOrphanLV across a step of w: a new volume is being created or history, a
\* record goes only with its volume or to another record of the volume, and
\* a creation ends with volume and record, or without either.
LEMMA NoOrphanKept ==
    ASSUME ProtocolInv, NEW w \in Workers, Touches(w), NoOrphanLV,
           lvs[LV(w)] = None /\ lvs'[LV(w)] # None
              => Disk(w) \in leaked' \/ (pc'[w] \in Creating /\ SameLV(w)),
           disks'[Disk(w)] # disks[Disk(w)]
              => \/ disks'[Disk(w)] # None /\ disks'[Disk(w)].vg = rec[w].vg
                 \/ lvs'[LV(w)] = None \/ Leaky(Disk(w)),
           pc[w] \in Creating /\ lvs'[LV(w)] # None
              => \/ disks'[Disk(w)] # None /\ disks'[Disk(w)].vg = rec[w].vg
                 \/ Disk(w) \in leaked' \/ (pc'[w] \in Creating /\ SameLV(w))
    PROVE  NoOrphanLV'
  <1> SUFFICES ASSUME NEW g \in VGs, NEW d \in Disks, lvs'[<<g, d>>] # None,
                      ~Recorded(g, d)', ~Leaky(d)'
               PROVE  \E v \in Workers : (Runs(v) /\ pc[v] \in Creating /\ LV(v) = <<g, d>>)'
    BY DEF NoOrphanLV
  <1>1. ~Leaky(d) /\ d \notin leaked'
    BY LeakyStays DEF Leaky
  <1>2. ASSUME <<g, d>> = LV(w), pc'[w] \in Creating, SameLV(w)
        PROVE  (Runs(w) /\ pc[w] \in Creating /\ LV(w) = <<g, d>>)'
    BY <1>2 DEF Touches, Runs, LV, Disk, SameLV, Creating
  <1>3. <<g, d>> = LV(w) => g = rec[w].vg /\ d = Disk(w)
    BY DEF LV
  <1>4. CASE lvs[<<g, d>>] = None
    <2>1. <<g, d>> = LV(w)
      BY <1>4 DEF Touches
    <2> QED BY <1>1, <1>2, <1>3, <1>4, <2>1
  <1>5. CASE lvs[<<g, d>>] # None /\ Recorded(g, d)
    <2>1. disks'[d] # disks[d]
      BY <1>5 DEF Recorded
    <2>2. d = Disk(w) /\ rec[w].vg = g
      BY <1>1, <1>5, <2>1 DEF Touches, Recorded
    <2> QED BY <1>1, <2>1, <2>2 DEF LV, Recorded
  <1>6. CASE lvs[<<g, d>>] # None /\ ~Recorded(g, d)
    <2>1. PICK v \in Workers : Runs(v) /\ pc[v] \in Creating /\ LV(v) = <<g, d>>
      BY <1>1, <1>6 DEF NoOrphanLV
    <2>2. CASE v = w
      BY <1>1, <1>2, <1>3, <2>1, <2>2 DEF Recorded
    <2>3. CASE v # w
      BY <2>1, <2>3 DEF Touches, OnlyLocal, Runs, LV, Disk, Creating
    <2> QED BY <2>2, <2>3
  <1> QED BY <1>4, <1>5, <1>6

\* A step of w keeps the invariant if it keeps w's part of it.
LEMMA ConsistentKept ==
    ASSUME Clustered, ProtocolInv, Consistent, NEW w \in Workers, Touches(w),
           RecordHasLV', NoOrphanLV', Claims(w)'
    PROVE  Consistent'
  BY OthersClaims DEF Consistent

\* The steps that leave catalog and volumes alone.
LEMMA QuietConsistent ==
    ASSUME Clustered, ProtocolInv, TypeInv', Consistent, NEW w \in Workers,
           OnlyLocal(w), up' = up, Runs(w), disks' = disks,
           lost \subseteq lost', leaked \subseteq leaked',
           \A x \in VGs \X Disks : lvs'[x] = None <=> lvs[x] = None,
           pc[w] \notin {"d_record"} \cup Creating,
           pc'[w] \notin {"c_lv", "e_persist", "d_record"} \cup Creating
    PROVE  Consistent'
  <1>1. Touches(w)
    BY DEF Touches
  <1>2. Claims(w)'
    BY DEF Claims, OwnsLV, WorksOn
  <1>3. RecordHasLV'
    <2> SUFFICES ASSUME NEW d \in Disks, disks[d] # None,
                        lvs[<<disks[d].vg, d>>] = None, d \notin lost
                 PROVE  \E v \in Workers : pc'[v] = "d_record" /\ LV(v)' = <<disks[d].vg, d>>
      <3>1. \A d \in Disks : disks[d] # None => <<disks[d].vg, d>> \in VGs \X Disks
        BY DEF ProtocolInv, TypeInv, TypeOK, DiskTypeOK, DiskRec
      <3> QED BY <3>1 DEF RecordHasLV
    <2>1. PICK v \in Workers : pc[v] = "d_record" /\ LV(v) = <<disks[d].vg, d>>
      BY DEF Consistent, RecordHasLV
    <2> QED BY <2>1 DEF OnlyLocal, LV, Disk
  <1>4. NoOrphanLV'
    <2> SUFFICES ASSUME NEW g \in VGs, NEW d \in Disks, lvs[<<g, d>>] # None,
                        ~Recorded(g, d), ~Leaky(d)
                 PROVE  \E v \in Workers : (Runs(v) /\ pc[v] \in Creating /\ LV(v) = <<g, d>>)'
      BY <1>1, LeakyStays DEF NoOrphanLV, Recorded
    <2>1. PICK v \in Workers : Runs(v) /\ pc[v] \in Creating /\ LV(v) = <<g, d>>
      BY DEF Consistent, NoOrphanLV
    <2> QED BY <2>1 DEF OnlyLocal, LV, Disk, Runs, Creating
  <1> QED BY <1>1, <1>2, <1>3, <1>4, ConsistentKept

-----------------------------------------------------------------------------
(* Every step keeps catalog and volumes consistent.                         *)

LEMMA InsideType ==
    ASSUME ProtocolInv, NEW w \in Workers, Inside(w)
    PROVE  /\ rec[w] \in DiskRec /\ rec[w].vg \in VGs
           /\ Disk(w) \in Disks /\ LV(w) \in VGs \X Disks
  <1>1. Shape(w)
    BY DEF ProtocolInv, TypeInv, ShapeOK
  <1>2. rec[w] \in DiskRec /\ req[w] \in Requests
    BY <1>1 DEF Inside, Shape, Creating
  <1> QED BY <1>2 DEF Requests, DiskRec, Disk, LV

\* A volume that exists while w is inside its lock and not creating it is
\* recorded, or was left behind.
LEMMA VolumeKnown ==
    ASSUME Clustered, ProtocolInv, Consistent, NEW w \in Workers, Runs(w), Inside(w),
           pc[w] \notin Creating, lvs[LV(w)] # None
    PROVE  Recorded(rec[w].vg, Disk(w)) \/ Leaky(Disk(w))
  <1>1. rec[w].vg \in VGs /\ Disk(w) \in Disks
    BY InsideType
  <1>2. ASSUME NEW v \in Workers, Runs(v), pc[v] \in Creating, LV(v) = LV(w)
        PROVE  FALSE
    <2>1. Inside(v) /\ rec[v].vg = rec[w].vg
      BY <1>2 DEF Inside, LV
    <2> QED BY <1>2, <2>1, InsideAlone
  <1> QED BY <1>1, <1>2 DEF Consistent, NoOrphanLV, LV

LEMMA CreateConsistent ==
    ASSUME Clustered, ProtocolInv, TypeInv', Consistent, NEW w \in Workers,
           OnlyLocal(w), up' = up, Runs(w),
           CreateGet(w) \/ CreateLV(w) \/ CreateHeader(w) \/ CreatePersist(w) \/ CreateUndo(w)
    PROVE  Consistent'
  <1> USE DEF At
  <1>0. pc[w] \in {"c_get", "c_lv"} \cup Creating /\ Inside(w) /\ UNCHANGED <<req, rec>>
    BY DEF CreateGet, CreateLV, CreateHeader, CreatePersist, CreateUndo, Inside, Creating, local
  <1>1. /\ rec[w] \in DiskRec /\ rec[w].vg \in VGs
        /\ Disk(w) \in Disks /\ LV(w) \in VGs \X Disks
    BY <1>0, InsideType
  <1>2. /\ disks \in [Disks -> DiskRec \cup {None}]
        /\ lvs \in [VGs \X Disks -> LVRec \cup {None}]
        /\ pc \in [Workers -> PCs]
    BY DEF ProtocolInv, TypeInv, TypeOK, DiskTypeOK
  <1>3. OwnsLV(w) /\ RecordHasLV /\ NoOrphanLV
    BY DEF Consistent, Claims
  <1>4. SameLV(w) /\ LV(w)' = LV(w) /\ Disk(w)' = Disk(w) /\ rec'[w] = rec[w]
    BY <1>0 DEF SameLV, LV, Disk
  <1>5. CASE CreateGet(w)
    <2>1. /\ UNCHANGED <<disks, lvs, lost, leaked>> /\ pc[w] = "c_get"
          /\ pc'[w] = "unlock" \/ (pc'[w] = "c_lv" /\ disks[Disk(w)] = None)
      BY <1>2, <1>5 DEF CreateGet, Goto
    <2>2. Touches(w)
      BY <2>1 DEF Touches
    <2>3. Claims(w)'
      BY <1>4, <2>1 DEF Claims, OwnsLV, WorksOn, Creating, Recorded
    <2>4. RecordHasLV'
      BY <1>1, <1>3, <2>1, <2>2, RecordKept DEF TypeInv
    <2>5. NoOrphanLV'
      BY <1>1, <1>3, <2>1, <2>2, NoOrphanKept DEF Creating
    <2> QED BY <2>2, <2>3, <2>4, <2>5, ConsistentKept
  <1>6. CASE CreateLV(w)
    <2>1. /\ UNCHANGED <<disks, lost>> /\ pc[w] = "c_lv" /\ leaked \subseteq leaked'
          /\ \A x \in VGs \X Disks : x # LV(w) => lvs'[x] = lvs[x]
          /\ \/ lvs' = lvs /\ pc'[w] = "unlock"
             \/ lvs[LV(w)] = None /\ pc'[w] = "unlock" /\ Disk(w) \in leaked'
             \/ lvs[LV(w)] = None /\ lvs'[LV(w)] # None /\ pc'[w] \in {"c_header", "c_persist"}
      <3>1. [size |-> RoundUp(rec[w].size), fmt |-> "raw"] # None
        <4>1. RoundUp(rec[w].size) \in Nat
          BY <1>1, RoundUpNat DEF DiskRec
        <4> QED BY <4>1, NoneAssumption DEF LVRec
      <3> QED BY <1>1, <1>2, <1>6, <3>1 DEF CreateLV, Goto
    <2>2. Touches(w)
      BY <1>0, <2>1 DEF Touches
    <2>3. Claims(w)'
      BY <1>3, <1>4, <2>1 DEF Claims, OwnsLV, WorksOn, Creating, Recorded
    <2>4. RecordHasLV'
      BY <1>1, <1>3, <2>1, <2>2, RecordKept DEF TypeInv
    <2>5. NoOrphanLV'
      BY <1>1, <1>3, <1>4, <2>1, <2>2, NoOrphanKept DEF Creating
    <2> QED BY <2>2, <2>3, <2>4, <2>5, ConsistentKept
  <1>7. CASE CreateHeader(w)
    <2>1. /\ UNCHANGED <<disks, lost, leaked>> /\ pc[w] = "c_header"
          /\ pc'[w] \in {"c_persist", "c_undo"}
          /\ \A x \in VGs \X Disks : lvs'[x] = None <=> lvs[x] = None
      <3>1. /\ UNCHANGED <<disks, lost, leaked>> /\ pc[w] = "c_header"
            /\ pc'[w] \in {"c_persist", "c_undo"}
            /\ \/ lvs' = lvs
               \/ lvs[LV(w)] # None /\ lvs' = [lvs EXCEPT ![LV(w)].fmt = "qcow2"]
        BY <1>2, <1>7 DEF CreateHeader, Goto
      <3>2. lvs[LV(w)] # None => [lvs[LV(w)] EXCEPT !.fmt = "qcow2"] # None
        <4>1. lvs[LV(w)] # None => [lvs[LV(w)] EXCEPT !.fmt = "qcow2"] \in LVRec
          BY <1>1, <1>2 DEF LVRec
        <4> QED BY <4>1, NoneAssumption
      <3> QED BY <1>1, <1>2, <3>1, <3>2
    <2>2. Touches(w)
      BY <1>0, <2>1 DEF Touches
    <2>3. Claims(w)'
      BY <1>1, <1>3, <1>4, <2>1 DEF Claims, OwnsLV, WorksOn, Creating, Recorded
    <2>4. RecordHasLV'
      BY <1>1, <1>3, <2>1, <2>2, RecordKept DEF TypeInv
    <2>5. NoOrphanLV'
      BY <1>1, <1>3, <1>4, <2>1, <2>2, NoOrphanKept DEF Creating
    <2> QED BY <2>2, <2>3, <2>4, <2>5, ConsistentKept
  <1>8. CASE CreatePersist(w)
    <2>1. /\ UNCHANGED <<lvs, leaked>> /\ pc[w] = "c_persist" /\ lost \subseteq lost'
          /\ \/ /\ disks[Disk(w)] = None /\ disks' = [disks EXCEPT ![Disk(w)] = rec[w]]
                /\ pc'[w] = "unlock" \/ (pc'[w] = "c_undo" /\ Disk(w) \in lost')
             \/ disks' = disks /\ pc'[w] = "c_undo"
      BY <1>2, <1>8 DEF CreatePersist, Goto
    <2>2. /\ \A d \in Disks : d # Disk(w) => disks'[d] = disks[d]
          /\ disks'[Disk(w)] # disks[Disk(w)] =>
                disks[Disk(w)] = None /\ disks'[Disk(w)] = rec[w] /\ rec[w] # None
          /\ pc'[w] = "unlock" => disks'[Disk(w)] = rec[w] /\ rec[w] # None
          /\ pc'[w] = "c_undo" => disks' = disks \/ Disk(w) \in lost'
      BY <1>1, <1>2, <2>1, NoneAssumption
    <2>3. Touches(w)
      BY <1>0, <2>1, <2>2 DEF Touches
    <2>4. lvs[LV(w)] # None
      BY <1>3, <2>1 DEF OwnsLV, Creating
    <2>5. Claims(w)'
      BY <1>1, <1>3, <1>4, <2>1, <2>2, <2>4 DEF Claims, OwnsLV, WorksOn, Creating, Recorded
    <2>6. RecordHasLV'
      BY <1>1, <1>3, <2>1, <2>2, <2>3, <2>4, RecordKept DEF TypeInv, LV
    <2>7. NoOrphanLV'
      BY <1>1, <1>3, <1>4, <2>1, <2>2, <2>3, NoOrphanKept DEF Creating
    <2> QED BY <2>3, <2>5, <2>6, <2>7, ConsistentKept
  <1>9. CASE CreateUndo(w)
    <2>1. /\ UNCHANGED <<disks, lost>> /\ pc[w] = "c_undo" /\ pc'[w] = "unlock"
          /\ leaked \subseteq leaked'
          /\ \A x \in VGs \X Disks : x # LV(w) => lvs'[x] = lvs[x]
          /\ lvs'[LV(w)] = None \/ (lvs' = lvs /\ Disk(w) \in leaked')
      BY <1>1, <1>2, <1>9 DEF CreateUndo, Goto
    <2>2. Touches(w)
      BY <1>0, <2>1 DEF Touches
    <2>3. Claims(w)'
      BY <2>1 DEF Claims, OwnsLV, WorksOn, Creating
    <2>4. RecordHasLV'
      <3>1. ~Recorded(rec[w].vg, Disk(w)) \/ Disk(w) \in lost'
        BY <1>3, <2>1 DEF OwnsLV, Creating
      <3> QED BY <1>3, <2>1, <2>2, <3>1, RecordKept DEF TypeInv
    <2>5. NoOrphanLV'
      BY <1>1, <1>3, <2>1, <2>2, NoOrphanKept DEF Creating
    <2> QED BY <2>2, <2>3, <2>4, <2>5, ConsistentKept
  <1> QED BY <1>5, <1>6, <1>7, <1>8, <1>9

LEMMA DeleteConsistent ==
    ASSUME Clustered, ProtocolInv, TypeInv', Consistent, NEW w \in Workers,
           OnlyLocal(w), up' = up, Runs(w), DeleteLV(w) \/ DeleteRecord(w)
    PROVE  Consistent'
  <1> USE DEF At
  <1>0. pc[w] \in {"d_lv", "d_record"} /\ Inside(w) /\ UNCHANGED <<req, rec>>
    BY DEF DeleteLV, DeleteRecord, Inside, local
  <1>1. Disk(w) \in Disks /\ LV(w) \in VGs \X Disks
    BY <1>0, InsideType
  <1>2. /\ disks \in [Disks -> DiskRec \cup {None}]
        /\ lvs \in [VGs \X Disks -> LVRec \cup {None}]
        /\ pc \in [Workers -> PCs]
    BY DEF ProtocolInv, TypeInv, TypeOK, DiskTypeOK
  <1>3. WorksOn(w) /\ RecordHasLV /\ NoOrphanLV
    BY DEF Consistent, Claims
  <1>4. SameLV(w) /\ LV(w)' = LV(w) /\ Disk(w)' = Disk(w) /\ rec'[w] = rec[w]
    BY <1>0 DEF SameLV, LV, Disk
  <1>5. CASE DeleteLV(w)
    <2>1. /\ UNCHANGED <<disks, leaked>> /\ pc[w] = "d_lv" /\ lost \subseteq lost'
          /\ \A x \in VGs \X Disks : x # LV(w) => lvs'[x] = lvs[x]
          /\ \/ lvs' = lvs /\ pc'[w] = "unlock"
             \/ /\ lvs[LV(w)] # None /\ lvs'[LV(w)] = None
                /\ pc'[w] = "d_record" \/ (pc'[w] = "unlock" /\ Disk(w) \in lost')
      BY <1>1, <1>2, <1>5 DEF DeleteLV, Goto, Removable
    <2>2. Touches(w)
      BY <1>0, <2>1 DEF Touches
    <2>3. lvs[LV(w)] # None => Recorded(rec[w].vg, Disk(w)) \/ Leaky(Disk(w))
      BY <1>0, <2>1, VolumeKnown DEF Creating
    <2>4. lvs[LV(w)] # None => Recorded(rec[w].vg, Disk(w))' \/ Leaky(Disk(w))'
      <3>1. Leaky(Disk(w)) => Leaky(Disk(w))'
        BY <1>4, <2>2, LeakyStays DEF Leaky
      <3> QED BY <1>4, <2>1, <2>3, <3>1 DEF Recorded
    <2>5. Claims(w)'
      BY <1>4, <2>1, <2>4 DEF Claims, OwnsLV, WorksOn, Creating
    <2>6. RecordHasLV'
      BY <1>3, <1>4, <2>1, <2>2, RecordKept DEF TypeInv
    <2>7. NoOrphanLV'
      BY <1>3, <2>1, <2>2, NoOrphanKept DEF Creating
    <2> QED BY <2>2, <2>5, <2>6, <2>7, ConsistentKept
  <1>6. CASE DeleteRecord(w)
    <2>1. /\ UNCHANGED <<lvs, leaked>> /\ pc[w] = "d_record" /\ lost \subseteq lost'
          /\ pc'[w] = "unlock"
          /\ \A d \in Disks : d # Disk(w) => disks'[d] = disks[d]
          /\ disks'[Disk(w)] = None \/ (disks' = disks /\ Disk(w) \in lost')
      BY <1>1, <1>2, <1>6 DEF DeleteRecord, Goto
    <2>2. lvs[LV(w)] = None /\ (Recorded(rec[w].vg, Disk(w)) \/ Leaky(Disk(w)))
      BY <1>3, <2>1 DEF WorksOn
    <2>3. Touches(w)
      BY <1>0, <2>1, <2>2 DEF Touches
    <2>4. Claims(w)'
      BY <2>1 DEF Claims, OwnsLV, WorksOn, Creating
    <2>5. RecordHasLV'
      BY <1>3, <2>1, <2>3, RecordKept DEF TypeInv
    <2>6. NoOrphanLV'
      BY <1>3, <2>1, <2>2, <2>3, NoOrphanKept DEF Creating
    <2> QED BY <2>3, <2>4, <2>5, <2>6, ConsistentKept
  <1> QED BY <1>5, <1>6

LEMMA ExtendConsistent ==
    ASSUME Clustered, ProtocolInv, TypeInv', Consistent, NEW w \in Workers,
           OnlyLocal(w), up' = up, Runs(w), ExtendLV(w) \/ ExtendPersist(w)
    PROVE  Consistent'
  <1> USE DEF At
  <1>0. pc[w] \in {"e_lv", "e_persist"} /\ Inside(w) /\ UNCHANGED req
    BY DEF ExtendLV, ExtendPersist, Inside, local
  <1>1. Disk(w) \in Disks /\ LV(w) \in VGs \X Disks /\ rec[w] \in DiskRec
    BY <1>0, InsideType
  <1>2. /\ disks \in [Disks -> DiskRec \cup {None}]
        /\ lvs \in [VGs \X Disks -> LVRec \cup {None}]
        /\ pc \in [Workers -> PCs] /\ rec \in [Workers -> DiskRec \cup {None}]
    BY DEF ProtocolInv, TypeInv, TypeOK, DiskTypeOK
  <1>3. WorksOn(w) /\ RecordHasLV /\ NoOrphanLV
    BY DEF Consistent, Claims
  <1>4. Disk(w)' = Disk(w)
    BY <1>0 DEF Disk
  <1>5. CASE ExtendLV(w)
    <2>1. /\ UNCHANGED <<disks, lost, leaked>> /\ pc[w] = "e_lv"
          /\ rec' = rec \/ rec' = [rec EXCEPT ![w].size = NewSize(rec[w], req[w].in)]
          /\ \/ lvs' = lvs
             \/ /\ lvs[LV(w)] # None
                /\ lvs' = [lvs EXCEPT ![LV(w)].size = Extended(lvs[LV(w)], req[w].in)]
          /\ pc'[w] = "unlock" \/ (pc'[w] = "e_persist" /\ lvs[LV(w)] # None)
      BY <1>2, <1>5 DEF ExtendLV, Goto
    <2>2. lvs' \in [VGs \X Disks -> LVRec \cup {None}]
      BY DEF TypeInv, TypeOK, DiskTypeOK
    <2>3. \A x \in VGs \X Disks : lvs'[x] = None <=> lvs[x] = None
      <3>1. CASE lvs' = lvs
        BY <3>1
      <3>2. CASE /\ lvs[LV(w)] # None
                 /\ lvs' = [lvs EXCEPT ![LV(w)].size = Extended(lvs[LV(w)], req[w].in)]
        <4>1. DEFINE new == [lvs[LV(w)] EXCEPT !.size = Extended(lvs[LV(w)], req[w].in)]
        <4>2. lvs'[LV(w)] = new /\ lvs[LV(w)] \in LVRec
          BY <1>1, <1>2, <3>2
        <4>3. new.fmt = lvs[LV(w)].fmt /\ lvs'[LV(w)] \in LVRec \cup {None}
          BY <1>1, <2>2, <4>2 DEF LVRec
        <4>4. lvs'[LV(w)] # None
          <5>1. Extended(lvs[LV(w)], req[w].in) \in Nat
            <6>1. req[w].in \in ExtendIn
              <7>1. Shape(w)
                BY DEF ProtocolInv, TypeInv, ShapeOK
              <7>2. req[w] \in Requests /\ req[w].op = "extend"
                BY <1>0, <7>1 DEF Shape, OpAt
              <7> QED BY <7>2 DEF Requests
            <6> QED BY <4>2, <6>1, ExtendedNat
          <5>2. new \in LVRec
            BY <4>2, <5>1 DEF LVRec
          <5> QED BY <4>2, <5>2, NoneAssumption
        <4> QED BY <1>1, <1>2, <3>2, <4>4
      <3> QED BY <2>1, <3>1, <3>2
    <2>4. rec'[w].vg = rec[w].vg /\ LV(w)' = LV(w) /\ SameLV(w)
      BY <1>0, <1>1, <1>2, <2>1 DEF LV, Disk, SameLV, DiskRec
    <2>5. Touches(w)
      BY <2>1, <2>3 DEF Touches
    <2>6. lvs[LV(w)] # None => Recorded(rec[w].vg, Disk(w)) \/ Leaky(Disk(w))
      BY <1>0, VolumeKnown DEF Creating
    <2>7. Leaky(Disk(w)) => Leaky(Disk(w))'
      BY <1>4, <2>5, LeakyStays DEF Leaky
    <2>8. lvs[LV(w)] # None => Recorded(rec[w].vg, Disk(w))' \/ Leaky(Disk(w))'
      BY <1>4, <2>1, <2>4, <2>6, <2>7 DEF Recorded
    <2>9. Claims(w)'
      BY <1>1, <1>4, <2>1, <2>3, <2>4, <2>8 DEF Claims, OwnsLV, WorksOn, Creating
    <2>10. RecordHasLV'
      BY <1>1, <1>3, <2>1, <2>3, <2>5, RecordKept DEF TypeInv
    <2>11. NoOrphanLV'
      BY <1>1, <1>3, <2>1, <2>3, <2>5, NoOrphanKept DEF Creating
    <2> QED BY <2>5, <2>9, <2>10, <2>11, ConsistentKept
  <1>6. CASE ExtendPersist(w)
    <2>1. /\ UNCHANGED <<lvs, lost, leaked, rec>> /\ pc[w] = "e_persist"
          /\ pc'[w] \in {"unlock", "e_list"}
          /\ \A d \in Disks : d # Disk(w) => disks'[d] = disks[d]
          /\ disks' = disks \/ disks'[Disk(w)] = rec[w]
      BY <1>1, <1>2, <1>6 DEF ExtendPersist, Goto, local
    <2>2. lvs[LV(w)] # None /\ (Recorded(rec[w].vg, Disk(w)) \/ Leaky(Disk(w)))
      BY <1>3, <2>1 DEF WorksOn
    <2>3. Touches(w)
      BY <1>0, <2>1, <2>2 DEF Touches
    <2>4. Claims(w)'
      BY <2>1 DEF Claims, OwnsLV, WorksOn, Creating
    <2>5. RecordHasLV'
      BY <1>3, <2>1, <2>2, <2>3, RecordKept DEF TypeInv, LV
    <2>6. NoOrphanLV'
      BY <1>1, <1>3, <2>1, <2>3, NoOrphanKept, NoneAssumption DEF Creating
    <2> QED BY <2>3, <2>4, <2>5, <2>6, ConsistentKept
  <1> QED BY <1>5, <1>6

\* All other calls leave the catalog's disks and the volumes alone.
LEMMA OtherConsistent ==
    ASSUME Clustered, ProtocolInv, TypeInv', Consistent, NEW w \in Workers,
           OnlyLocal(w), up' = up, Runs(w),
           \/ CallCreate(w) \/ CallNamed(w) \/ ReadDisk(w)
           \/ Acquire(w) \/ AcquireFails(w) \/ AcquireWaited(w) \/ AcquireGivesUp(w)
           \/ Release(w)
           \/ DeleteList(w) \/ DetachGet(w) \/ DetachLibvirt(w) \/ DetachStore(w)
           \/ ExtendList(w) \/ ExtendResize(w)
           \/ AttachPick(w) \/ AttachLibvirt(w) \/ AttachPersist(w) \/ AttachUndo(w)
    PROVE  Consistent'
  <1> USE DEF At
  <1>1. /\ UNCHANGED <<disks, lvs, lost, leaked>>
        /\ pc[w] \notin {"d_record"} \cup Creating
        /\ \E l \in {"idle", "get", "lock", "wait", "unlock", "c_get", "d_list", "e_lv",
                     "detach", "detached", "d_lv", "e_resize", "a_pick", "a_libvirt",
                     "a_persist", "a_undo", "x_att"} : Goto(w, l)
    <2>1. CASE CallCreate(w) \/ CallNamed(w) \/ ReadDisk(w)
      BY <2>1 DEF CallCreate, CallNamed, ReadDisk, Return, Creating
    <2>2. CASE Acquire(w) \/ AcquireFails(w) \/ AcquireWaited(w) \/ AcquireGivesUp(w)
               \/ Release(w)
      BY <2>2 DEF Acquire, AcquireFails, AcquireWaited, AcquireGivesUp, Release, Return,
           Entry, Creating
    <2>3. CASE DeleteList(w) \/ DetachGet(w) \/ DetachLibvirt(w) \/ DetachStore(w)
      BY <2>3 DEF DeleteList, DetachGet, DetachLibvirt, DetachStore, Return, Abort, Creating
    <2>4. CASE ExtendList(w) \/ ExtendResize(w)
      BY <2>4 DEF ExtendList, ExtendResize, Creating
    <2>5. CASE AttachPick(w) \/ AttachLibvirt(w) \/ AttachPersist(w) \/ AttachUndo(w)
      BY <2>5 DEF AttachPick, AttachLibvirt, AttachPersist, AttachUndo, Return, Creating
    <2> QED BY <2>1, <2>2, <2>3, <2>4, <2>5
  <1>2. pc'[w] \notin {"c_lv", "e_persist", "d_record"} \cup Creating
    BY <1>1 DEF Goto, Creating, ProtocolInv, TypeInv, TypeOK, DiskTypeOK
  <1> QED BY <1>1, <1>2, QuietConsistent

\* A daemon's start, death or lost lease: only the work of its own workers is
\* affected, and what they had made becomes a volume left behind.
LEMMA DaemonConsistent ==
    ASSUME Clustered, ProtocolInv, Consistent, NEW n \in Nodes, DaemonStep(n),
           UNCHANGED diskVars
    PROVE  Consistent'
  <1> USE LockAssumption
  <1>1. UNCHANGED <<disks, lvs, pc, req, rec, lost, leaked>>
    BY DEF diskVars
  <1>2. \A w \in Workers : (Runs(w)' /\ ~Runs(w)) => pc[w] = "idle"
    BY DEF DaemonStep, StartDaemon, Crash, EndLease, Runs, ProtocolInv, NewIsStill,
         LockInv, LockTypeOK
  <1>3. \A w \in Workers : ~Runs(w) /\ pc[w] # "idle" => ~Runs(w)'
    BY <1>2
  <1>4. \A d : Leaky(d) => Leaky(d)'
    BY <1>1, <1>3 DEF Leaky, Disk, Creating
  <1>5. ASSUME NEW w \in Workers PROVE Claims(w)'
    <2>1. CASE pc[w] = "idle"
      BY <1>1, <2>1 DEF Claims, OwnsLV, WorksOn, Creating
    <2>2. CASE pc[w] # "idle"
      <3> SUFFICES ASSUME Runs(w)' PROVE (OwnsLV(w) /\ WorksOn(w))'
        BY DEF Claims
      <3>1. OwnsLV(w) /\ WorksOn(w)
        BY <1>2, <2>2 DEF Consistent, Claims
      <3>2. Leaky(Disk(w)) => Leaky(Disk(w))'
        BY <1>1, <1>4 DEF Leaky, Disk
      <3> QED BY <1>1, <3>1, <3>2 DEF OwnsLV, WorksOn, Recorded, Disk, LV, Creating
    <2> QED BY <2>1, <2>2
  <1>6. RecordHasLV'
    BY <1>1 DEF Consistent, RecordHasLV, LV, Disk
  <1>7. NoOrphanLV'
    <2> SUFFICES ASSUME NEW g \in VGs, NEW d \in Disks, lvs[<<g, d>>] # None,
                        ~Recorded(g, d), ~Leaky(d)'
                 PROVE  \E w \in Workers : (Runs(w) /\ pc[w] \in Creating /\ LV(w) = <<g, d>>)'
      BY <1>1 DEF NoOrphanLV, Recorded
    <2>1. PICK w \in Workers : Runs(w) /\ pc[w] \in Creating /\ LV(w) = <<g, d>>
      BY <1>4 DEF Consistent, NoOrphanLV
    <2>2. Disk(w) = d
      BY <2>1 DEF LV
    <2>3. Runs(w)'
      BY <1>1, <2>1, <2>2 DEF Leaky, Disk, Creating
    <2> QED BY <1>1, <2>1, <2>3 DEF LV, Disk, Creating
  <1> QED BY <1>5, <1>6, <1>7 DEF Consistent

LEMMA WorkerConsistent ==
    ASSUME Clustered, ProtocolInv, TypeInv', Consistent, NEW w \in Workers,
           CallCreate(w) \/ CallNamed(w) \/ CancelCtx(w) \/ Handler(w)
    PROVE  Consistent'
  <1>1. OnlyLocal(w)
    BY LocksStep DEF ProtocolInv
  <1>2. up' = up /\ Runs(w)
    BY WorkerRuns
  <1>3. CASE CancelCtx(w)
    BY <1>2, <1>3 DEF CancelCtx, Consistent, Claims, OwnsLV, WorksOn, RecordHasLV, NoOrphanLV,
         Leaky, Recorded, Runs, LV, Disk, Creating
  <1> QED
    BY <1>1, <1>2, <1>3, CreateConsistent, DeleteConsistent, ExtendConsistent, OtherConsistent
    DEF Handler

LEMMA ConsistentStep ==
    ASSUME Clustered, ProtocolInv, Consistent, [Next]_vars
    PROVE  Consistent'
  <1>1. TypeInv'
    BY TypeInvStep DEF ProtocolInv
  <1>2. CASE UNCHANGED vars
    BY <1>2 DEF vars, lockVars, diskVars, Consistent, Claims, OwnsLV, WorksOn, RecordHasLV,
         NoOrphanLV, Leaky, Recorded, Runs, LV, Disk, Creating
  <1> QED BY <1>1, <1>2, WorkerConsistent, DaemonConsistent DEF Next

LEMMA ConsistentInit ==
    ASSUME Init PROVE Consistent
  BY DEF Init, DiskInit, Consistent, Claims, OwnsLV, WorksOn, RecordHasLV, NoOrphanLV, Creating

SafetyInv == ProtocolInv /\ Consistent

LEMMA SafetyInvariant ==
    ASSUME Clustered PROVE Spec => []SafetyInv
  <1>1. Init => SafetyInv
    BY ProtocolInvInit, ConsistentInit DEF SafetyInv
  <1>2. SafetyInv /\ [Next]_vars => SafetyInv'
    BY ProtocolInvStep, ConsistentStep DEF SafetyInv
  <1> QED BY <1>1, <1>2, PTL DEF Spec

\* In a cluster with one call in flight per daemon, no two handlers whose
\* leases live are inside the lock of one volume group at a time (CreateDisk,
\* DeleteDisk and ExtendDisk between Acquire and release), whatever fails.
THEOREM ServiceExcludes ==
    ASSUME OneWorkerPerNode, Locker = "etcd"
    PROVE  Spec => []MutualExclusion
  BY ServiceUsesLock, LockExcludes, PTL

\* There, while etcd answers, the handlers are let into the lock of a volume
\* group one at a time in the order in which they called Acquire, whoever dies,
\* is cancelled or loses its lease.
THEOREM ServiceIsFirstCome ==
    ASSUME OneWorkerPerNode, Locker = "etcd", EtcdAnswers
    PROVE  Spec => ImplementsFirstCome
  BY ServiceUsesLock, LockIsFirstCome, PTL

\* There, every disk in the catalog has its volume, whatever calls fail,
\* answer late or are cancelled and whatever daemons die, but for the deletes
\* and late creates that RecordHasLV names.
THEOREM RecordsHaveVolumes ==
    ASSUME Clustered PROVE Spec => []RecordHasLV
  <1>1. SafetyInv => RecordHasLV
    BY DEF SafetyInv, Consistent
  <1> QED BY <1>1, SafetyInvariant, PTL

\* There, every volume is in the catalog or being created, unless a rollback
\* of CreateDisk failed or a daemon died half-way.
THEOREM VolumesHaveRecords ==
    ASSUME Clustered PROVE Spec => []NoOrphanLV
  <1>1. SafetyInv => NoOrphanLV
    BY DEF SafetyInv, Consistent
  <1> QED BY <1>1, SafetyInvariant, PTL

\* A volume goes away only in lvremove, called by a rollback or a delete.
LEMMA RemovalStep ==
    ASSUME ProtocolInv, [Next]_vars, TypeInv', NEW x \in VGs \X Disks,
           lvs[x] # None, lvs'[x] = None
    PROVE  \E w \in Workers : Runs(w) /\ pc[w] \in {"c_undo", "d_lv"} /\ LV(w) = x
  <1>0. lvs \in [VGs \X Disks -> LVRec \cup {None}]
    BY DEF ProtocolInv, TypeInv, TypeOK, DiskTypeOK
  <1>1. CASE lvs' = lvs
    BY <1>1
  <1>2. CASE UNCHANGED vars \/ \E n \in Nodes : DaemonStep(n) /\ UNCHANGED diskVars
    BY <1>1, <1>2 DEF vars, diskVars
  <1>3. ASSUME NEW w \in Workers,
               CallCreate(w) \/ CallNamed(w) \/ CancelCtx(w) \/ Handler(w)
        PROVE  Runs(w) /\ pc[w] \in {"c_undo", "d_lv"} /\ LV(w) = x
    <2> USE DEF At
    <2>1. CASE CallCreate(w) \/ CallNamed(w) \/ CancelCtx(w) \/ ReadDisk(w)
      BY <1>1, <2>1 DEF CallCreate, CallNamed, CancelCtx, ReadDisk
    <2>2. CASE Acquire(w) \/ AcquireFails(w) \/ AcquireWaited(w) \/ AcquireGivesUp(w)
               \/ Release(w)
      BY <1>1, <2>2 DEF Acquire, AcquireFails, AcquireWaited, AcquireGivesUp, Release
    <2>3. CASE CreateGet(w) \/ CreatePersist(w) \/ DeleteList(w) \/ DetachGet(w)
               \/ DetachLibvirt(w) \/ DetachStore(w) \/ DeleteRecord(w)
               \/ ExtendPersist(w) \/ ExtendList(w) \/ ExtendResize(w)
               \/ AttachPick(w) \/ AttachLibvirt(w) \/ AttachPersist(w) \/ AttachUndo(w)
      BY <1>1, <2>3 DEF CreateGet, CreatePersist, DeleteList, DetachGet, DetachLibvirt,
           DetachStore, DeleteRecord, ExtendPersist, ExtendList, ExtendResize, AttachPick,
           AttachLibvirt, AttachPersist, AttachUndo
    <2>4. CASE CreateUndo(w) \/ DeleteLV(w)
      BY <1>0, <2>4 DEF CreateUndo, DeleteLV
    <2>5. CASE CreateLV(w)
      BY <1>0, <2>5 DEF CreateLV
    <2>6. CASE CreateHeader(w)
      <3>1. lvs' = lvs \/ lvs' = [lvs EXCEPT ![LV(w)].fmt = "qcow2"]
        BY <2>6 DEF CreateHeader
      <3>2. LV(w) = x /\ lvs'[x] = [lvs[x] EXCEPT !.fmt = "qcow2"]
        BY <1>0, <3>1
      <3>3. lvs'[x] \in LVRec
        BY <1>0, <3>2 DEF LVRec
      <3> QED BY <3>3, NoneAssumption
    <2>7. CASE ExtendLV(w)
      <3>1. /\ pc[w] = "e_lv"
            /\ \/ lvs' = lvs
               \/ lvs' = [lvs EXCEPT ![LV(w)].size = Extended(lvs[LV(w)], req[w].in)]
        BY <2>7 DEF ExtendLV
      <3>2. LV(w) = x /\ lvs'[x] = [lvs[x] EXCEPT !.size = Extended(lvs[x], req[w].in)]
        BY <1>0, <3>1
      <3>3. req[w].in \in ExtendIn
        <4>1. Shape(w)
          BY DEF ProtocolInv, TypeInv, ShapeOK
        <4>2. req[w] \in Requests /\ req[w].op = "extend"
          BY <3>1, <4>1 DEF Shape, OpAt
        <4> QED BY <4>2 DEF Requests
      <3>4. lvs[x] \in LVRec
        BY <1>0
      <3>5. Extended(lvs[x], req[w].in) \in Nat
        BY <3>3, <3>4, ExtendedNat
      <3>6. lvs'[x] \in LVRec
        BY <3>2, <3>4, <3>5 DEF LVRec
      <3> QED BY <3>6, NoneAssumption
    <2> QED BY <1>3, <2>1, <2>2, <2>3, <2>4, <2>5, <2>6, <2>7 DEF Handler
  <1> QED BY <1>2, <1>3 DEF Next

\* There, the volume of a recorded disk is removed by a DeleteDisk only, never
\* by the rollback of another CreateDisk (unless that one's own record came
\* late).
THEOREM RollbackSpares ==
    ASSUME Clustered PROVE Spec => OnlyDeleteRemoves
  <1>1. ASSUME SafetyInv, [Next]_vars, NEW g \in VGs, NEW d \in Disks,
               lvs[<<g, d>>] # None, lvs'[<<g, d>>] = None, Recorded(g, d), d \notin lost
        PROVE  \E w \in Workers : pc[w] = "d_lv" /\ LV(w) = <<g, d>>
    <2>1. PICK w \in Workers : Runs(w) /\ pc[w] \in {"c_undo", "d_lv"} /\ LV(w) = <<g, d>>
      BY <1>1, RemovalStep, TypeInvStep DEF SafetyInv, ProtocolInv
    <2>2. pc[w] # "c_undo"
      BY <1>1, <2>1 DEF SafetyInv, Consistent, Claims, OwnsLV, Creating, LV
    <2> QED BY <2>1, <2>2
  <1>2. SafetyInv /\ [Next]_vars =>
          [\A g \in VGs, d \in Disks :
              lvs[<<g, d>>] # None /\ lvs'[<<g, d>>] = None /\ Recorded(g, d)
                => d \in lost \/ \E w \in Workers : pc[w] = "d_lv" /\ LV(w) = <<g, d>>]_vars
    BY <1>1
  <1> QED BY <1>2, SafetyInvariant, PTL DEF Spec, OnlyDeleteRemoves
=============================================================================
