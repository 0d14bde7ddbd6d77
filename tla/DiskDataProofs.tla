---------------------------- MODULE DiskDataProofs ----------------------------
(***************************************************************************)
(* What the records of the disk service say of volumes and domains, for    *)
(* any number of daemons, volume groups and disks: sizes and formats while *)
(* no disk is deleted, and attachments while nothing is detached.  Deletes *)
(* and detaches are what ages the copies a handler works from; with them,  *)
(* attachments and sizes while the calls take turns.                       *)
(***************************************************************************)
EXTENDS DiskSafetyProofs

-----------------------------------------------------------------------------
(* Sizes.                                                                   *)

LEMMA DivFacts ==
    ASSUME NEW a \in Nat, NEW b \in Nat \ {0}
    PROVE  /\ a \div b \in Nat /\ a % b \in Nat
           /\ a % b < b /\ a % b =< a
           /\ a = b * (a \div b) + (a % b)
  <1>1. a \div b \in Nat /\ a % b \in Nat /\ a % b < b
    OBVIOUS
  <1>2. a = b * (a \div b) + (a % b)
    OBVIOUS
  <1>3. b * (a \div b) \in Nat
    BY <1>1
  <1> QED BY <1>1, <1>2, <1>3

LEMMA RoundUpGrows ==
    ASSUME NEW s \in Nat PROVE s =< RoundUp(s)
  <1>1. Extent \in Nat \ {0}
    BY DiskAssumption
  <1>2. PICK a \in Nat : a = s + Extent - 1
    BY <1>1
  <1>3. PICK q \in Nat : q = a \div Extent
    BY <1>1, DivFacts
  <1>4. PICK r \in Nat : r < Extent /\ a = Extent * q + r
    BY <1>1, <1>3, DivFacts
  <1>5. Extent * q = q * Extent /\ q * Extent \in Nat
    BY <1>1
  <1>6. RoundUp(s) = q * Extent
    BY <1>2, <1>3 DEF RoundUp
  <1>7. PICK m \in Nat : m = q * Extent
    BY <1>5
  <1> QED BY <1>1, <1>2, <1>4, <1>5, <1>6, <1>7

LEMMA DivMonotone ==
    ASSUME NEW a \in Nat, NEW b \in Nat, a =< b
    PROVE  a \div 100 =< b \div 100
  OBVIOUS

\* what ExtendDisk writes to the record is at most what lvextend made of the
\* volume, if the handler's copy was at most the volume's size
LEMMA NewSizeFits ==
    ASSUME NEW r \in DiskRec, NEW lv \in LVRec, NEW in \in ExtendIn, r.size =< lv.size
    PROVE  NewSize(r, in) =< Extended(lv, in)
  <1>1. /\ r.size \in Nat /\ lv.size \in Nat
        /\ in.pct \in Nat /\ in.size \in Nat /\ in.delta \in Nat
    BY DEF DiskRec, LVRec, ExtendIn
  <1>2. Word \in Nat \ {0}
    BY DiskAssumption
  <1>3. CASE in.pct > 0
    <2>1. PICK a \in Nat, b \in Nat : a = r.size * in.pct /\ b = lv.size * in.pct /\ a =< b
      <3>1. r.size * in.pct \in Nat /\ lv.size * in.pct \in Nat
        BY <1>1
      <3>2. r.size * in.pct =< lv.size * in.pct
        BY <1>1
      <3> QED BY <3>1, <3>2
    <2>2. PICK c \in Nat : c = a % Word /\ c =< a
      BY <1>2, DivFacts
    <2>3. c \div 100 \in Nat /\ (b + 99) \div 100 \in Nat
      BY DivFacts
    <2>4. c \div 100 =< (b + 99) \div 100
      BY <2>1, <2>2, DivMonotone
    <2>5. PICK x \in Nat, y \in Nat : x = c \div 100 /\ y = (b + 99) \div 100 /\ x =< y
      BY <2>3, <2>4
    <2>6. PICK n \in Nat : n = r.size + x
      BY <1>1
    <2>7. NewSize(r, in) = n % Word
      BY <1>3, <2>1, <2>2, <2>5, <2>6 DEF NewSize
    <2>8. Extended(lv, in) = lv.size + RoundUp(y)
      BY <1>3, <2>1, <2>5 DEF Extended, Percent
    <2>9. RoundUp(y) \in Nat /\ y =< RoundUp(y)
      BY RoundUpNat, RoundUpGrows
    <2>10. n % Word \in Nat /\ n % Word =< n
      BY <1>2, DivFacts
    <2> QED BY <1>1, <2>5, <2>6, <2>7, <2>8, <2>9, <2>10
  <1>4. CASE ~(in.pct > 0) /\ in.size > 0
    <2>1. NewSize(r, in) = in.size /\ Extended(lv, in) = RoundUp(in.size)
      BY <1>4 DEF NewSize, Extended
    <2> QED BY <1>1, <2>1, RoundUpGrows
  <1>5. CASE ~(in.pct > 0) /\ ~(in.size > 0)
    <2>1. NewSize(r, in) = (r.size + in.delta) % Word
      BY <1>5 DEF NewSize
    <2>2. Extended(lv, in) = lv.size + RoundUp(in.delta)
      BY <1>5 DEF Extended
    <2>3. (r.size + in.delta) % Word \in Nat /\ (r.size + in.delta) % Word =< r.size + in.delta
      BY <1>1, <1>2, DivFacts
    <2>4. RoundUp(in.delta) \in Nat /\ in.delta =< RoundUp(in.delta)
      BY <1>1, RoundUpNat, RoundUpGrows
    <2> QED BY <1>1, <2>1, <2>2, <2>3, <2>4
  <1> QED BY <1>3, <1>4, <1>5

-----------------------------------------------------------------------------
(* Records, copies of records, and volumes.                                 *)

\* r says of the volume v what is true of it.
Faithful(r, v) ==
    v # None => r.size =< v.size /\ ((r.mode = "thin") = (v.fmt = "qcow2"))

\* The copy of a record that a handler works from, read before any lock, is
\* still a copy of the disk in that volume group, and true of its volume.
HoldsCopy(w) == pc[w] \notin {"idle", "get"} /\ req[w].op # "create"
CopyTrue(w) ==
    HoldsCopy(w) => Recorded(rec[w].vg, Disk(w)) /\ Faithful(rec[w], lvs[LV(w)])

\* The record CreateDisk is about to write is the first one of its volume, and
\* true of it.
Fresh(w) ==
    /\ pc[w] \in {"c_lv", "c_header", "c_persist"} => ~Recorded(rec[w].vg, Disk(w))
    /\ pc[w] \in {"c_header", "c_persist"} => rec[w].size =< lvs[LV(w)].size
    /\ pc[w] = "c_header" => rec[w].mode = "thin"
    /\ pc[w] = "c_persist" => Faithful(rec[w], lvs[LV(w)])
FreshHere(w) == Runs(w) => Fresh(w)

RecordsTrue ==
    \A d \in Disks : disks[d] # None => Faithful(disks[d], lvs[<<disks[d].vg, d>>])

NoDeletes(w) == pc[w] # "idle" => req[w].op # "delete"

DataInv ==
    /\ \A w \in Workers : NoDeletes(w) /\ CopyTrue(w) /\ FreshHere(w)
    /\ RecordsTrue

\* What a step of w may do: records stay in their volume group; volumes and
\* records change inside the lock only; a new record is true of its volume; a
\* recorded volume only grows.
DataStep(w) ==
    /\ OnlyLocal(w) /\ up' = up /\ Runs(w)
    /\ \A d \in Disks : disks[d] # None => disks'[d] # None /\ disks'[d].vg = disks[d].vg
    /\ \A x \in VGs \X Disks : lvs'[x] # lvs[x] => Inside(w) /\ x = LV(w)
    /\ \A d \in Disks : disks'[d] # disks[d] =>
          /\ Inside(w) /\ d = Disk(w) /\ disks'[d].vg = rec[w].vg
          /\ Faithful(disks'[d], lvs'[<<disks'[d].vg, d>>])
    /\ \A g \in VGs, d \in Disks :
          LET old == lvs[<<g, d>>]
              new == lvs'[<<g, d>>]
          IN  Recorded(g, d) /\ new # None
                => old # None /\ old.size =< new.size /\ old.fmt = new.fmt

\* Growing a volume keeps what is said of it true.
LEMMA FaithfulGrows ==
    ASSUME NEW r \in DiskRec, NEW old \in LVRec \cup {None}, NEW new \in LVRec \cup {None},
           Faithful(r, old),
           new # None => old # None /\ old.size =< new.size /\ old.fmt = new.fmt
    PROVE  Faithful(r, new)
  BY DEF Faithful, DiskRec, LVRec

LEMMA OthersCopy ==
    ASSUME ProtocolInv, TypeInv', NEW w \in Workers, NEW v \in Workers, v # w,
           DataStep(w), CopyTrue(v)
    PROVE  CopyTrue(v)'
  <1>1. pc'[v] = pc[v] /\ req'[v] = req[v] /\ rec'[v] = rec[v]
    BY DEF DataStep, OnlyLocal
  <1> SUFFICES ASSUME HoldsCopy(v)
               PROVE  (Recorded(rec[v].vg, Disk(v)) /\ Faithful(rec[v], lvs[LV(v)]))'
    BY <1>1 DEF CopyTrue, HoldsCopy
  <1>2. /\ rec[v] \in DiskRec /\ rec[v].vg \in VGs
        /\ Disk(v) \in Disks /\ LV(v) \in VGs \X Disks
    BY WorkerType DEF HoldsCopy, ProtocolInv
  <1>3. Recorded(rec[v].vg, Disk(v)) /\ Faithful(rec[v], lvs[LV(v)])
    BY DEF CopyTrue
  <1>4. disks'[Disk(v)] # None /\ disks'[Disk(v)].vg = rec[v].vg
    BY <1>2, <1>3 DEF DataStep, Recorded
  <1>5. lvs[LV(v)] \in LVRec \cup {None} /\ lvs'[LV(v)] \in LVRec \cup {None}
    BY <1>2 DEF ProtocolInv, TypeInv, TypeOK, DiskTypeOK
  <1>6. lvs'[LV(v)] # None => /\ lvs[LV(v)] # None
                              /\ lvs[LV(v)].size =< lvs'[LV(v)].size
                              /\ lvs[LV(v)].fmt = lvs'[LV(v)].fmt
    BY <1>2, <1>3 DEF DataStep, LV
  <1>7. Faithful(rec[v], lvs'[LV(v)])
    BY <1>2, <1>3, <1>5, <1>6, FaithfulGrows
  <1> QED BY <1>1, <1>4, <1>7 DEF Recorded, Faithful, Disk, LV

LEMMA OthersFresh ==
    ASSUME Clustered, ProtocolInv, NEW w \in Workers, NEW v \in Workers, v # w,
           DataStep(w), FreshHere(v)
    PROVE  FreshHere(v)'
  <1>1. pc'[v] = pc[v] /\ req'[v] = req[v] /\ rec'[v] = rec[v]
    BY DEF DataStep, OnlyLocal
  <1> SUFFICES ASSUME Runs(v), pc[v] \in {"c_lv", "c_header", "c_persist"}
               PROVE  Fresh(v)'
    BY <1>1 DEF FreshHere, Fresh, Runs, DataStep
  <1>2. Inside(v) /\ Fresh(v)
    BY DEF Inside, Creating, FreshHere
  <1>3. rec[v].vg \in VGs /\ Disk(v) \in Disks /\ LV(v) \in VGs \X Disks
    BY <1>2, InsideType
  <1>4. Inside(w) => rec[v].vg # rec[w].vg
    BY <1>2, InsideAlone DEF DataStep
  <1>5. lvs'[LV(v)] = lvs[LV(v)]
    BY <1>3, <1>4 DEF DataStep, LV
  <1>6. ~Recorded(rec[v].vg, Disk(v))'
    BY <1>1, <1>2, <1>3, <1>4 DEF DataStep, Fresh, Recorded, Disk
  <1> QED BY <1>1, <1>2, <1>5, <1>6 DEF Fresh, Faithful, LV, Disk, Recorded

\* A step of w keeps the invariant if it keeps w's part of it.
LEMMA DataKept ==
    ASSUME Clustered, ProtocolInv, TypeInv', DataInv, NEW w \in Workers, DataStep(w),
           NoDeletes(w)', CopyTrue(w)', FreshHere(w)'
    PROVE  DataInv'
  <1>1. ASSUME NEW v \in Workers PROVE (NoDeletes(v) /\ CopyTrue(v) /\ FreshHere(v))'
    <2>1. CASE v = w
      BY <2>1
    <2>2. CASE v # w
      <3>1. NoDeletes(v)'
        BY <2>2 DEF DataInv, NoDeletes, DataStep, OnlyLocal
      <3> QED BY <2>2, <3>1, OthersCopy, OthersFresh DEF DataInv
    <2> QED BY <2>1, <2>2
  <1>2. ASSUME NEW d \in Disks, disks'[d] # None
        PROVE  Faithful(disks'[d], lvs'[<<disks'[d].vg, d>>])
    <2>1. CASE disks'[d] # disks[d]
      BY <2>1 DEF DataStep
    <2>2. CASE disks'[d] = disks[d]
      <3>1. disks[d] \in DiskRec /\ disks[d].vg \in VGs /\ <<disks[d].vg, d>> \in VGs \X Disks
        BY <1>2, <2>2 DEF ProtocolInv, TypeInv, TypeOK, DiskTypeOK, DiskRec
      <3>2. Faithful(disks[d], lvs[<<disks[d].vg, d>>])
        BY <1>2, <2>2 DEF DataInv, RecordsTrue
      <3>3. /\ lvs[<<disks[d].vg, d>>] \in LVRec \cup {None}
            /\ lvs'[<<disks[d].vg, d>>] \in LVRec \cup {None}
        BY <3>1 DEF ProtocolInv, TypeInv, TypeOK, DiskTypeOK
      <3>4. Recorded(disks[d].vg, d)
        BY <1>2, <2>2 DEF Recorded
      <3>5. lvs'[<<disks[d].vg, d>>] # None =>
               /\ lvs[<<disks[d].vg, d>>] # None
               /\ lvs[<<disks[d].vg, d>>].size =< lvs'[<<disks[d].vg, d>>].size
               /\ lvs[<<disks[d].vg, d>>].fmt = lvs'[<<disks[d].vg, d>>].fmt
        BY <3>1, <3>4 DEF DataStep
      <3>6. Faithful(disks[d], lvs'[<<disks[d].vg, d>>])
        BY <3>1, <3>2, <3>3, <3>5, FaithfulGrows
      <3> QED BY <2>2, <3>6
    <2> QED BY <2>1, <2>2
  <1>3. RecordsTrue'
    BY <1>2 DEF RecordsTrue, Faithful
  <1> QED BY <1>1, <1>3 DEF DataInv

-----------------------------------------------------------------------------
(* Every step keeps records, copies and volumes in agreement.               *)

\* The steps that leave catalog and volumes alone.
LEMMA QuietData ==
    ASSUME TypeInv, NEW w \in Workers, OnlyLocal(w), up' = up, Runs(w),
           UNCHANGED <<disks, lvs>>
    PROVE  DataStep(w)
  <1>1. ASSUME NEW g \in VGs, NEW d \in Disks, lvs[<<g, d>>] # None
        PROVE  lvs[<<g, d>>].size =< lvs[<<g, d>>].size
    BY <1>1 DEF TypeInv, TypeOK, DiskTypeOK, LVRec
  <1> QED BY <1>1 DEF DataStep

LEMMA CallData ==
    ASSUME Clustered, "delete" \notin Ops, ProtocolInv, TypeInv', DataInv, NEW w \in Workers,
           OnlyLocal(w), up' = up, Runs(w),
           CallCreate(w) \/ CallNamed(w) \/ CancelCtx(w) \/ ReadDisk(w)
    PROVE  DataInv'
  <1> USE DEF At
  <1>0. UNCHANGED <<disks, lvs>>
    BY DEF CallCreate, CallNamed, CancelCtx, ReadDisk
  <1>1. DataStep(w)
    BY <1>0, QuietData DEF ProtocolInv
  <1>2. /\ pc \in [Workers -> PCs] /\ req \in [Workers -> Requests \cup {None}]
        /\ rec \in [Workers -> DiskRec \cup {None}]
        /\ disks \in [Disks -> DiskRec \cup {None}]
    BY DEF ProtocolInv, TypeInv, TypeOK, DiskTypeOK
  <1>3. NoDeletes(w) /\ CopyTrue(w) /\ FreshHere(w)
    BY DEF DataInv
  <1>4. CASE CallCreate(w)
    <2>1. pc'[w] = "lock" /\ req'[w].op = "create"
      BY <1>2, <1>4 DEF CallCreate, Goto
    <2> QED BY <1>1, <2>1, DataKept DEF NoDeletes, CopyTrue, HoldsCopy, FreshHere, Fresh
  <1>5. CASE CallNamed(w)
    <2>1. pc'[w] = "get" /\ req'[w] \in NamedRequests
      BY <1>2, <1>5 DEF CallNamed, Goto
    <2>2. req'[w].op # "delete"
      BY <2>1 DEF NamedRequests
    <2> QED BY <1>1, <2>1, <2>2, DataKept DEF NoDeletes, CopyTrue, HoldsCopy, FreshHere, Fresh
  <1>6. CASE CancelCtx(w)
    <2>1. UNCHANGED <<pc, req, rec>>
      BY <1>6 DEF CancelCtx
    <2>2. (NoDeletes(w) /\ CopyTrue(w) /\ FreshHere(w))'
      BY <1>0, <1>3, <2>1 DEF NoDeletes, CopyTrue, HoldsCopy, FreshHere, Fresh, Faithful,
           Recorded, Disk, LV, Runs
    <2> QED BY <1>1, <2>2, DataKept
  <1>7. CASE ReadDisk(w)
    <2>1. CASE Return(w)
      <3>1. pc'[w] = "idle" /\ req'[w] = None
        BY <1>2, <2>1 DEF Return, Goto
      <3> QED BY <1>1, <3>1, DataKept DEF NoDeletes, CopyTrue, HoldsCopy, FreshHere, Fresh
    <2>2. CASE ~Return(w)
      <3>1. /\ pc[w] = "get" /\ req' = req /\ pc'[w] \in {"a_pick", "x_att", "lock"}
            /\ disks[Disk(w)] # None /\ rec'[w] = disks[Disk(w)]
        BY <1>2, <1>7, <2>2 DEF ReadDisk, Goto
      <3>2. Disk(w) \in Disks
        BY <3>1, WorkerType DEF ProtocolInv
      <3>3. Faithful(disks[Disk(w)], lvs[<<disks[Disk(w)].vg, Disk(w)>>])
        BY <3>1, <3>2 DEF DataInv, RecordsTrue
      <3>4. CopyTrue(w)'
        BY <1>0, <3>1, <3>3 DEF CopyTrue, Recorded, Faithful, LV, Disk
      <3>5. NoDeletes(w)' /\ FreshHere(w)'
        BY <1>3, <3>1 DEF NoDeletes, FreshHere, Fresh
      <3> QED BY <1>1, <3>4, <3>5, DataKept
    <2> QED BY <2>1, <2>2
  <1> QED BY <1>4, <1>5, <1>6, <1>7

\* The calls of a request under way that leave catalog and volumes alone.
LEMMA OtherData ==
    ASSUME Clustered, ProtocolInv, TypeInv', DataInv, NEW w \in Workers,
           OnlyLocal(w), up' = up, Runs(w),
           \/ Acquire(w) \/ AcquireFails(w) \/ AcquireWaited(w) \/ AcquireGivesUp(w)
           \/ Release(w) \/ CreateGet(w)
           \/ DeleteList(w) \/ DetachGet(w) \/ DetachLibvirt(w) \/ DetachStore(w)
           \/ ExtendList(w) \/ ExtendResize(w)
           \/ AttachPick(w) \/ AttachLibvirt(w) \/ AttachPersist(w) \/ AttachUndo(w)
    PROVE  DataInv'
  <1> USE DEF At
  <1>1. /\ UNCHANGED <<disks, lvs>> /\ pc[w] \notin {"idle", "get"}
        /\ \/ Return(w)
           \/ /\ UNCHANGED <<req, rec>>
              /\ \/ \E l \in {"wait", "unlock", "c_get", "d_list", "e_lv",
                              "detach", "detached", "d_lv", "e_resize", "a_pick", "a_libvirt",
                              "a_persist", "a_undo"} : Goto(w, l)
                 \/ Goto(w, "c_lv") /\ disks[Disk(w)] = None
    <2>1. CASE Acquire(w) \/ AcquireFails(w) \/ AcquireWaited(w) \/ AcquireGivesUp(w)
               \/ Release(w)
      BY <2>1 DEF Acquire, AcquireFails, AcquireWaited, AcquireGivesUp, Release, Entry, local
    <2>2. CASE CreateGet(w) \/ DeleteList(w) \/ DetachGet(w)
      BY <2>2 DEF CreateGet, DeleteList, DetachGet, local
    <2>3. CASE DetachLibvirt(w) \/ DetachStore(w)
      BY <2>3 DEF DetachLibvirt, DetachStore, Abort, local
    <2>4. CASE ExtendList(w) \/ ExtendResize(w)
      BY <2>4 DEF ExtendList, ExtendResize
    <2>5. CASE AttachPick(w) \/ AttachLibvirt(w) \/ AttachPersist(w) \/ AttachUndo(w)
      BY <2>5 DEF AttachPick, AttachLibvirt, AttachPersist, AttachUndo, local
    <2> QED BY <2>1, <2>2, <2>3, <2>4, <2>5
  <1>2. DataStep(w)
    BY <1>1, QuietData DEF ProtocolInv
  <1>3. pc \in [Workers -> PCs] /\ req \in [Workers -> Requests \cup {None}]
    BY DEF ProtocolInv, TypeInv, TypeOK, DiskTypeOK
  <1>4. NoDeletes(w) /\ CopyTrue(w)
    BY DEF DataInv
  <1>5. CASE Return(w)
    <2>1. pc'[w] = "idle" /\ req'[w] = None
      BY <1>3, <1>5 DEF Return, Goto
    <2> QED BY <1>2, <2>1, DataKept DEF NoDeletes, CopyTrue, HoldsCopy, FreshHere, Fresh
  <1>6. CASE ~Return(w)
    <2>1. /\ UNCHANGED <<req, rec>>
          /\ pc'[w] \notin {"c_header", "c_persist"}
          /\ pc'[w] = "c_lv" => disks[Disk(w)] = None
      BY <1>1, <1>3, <1>6 DEF Goto
    <2>2. NoDeletes(w)'
      BY <1>1, <1>4, <2>1 DEF NoDeletes
    <2>3. CopyTrue(w)'
      BY <1>1, <1>4, <2>1 DEF CopyTrue, HoldsCopy, Recorded, Faithful, Disk, LV
    <2>4. FreshHere(w)'
      BY <1>1, <2>1 DEF FreshHere, Fresh, Recorded, Disk
    <2> QED BY <1>2, <2>2, <2>3, <2>4, DataKept
  <1> QED BY <1>5, <1>6

\* A handler that creates a disk holds no copy of a record.
LEMMA CreatorOp ==
    ASSUME ProtocolInv, NEW w \in Workers, pc[w] \in {"c_lv"} \cup Creating
    PROVE  /\ req[w].op = "create" /\ Inside(w)
           /\ rec[w] \in DiskRec /\ rec[w].vg \in VGs
           /\ Disk(w) \in Disks /\ LV(w) \in VGs \X Disks
  <1>1. Inside(w)
    BY DEF Inside, Creating
  <1>2. Shape(w)
    BY DEF ProtocolInv, TypeInv, ShapeOK
  <1>3. req[w].op = "create"
    BY <1>2 DEF Shape, OpAt, Creating
  <1> QED BY <1>1, <1>3, InsideType

LEMMA CreateData ==
    ASSUME Clustered, ProtocolInv, TypeInv', Consistent, DataInv, NEW w \in Workers,
           OnlyLocal(w), up' = up, Runs(w),
           CreateLV(w) \/ CreateHeader(w) \/ CreatePersist(w) \/ CreateUndo(w)
    PROVE  DataInv'
  <1> USE DEF At
  <1>0. pc[w] \in {"c_lv"} \cup Creating /\ UNCHANGED <<req, rec>>
    BY DEF CreateLV, CreateHeader, CreatePersist, CreateUndo, Creating, local
  <1>1. /\ req[w].op = "create" /\ Inside(w)
        /\ rec[w] \in DiskRec /\ rec[w].vg \in VGs
        /\ Disk(w) \in Disks /\ LV(w) \in VGs \X Disks
    BY <1>0, CreatorOp
  <1>2. /\ disks \in [Disks -> DiskRec \cup {None}]
        /\ lvs \in [VGs \X Disks -> LVRec \cup {None}]
        /\ lvs' \in [VGs \X Disks -> LVRec \cup {None}]
        /\ pc \in [Workers -> PCs]
    BY DEF ProtocolInv, TypeInv, TypeOK, DiskTypeOK
  <1>3. Fresh(w) /\ OwnsLV(w)
    BY DEF DataInv, FreshHere, Consistent, Claims
  <1>4. LV(w)' = LV(w) /\ Disk(w)' = Disk(w) /\ rec'[w] = rec[w]
    BY <1>0 DEF LV, Disk
  <1>5. NoDeletes(w)' /\ CopyTrue(w)'
    BY <1>0, <1>1 DEF NoDeletes, CopyTrue, HoldsCopy
  <1>6. \A x \in VGs \X Disks : lvs[x] # None => lvs[x].size =< lvs[x].size
    BY <1>2 DEF LVRec
  <1>7. ASSUME disks' = disks, ~Recorded(rec[w].vg, Disk(w)) \/ lvs'[LV(w)] = None,
               \A x \in VGs \X Disks : x # LV(w) => lvs'[x] = lvs[x]
        PROVE  DataStep(w)
    <2>1. ASSUME NEW g \in VGs, NEW d \in Disks, Recorded(g, d), lvs'[<<g, d>>] # None
          PROVE  lvs'[<<g, d>>] = lvs[<<g, d>>]
      <3>1. <<g, d>> # LV(w)
        BY <1>7, <2>1 DEF LV
      <3> QED BY <1>7, <3>1
    <2> QED BY <1>1, <1>6, <1>7, <2>1 DEF DataStep
  <1>8. CASE CreateLV(w)
    <2>1. /\ disks' = disks /\ pc[w] = "c_lv"
          /\ \/ lvs' = lvs /\ pc'[w] = "unlock"
             \/ /\ lvs' = [lvs EXCEPT ![LV(w)] = [size |-> RoundUp(rec[w].size), fmt |-> "raw"]]
                /\ \/ pc'[w] = "unlock"
                   \/ pc'[w] = "c_header" /\ rec[w].mode = "thin"
                   \/ pc'[w] = "c_persist" /\ rec[w].mode # "thin"
      BY <1>2, <1>8 DEF CreateLV, Goto
    <2>2. ~Recorded(rec[w].vg, Disk(w))
      BY <1>3, <2>1 DEF Fresh
    <2>3. DataStep(w)
      BY <1>1, <1>2, <1>7, <2>1, <2>2
    <2>4. rec[w].size =< RoundUp(rec[w].size)
      BY <1>1, RoundUpGrows DEF DiskRec
    <2>5. FreshHere(w)'
      <3>1. pc'[w] # "unlock" => lvs'[LV(w)].size = RoundUp(rec[w].size) /\ lvs'[LV(w)].fmt = "raw"
        BY <1>1, <1>2, <2>1
      <3>2. ~Recorded(rec[w].vg, Disk(w))'
        BY <1>0, <2>1, <2>2 DEF Recorded, Disk
      <3> QED BY <1>4, <2>1, <2>4, <3>1, <3>2 DEF FreshHere, Fresh, Faithful
    <2> QED BY <1>5, <2>3, <2>5, DataKept
  <1>9. CASE CreateHeader(w)
    <2>1. /\ disks' = disks /\ pc[w] = "c_header" /\ lvs[LV(w)] # None
          /\ \/ lvs' = lvs /\ pc'[w] = "c_undo"
             \/ lvs' = [lvs EXCEPT ![LV(w)].fmt = "qcow2"] /\ pc'[w] \in {"c_persist", "c_undo"}
      BY <1>2, <1>3, <1>9 DEF CreateHeader, Goto, OwnsLV, Creating
    <2>2. ~Recorded(rec[w].vg, Disk(w)) /\ rec[w].size =< lvs[LV(w)].size /\ rec[w].mode = "thin"
      BY <1>3, <2>1 DEF Fresh
    <2>3. DataStep(w)
      BY <1>1, <1>2, <1>7, <2>1, <2>2
    <2>4. FreshHere(w)'
      <3>1. pc'[w] = "c_persist" => lvs'[LV(w)].size = lvs[LV(w)].size /\ lvs'[LV(w)].fmt = "qcow2"
        BY <1>1, <1>2, <2>1 DEF LVRec
      <3>2. ~Recorded(rec[w].vg, Disk(w))'
        BY <1>0, <2>1, <2>2 DEF Recorded, Disk
      <3> QED BY <1>4, <2>1, <2>2, <3>1, <3>2 DEF FreshHere, Fresh, Faithful
    <2> QED BY <1>5, <2>3, <2>4, DataKept
  <1>10. CASE CreatePersist(w)
    <2>1. /\ lvs' = lvs /\ pc[w] = "c_persist" /\ pc'[w] \in {"unlock", "c_undo"}
          /\ \/ disks' = disks
             \/ disks[Disk(w)] = None /\ disks' = [disks EXCEPT ![Disk(w)] = rec[w]]
      BY <1>2, <1>10 DEF CreatePersist, Goto
    <2>2. Faithful(rec[w], lvs[LV(w)])
      BY <1>3, <2>1 DEF Fresh
    <2>3. /\ \A d \in Disks : d # Disk(w) => disks'[d] = disks[d]
          /\ disks'[Disk(w)] # disks[Disk(w)] => disks[Disk(w)] = None /\ disks'[Disk(w)] = rec[w]
      BY <1>1, <1>2, <2>1
    <2>4. DataStep(w)
      <3>1. \A d \in Disks : disks[d] # None => disks'[d] = disks[d]
        BY <2>3
      <3>2. ASSUME NEW d \in Disks, disks'[d] # disks[d]
            PROVE  /\ Inside(w) /\ d = Disk(w) /\ disks'[d].vg = rec[w].vg
                   /\ Faithful(disks'[d], lvs'[<<disks'[d].vg, d>>])
        BY <1>1, <2>1, <2>2, <2>3, <3>2 DEF LV
      <3>3. \A g \in VGs, d \in Disks : lvs[<<g, d>>] # None => lvs[<<g, d>>].size =< lvs[<<g, d>>].size
        BY <1>6
      <3> QED BY <2>1, <3>1, <3>2, <3>3 DEF DataStep
    <2>5. FreshHere(w)'
      BY <2>1 DEF FreshHere, Fresh
    <2> QED BY <1>5, <2>4, <2>5, DataKept
  <1>11. CASE CreateUndo(w)
    <2>1. /\ disks' = disks /\ pc'[w] = "unlock"
          /\ lvs' = lvs \/ lvs' = [lvs EXCEPT ![LV(w)] = None]
      BY <1>2, <1>11 DEF CreateUndo, Goto
    <2>2. DataStep(w)
      <3>1. CASE lvs' = lvs
        BY <2>1, <3>1, QuietData DEF ProtocolInv
      <3>2. CASE lvs' = [lvs EXCEPT ![LV(w)] = None]
        BY <1>1, <1>2, <1>7, <2>1, <3>2
      <3> QED BY <2>1, <3>1, <3>2
    <2>3. FreshHere(w)'
      BY <2>1 DEF FreshHere, Fresh
    <2> QED BY <1>5, <2>2, <2>3, DataKept
  <1> QED BY <1>8, <1>9, <1>10, <1>11

LEMMA ExtendData ==
    ASSUME Clustered, ProtocolInv, TypeInv', Consistent, DataInv, NEW w \in Workers,
           OnlyLocal(w), up' = up, Runs(w), ExtendLV(w) \/ ExtendPersist(w)
    PROVE  DataInv'
  <1> USE DEF At
  <1>0. pc[w] \in {"e_lv", "e_persist"} /\ Inside(w) /\ UNCHANGED req
    BY DEF ExtendLV, ExtendPersist, Inside, local
  <1>1. /\ Disk(w) \in Disks /\ LV(w) \in VGs \X Disks
        /\ rec[w] \in DiskRec /\ rec[w].vg \in VGs
    BY <1>0, InsideType
  <1>2. /\ disks \in [Disks -> DiskRec \cup {None}]
        /\ lvs \in [VGs \X Disks -> LVRec \cup {None}]
        /\ pc \in [Workers -> PCs] /\ rec \in [Workers -> DiskRec \cup {None}]
    BY DEF ProtocolInv, TypeInv, TypeOK, DiskTypeOK
  <1>3. req[w].op = "extend" /\ req[w].in \in ExtendIn
    <2>1. Shape(w)
      BY DEF ProtocolInv, TypeInv, ShapeOK
    <2>2. req[w] \in Requests /\ req[w].op = "extend"
      BY <1>0, <2>1 DEF Shape, OpAt
    <2> QED BY <2>2 DEF Requests
  <1>4. NoDeletes(w)' /\ HoldsCopy(w)
    BY <1>0, <1>3 DEF NoDeletes, HoldsCopy
  <1>5. Recorded(rec[w].vg, Disk(w)) /\ Faithful(rec[w], lvs[LV(w)])
    BY <1>4 DEF DataInv, CopyTrue
  <1>6. Disk(w)' = Disk(w)
    BY <1>0 DEF Disk
  <1>7. \A g \in VGs, d \in Disks : lvs[<<g, d>>] # None => lvs[<<g, d>>].size =< lvs[<<g, d>>].size
    BY <1>2 DEF LVRec
  <1>8. CASE ExtendLV(w)
    <2>1. CASE lvs' = lvs
      <3>1. disks' = disks /\ rec' = rec /\ pc'[w] = "unlock"
        <4>1. CASE /\ lvs[LV(w)] # None
                   /\ Extended(lvs[LV(w)], req[w].in) > lvs[LV(w)].size
                   /\ lvs' = [lvs EXCEPT ![LV(w)].size = Extended(lvs[LV(w)], req[w].in)]
          <5>1. lvs[LV(w)] \in LVRec
            BY <1>1, <1>2, <4>1
          <5>2. lvs'[LV(w)].size = Extended(lvs[LV(w)], req[w].in)
            BY <1>1, <1>2, <4>1, <5>1 DEF LVRec
          <5>3. Extended(lvs[LV(w)], req[w].in) \in Nat /\ lvs[LV(w)].size \in Nat
            BY <1>3, <5>1, ExtendedNat DEF LVRec
          <5> QED BY <2>1, <4>1, <5>2, <5>3
        <4> QED BY <1>2, <1>8, <4>1 DEF ExtendLV, Goto
      <3>2. DataStep(w)
        BY <2>1, <3>1, QuietData DEF ProtocolInv
      <3>3. CopyTrue(w)' /\ FreshHere(w)'
        BY <1>5, <1>6, <2>1, <3>1 DEF CopyTrue, Recorded, Faithful, FreshHere, Fresh, LV
      <3> QED BY <1>4, <3>2, <3>3, DataKept
    <2>2. CASE lvs' # lvs
      <3>1. /\ disks' = disks /\ pc'[w] \in {"unlock", "e_persist"}
            /\ lvs[LV(w)] # None /\ Extended(lvs[LV(w)], req[w].in) > lvs[LV(w)].size
            /\ lvs' = [lvs EXCEPT ![LV(w)].size = Extended(lvs[LV(w)], req[w].in)]
            /\ rec' = rec \/ rec' = [rec EXCEPT ![w].size = NewSize(rec[w], req[w].in)]
        BY <1>2, <1>8, <2>2 DEF ExtendLV, Goto
      <3>2. lvs[LV(w)] \in LVRec
        BY <1>1, <1>2, <3>1
      <3>3. PICK n \in Nat : n = Extended(lvs[LV(w)], req[w].in)
        BY <1>3, <3>2, ExtendedNat
      <3>4. PICK m \in Nat : m = NewSize(rec[w], req[w].in)
        BY <1>1, <1>3, NewSizeNat
      <3>5. /\ rec[w].size \in Nat /\ lvs[LV(w)].size \in Nat
            /\ rec[w].size =< lvs[LV(w)].size /\ lvs[LV(w)].size < n
            /\ (rec[w].mode = "thin") = (lvs[LV(w)].fmt = "qcow2")
        BY <1>1, <1>5, <3>1, <3>2, <3>3 DEF Faithful, DiskRec, LVRec
      <3>6. m =< n
        BY <1>1, <1>3, <3>2, <3>3, <3>4, <3>5, NewSizeFits
      <3>7. lvs'[LV(w)].size = n /\ lvs'[LV(w)].fmt = lvs[LV(w)].fmt
        BY <1>1, <1>2, <3>1, <3>2, <3>3 DEF LVRec
      <3>8. \A x \in VGs \X Disks : x # LV(w) => lvs'[x] = lvs[x]
        BY <1>2, <3>1
      <3>9. /\ rec'[w].vg = rec[w].vg /\ rec'[w].mode = rec[w].mode
            /\ rec'[w].size = rec[w].size \/ rec'[w].size = m
        BY <1>1, <1>2, <3>1, <3>4 DEF DiskRec
      <3>10. DataStep(w)
        <4>1. ASSUME NEW g \in VGs, NEW d \in Disks, lvs'[<<g, d>>] # None
              PROVE  /\ lvs[<<g, d>>] # None /\ lvs[<<g, d>>].size =< lvs'[<<g, d>>].size
                     /\ lvs[<<g, d>>].fmt = lvs'[<<g, d>>].fmt
          <5>1. CASE <<g, d>> = LV(w)
            BY <3>1, <3>5, <3>7, <5>1
          <5>2. CASE <<g, d>> # LV(w)
            BY <1>7, <3>8, <4>1, <5>2
          <5> QED BY <5>1, <5>2
        <4> QED BY <1>0, <3>1, <3>8, <4>1 DEF DataStep
      <3>11. LV(w)' = LV(w)
        BY <1>6, <3>9 DEF LV
      <3>12. Recorded(rec[w].vg, Disk(w))'
        BY <1>5, <1>6, <3>1, <3>9 DEF Recorded
      <3>13. Faithful(rec[w], lvs[LV(w)])'
        <4>1. rec'[w].size =< n
          BY <3>5, <3>6, <3>9
        <4> QED BY <3>5, <3>7, <3>9, <3>11, <4>1 DEF Faithful
      <3>14. FreshHere(w)'
        BY <3>1 DEF FreshHere, Fresh
      <3> QED BY <1>4, <3>10, <3>12, <3>13, <3>14, DataKept DEF CopyTrue
    <2> QED BY <2>1, <2>2
  <1>9. CASE ExtendPersist(w)
    <2>1. /\ UNCHANGED <<lvs, rec>> /\ pc'[w] \in {"unlock", "e_list"}
          /\ \A d \in Disks : d # Disk(w) => disks'[d] = disks[d]
          /\ disks'[Disk(w)] = disks[Disk(w)] \/ disks'[Disk(w)] = rec[w]
      BY <1>1, <1>2, <1>9 DEF ExtendPersist, Goto, local
    <2>2. rec[w] # None
      BY <1>1, NoneAssumption
    <2>3. Recorded(rec[w].vg, Disk(w))'
      BY <1>5, <1>6, <2>1, <2>2 DEF Recorded
    <2>4. DataStep(w)
      <3>1. ASSUME NEW d \in Disks, disks[d] # None
            PROVE  disks'[d] # None /\ disks'[d].vg = disks[d].vg
        BY <1>5, <2>1, <2>2, <3>1 DEF Recorded
      <3>2. ASSUME NEW d \in Disks, disks'[d] # disks[d]
            PROVE  /\ Inside(w) /\ d = Disk(w) /\ disks'[d].vg = rec[w].vg
                   /\ Faithful(disks'[d], lvs'[<<disks'[d].vg, d>>])
        BY <1>0, <1>5, <2>1, <3>2 DEF LV
      <3> QED BY <1>7, <2>1, <3>1, <3>2 DEF DataStep
    <2>5. CopyTrue(w)' /\ FreshHere(w)'
      BY <1>5, <1>6, <2>1, <2>3 DEF CopyTrue, Faithful, FreshHere, Fresh, LV
    <2> QED BY <1>4, <2>4, <2>5, DataKept
  <1> QED BY <1>8, <1>9

\* Where nobody calls DeleteDisk, no handler is in the part of it that removes
\* volume and record.
LEMMA NoDeleteSteps ==
    ASSUME ProtocolInv, DataInv, NEW w \in Workers
    PROVE  ~DeleteLV(w) /\ ~DeleteRecord(w)
  <1>1. Shape(w) /\ NoDeletes(w)
    BY DEF ProtocolInv, TypeInv, ShapeOK, DataInv
  <1>2. pc[w] \notin {"d_lv", "d_record"}
    BY <1>1 DEF Shape, OpAt, NoDeletes
  <1> QED BY <1>2 DEF DeleteLV, DeleteRecord, At

LEMMA DaemonData ==
    ASSUME ProtocolInv, DataInv, NEW n \in Nodes, DaemonStep(n), UNCHANGED diskVars
    PROVE  DataInv'
  <1>1. UNCHANGED <<disks, lvs, pc, req, rec>>
    BY DEF diskVars
  <1>2. \A w \in Workers : (Runs(w)' /\ ~Runs(w)) => pc[w] = "idle"
    BY LockAssumption
    DEF DaemonStep, StartDaemon, Crash, EndLease, Runs, ProtocolInv, NewIsStill,
        LockInv, LockTypeOK
  <1>3. ASSUME NEW w \in Workers PROVE (NoDeletes(w) /\ CopyTrue(w) /\ FreshHere(w))'
    <2>1. NoDeletes(w) /\ CopyTrue(w) /\ FreshHere(w)
      BY DEF DataInv
    <2>2. NoDeletes(w)' /\ CopyTrue(w)'
      BY <1>1, <2>1 DEF NoDeletes, CopyTrue, HoldsCopy, Recorded, Faithful, LV, Disk
    <2>3. Fresh(w)' <=> Fresh(w)
      BY <1>1 DEF Fresh, Recorded, Faithful, LV, Disk
    <2>4. pc[w] = "idle" => Fresh(w)
      BY DEF Fresh
    <2>5. FreshHere(w)'
      BY <1>2, <2>1, <2>3, <2>4 DEF FreshHere
    <2> QED BY <2>2, <2>5
  <1>4. RecordsTrue'
    BY <1>1 DEF DataInv, RecordsTrue, Faithful
  <1> QED BY <1>3, <1>4 DEF DataInv

LEMMA DataInvStep ==
    ASSUME Clustered, "delete" \notin Ops, SafetyInv, DataInv, [Next]_vars
    PROVE  DataInv'
  <1>0. ProtocolInv /\ Consistent /\ TypeInv'
    BY TypeInvStep DEF SafetyInv, ProtocolInv
  <1>1. CASE UNCHANGED vars
    <2>1. UNCHANGED <<disks, lvs, pc, req, rec, up>>
      BY <1>1 DEF vars, lockVars, diskVars
    <2>2. ASSUME NEW w \in Workers PROVE (NoDeletes(w) /\ CopyTrue(w) /\ FreshHere(w))'
      <3>1. NoDeletes(w) /\ CopyTrue(w) /\ FreshHere(w)
        BY DEF DataInv
      <3> QED BY <2>1, <3>1 DEF NoDeletes, CopyTrue, HoldsCopy, FreshHere, Fresh, Faithful,
               Recorded, Disk, LV, Runs
    <2>3. RecordsTrue'
      BY <2>1 DEF DataInv, RecordsTrue, Faithful
    <2> QED BY <2>2, <2>3 DEF DataInv
  <1>2. ASSUME NEW n \in Nodes, DaemonStep(n), UNCHANGED diskVars PROVE DataInv'
    BY <1>0, <1>2, DaemonData
  <1>3. ASSUME NEW w \in Workers,
               CallCreate(w) \/ CallNamed(w) \/ CancelCtx(w) \/ Handler(w)
        PROVE  DataInv'
    <2>1. OnlyLocal(w)
      BY <1>0, <1>3, LocksStep DEF ProtocolInv
    <2>2. up' = up /\ Runs(w)
      BY <1>3, WorkerRuns
    <2>3. ~DeleteLV(w) /\ ~DeleteRecord(w)
      BY <1>0, NoDeleteSteps
    <2> QED BY <1>0, <1>3, <2>1, <2>2, <2>3, CallData, OtherData, CreateData, ExtendData
            DEF Handler
  <1> QED BY <1>1, <1>2, <1>3 DEF Next

LEMMA DataInvInit ==
    ASSUME Init PROVE DataInv
  BY DEF Init, DiskInit, DataInv, NoDeletes, CopyTrue, HoldsCopy, FreshHere, Fresh, RecordsTrue

LEMMA DataInvariant ==
    ASSUME Clustered, "delete" \notin Ops PROVE Spec => []DataInv
  <1>1. Init => DataInv
    BY DataInvInit
  <1>2. SafetyInv /\ DataInv /\ [Next]_vars => DataInv'
    BY DataInvStep
  <1> QED BY <1>1, <1>2, SafetyInvariant, PTL DEF Spec

\* In a cluster with one call in flight per daemon, and while no disk is
\* deleted, no record claims more bytes than its volume has: every size
\* ExtendDisk writes, from a copy read before the lock and with a 64-bit sum
\* that may wrap, is at most what lvextend has made of the volume.
THEOREM SizesNotOverstated ==
    ASSUME Clustered, "delete" \notin Ops PROVE Spec => []SizeNotOverstated
  <1>1. DataInv => SizeNotOverstated
    BY DEF DataInv, RecordsTrue, Faithful, SizeNotOverstated
  <1> QED BY <1>1, DataInvariant, PTL

\* There, the mode in the catalog is the format on the volume: CreateDisk
\* records a thin disk only with its qcow2 header written, whatever fails.
THEOREM ModesMatchContent ==
    ASSUME Clustered, "delete" \notin Ops PROVE Spec => []ModeMatchesContent
  <1>1. DataInv => ModeMatchesContent
    BY DEF DataInv, RecordsTrue, Faithful, ModeMatchesContent
  <1> QED BY <1>1, DataInvariant, PTL

-----------------------------------------------------------------------------
(* Attachments and the domains' disks.                                      *)

\* A cluster whose calls never take effect behind an error, and in which
\* nothing is detached.
OnlyAttaches == "late" \notin Faults /\ Ops \cap {"delete", "detach"} = {}

NoDetaches(w) == pc[w] # "idle" => req[w].op \notin {"delete", "detach"}

\* w has plugged in a device that the catalog does not know of yet.
Holding(w) == pc[w] \in {"a_persist", "a_undo"}
Spot(w) == <<cur[w].vm, cur[w].tgt>>

\* What an AttachDisk that has plugged in its device relies on: the device is
\* still there, and neither the catalog nor another handler knows of one at
\* that target.
PluggedIn(w) ==
    /\ pc[w] \in {"a_libvirt", "a_persist", "a_undo"} => cur[w].disk = Disk(w)
    /\ Holding(w) =>
          /\ devs[Spot(w)] # None /\ devs[Spot(w)].disk = Disk(w)
          /\ \A k \in Disks \X VMs : atts[k] # None => <<k[2], atts[k].tgt>> # Spot(w)
Apart ==
    \A v, w \in Workers : Holding(v) /\ Holding(w) /\ v # w => Spot(v) # Spot(w)

AttachInv ==
    /\ \A w \in Workers : NoDetaches(w) /\ PluggedIn(w)
    /\ Apart
    /\ AttachmentHasDevice

\* The attachments of a step that adds none to the catalog and takes no
\* device away.
LEMMA QuietAttach ==
    ASSUME TypeInv, TypeInv', AttachInv, NEW w \in Workers, OnlyLocal(w), atts' = atts,
           \A t \in VMs \X Targets :
              devs[t] # None => devs'[t] # None /\ devs'[t].disk = devs[t].disk,
           NoDetaches(w)', PluggedIn(w)',
           Holding(w)' => Holding(w) /\ Spot(w)' = Spot(w)
    PROVE  AttachInv'
  <1>1. ASSUME NEW v \in Workers PROVE (NoDetaches(v) /\ PluggedIn(v))'
    <2>1. CASE v = w
      BY <2>1
    <2>2. CASE v # w
      <3>1. pc'[v] = pc[v] /\ req'[v] = req[v] /\ cur'[v] = cur[v]
        BY <2>2 DEF OnlyLocal
      <3>2. NoDetaches(v) /\ PluggedIn(v)
        BY DEF AttachInv
      <3>3. Holding(v) => Spot(v) \in VMs \X Targets
        BY DEF Holding, Spot, TypeInv, ShapeOK, Shape, AttRec
      <3> QED BY <3>1, <3>2, <3>3 DEF NoDetaches, PluggedIn, Holding, Spot, Disk
    <2> QED BY <2>1, <2>2
  <1>2. Apart'
    <2>1. \A v \in Workers : Holding(v)' => Holding(v) /\ Spot(v)' = Spot(v)
      BY DEF OnlyLocal, Holding, Spot
    <2> QED BY <2>1 DEF AttachInv, Apart
  <1>3. AttachmentHasDevice'
    <2>1. \A k \in Disks \X VMs : atts[k] # None => <<k[2], atts[k].tgt>> \in VMs \X Targets
      BY DEF TypeInv, TypeOK, DiskTypeOK, AttRec
    <2> QED BY <2>1 DEF AttachInv, AttachmentHasDevice
  <1> QED BY <1>1, <1>2, <1>3 DEF AttachInv

\* No step reaches into the local state of another worker.
LEMMA StepIsLocal ==
    ASSUME TypeInv, NEW w \in Workers,
           CallCreate(w) \/ CallNamed(w) \/ CancelCtx(w) \/ Handler(w)
    PROVE  OnlyLocal(w)
  <1>0. /\ pc \in [Workers -> PCs] /\ req \in [Workers -> Requests \cup {None}]
        /\ rec \in [Workers -> DiskRec \cup {None}]
        /\ cur \in [Workers -> AttRec \cup {None}]
    BY DEF TypeInv, TypeOK, DiskTypeOK
  <1>1. Return(w) => OnlyLocal(w)
    BY ReturnType
  <1>2. ASSUME NEW l, Goto(w, l), UNCHANGED <<req, rec, cur>> PROVE OnlyLocal(w)
    BY <1>0, <1>2 DEF Goto, OnlyLocal
  <1>3. CASE CallCreate(w) \/ CallNamed(w) \/ CancelCtx(w)
    BY <1>0, <1>3 DEF CallCreate, CallNamed, CancelCtx, Goto, OnlyLocal
  <1>4. CASE ReadDisk(w)
    BY <1>0, <1>1, <1>4 DEF ReadDisk, Goto, OnlyLocal
  <1>5. CASE Acquire(w) \/ AcquireFails(w) \/ AcquireWaited(w) \/ AcquireGivesUp(w) \/ Release(w)
    BY <1>1, <1>2, <1>5
    DEF Acquire, AcquireFails, AcquireWaited, AcquireGivesUp, Release, local
  <1>6. CASE CreateGet(w) \/ CreateLV(w) \/ CreateHeader(w) \/ CreatePersist(w) \/ CreateUndo(w)
    BY <1>2, <1>6 DEF CreateGet, CreateLV, CreateHeader, CreatePersist, CreateUndo, local
  <1>7. CASE DeleteList(w) \/ DetachGet(w) \/ DeleteLV(w) \/ DeleteRecord(w)
    BY <1>1, <1>2, <1>7 DEF DeleteList, DetachGet, DeleteLV, DeleteRecord, local
  <1>8. CASE DetachLibvirt(w)
    <2>1. CASE Abort(w)
      BY <1>1, <1>2, <2>1 DEF Abort, local
    <2>2. CASE ~Abort(w)
      BY <1>0, <1>8, <2>2 DEF DetachLibvirt, Goto, OnlyLocal
    <2> QED BY <2>1, <2>2
  <1>9. CASE DetachStore(w)
    <2>1. CASE Abort(w) \/ Return(w)
      BY <1>1, <1>2, <2>1 DEF Abort, local
    <2>2. CASE ~(Abort(w) \/ Return(w))
      BY <1>0, <1>9, <2>2 DEF DetachStore, Goto, OnlyLocal
    <2> QED BY <2>1, <2>2
  <1>10. CASE ExtendLV(w)
    BY <1>0, <1>10 DEF ExtendLV, Goto, OnlyLocal
  <1>11. CASE ExtendPersist(w) \/ ExtendList(w) \/ ExtendResize(w)
    BY <1>2, <1>11 DEF ExtendPersist, ExtendList, ExtendResize, local
  <1>12. CASE AttachPick(w)
    BY <1>0, <1>1, <1>12 DEF AttachPick, Goto, OnlyLocal
  <1>13. CASE AttachLibvirt(w) \/ AttachPersist(w) \/ AttachUndo(w)
    BY <1>1, <1>2, <1>13 DEF AttachLibvirt, AttachPersist, AttachUndo, local
  <1> QED
    BY <1>3, <1>4, <1>5, <1>6, <1>7, <1>8, <1>9, <1>10, <1>11, <1>12, <1>13 DEF Handler

\* The steps outside AttachDisk's calls of libvirt and of the catalog.
LEMMA OtherAttach ==
    ASSUME OnlyAttaches, TypeInv, TypeInv', AttachInv, NEW w \in Workers, OnlyLocal(w),
           \/ CallCreate(w) \/ CallNamed(w) \/ CancelCtx(w) \/ ReadDisk(w)
           \/ Acquire(w) \/ AcquireFails(w) \/ AcquireWaited(w) \/ AcquireGivesUp(w)
           \/ Release(w)
           \/ CreateGet(w) \/ CreateLV(w) \/ CreateHeader(w) \/ CreatePersist(w)
           \/ CreateUndo(w)
           \/ ExtendLV(w) \/ ExtendPersist(w) \/ ExtendList(w)
    PROVE  AttachInv'
  <1> USE DEF At
  <1>0. /\ pc \in [Workers -> PCs] /\ req \in [Workers -> Requests \cup {None}]
        /\ NoDetaches(w) /\ PluggedIn(w)
    BY DEF TypeInv, TypeOK, DiskTypeOK, AttachInv
  <1>1. CASE CancelCtx(w)
    <2>1. UNCHANGED <<atts, devs, pc, req, cur>>
      BY <1>1 DEF CancelCtx
    <2>2. (NoDetaches(w) /\ PluggedIn(w))'
      BY <1>0, <2>1 DEF NoDetaches, PluggedIn, Holding, Spot, Disk
    <2> QED BY <2>1, <2>2, QuietAttach DEF Holding, Spot
  <1>2. CASE ~CancelCtx(w)
    <2>1. /\ UNCHANGED <<atts, devs>>
          /\ \/ Return(w)
             \/ /\ \E l \in PCs \ {"a_libvirt", "a_persist", "a_undo"} : Goto(w, l)
                /\ \/ req' = req /\ pc[w] # "idle"
                   \/ \E d \in Disks : req' = [req EXCEPT ![w] = [op |-> "create", disk |-> d]]
                   \/ \E r \in NamedRequests : req' = [req EXCEPT ![w] = r]
      <3> USE DEF PCs
      <3>1. CASE CallCreate(w) \/ CallNamed(w) \/ ReadDisk(w)
        BY <3>1 DEF CallCreate, CallNamed, ReadDisk
      <3>2. CASE Acquire(w) \/ AcquireFails(w) \/ AcquireWaited(w) \/ AcquireGivesUp(w)
                 \/ Release(w)
        BY <3>2 DEF Acquire, AcquireFails, AcquireWaited, AcquireGivesUp, Release, Entry, local
      <3>3. CASE CreateGet(w) \/ CreateLV(w) \/ CreateHeader(w) \/ CreatePersist(w)
                 \/ CreateUndo(w)
        BY <3>3 DEF CreateGet, CreateLV, CreateHeader, CreatePersist, CreateUndo, local
      <3>4. CASE ExtendLV(w) \/ ExtendPersist(w) \/ ExtendList(w)
        BY <3>4 DEF ExtendLV, ExtendPersist, ExtendList, local
      <3> QED BY <1>2, <3>1, <3>2, <3>3, <3>4
    <2>2. pc'[w] \notin {"a_libvirt", "a_persist", "a_undo"}
      BY <1>0, <2>1 DEF Return, Goto
    <2>3. NoDetaches(w)'
      <3>1. CASE Return(w)
        BY <1>0, <3>1 DEF Return, Goto, NoDetaches
      <3>2. CASE req' = req /\ pc[w] # "idle"
        BY <1>0, <3>2 DEF NoDetaches
      <3>3. CASE \E d \in Disks : req' = [req EXCEPT ![w] = [op |-> "create", disk |-> d]]
        BY <1>0, <3>3 DEF NoDetaches
      <3>4. CASE \E r \in NamedRequests : req' = [req EXCEPT ![w] = r]
        <4>1. req'[w] \in NamedRequests
          BY <1>0, <3>4
        <4>2. req'[w].op \in Ops
          BY <4>1 DEF NamedRequests
        <4> QED BY <4>2 DEF OnlyAttaches, NoDetaches
      <3> QED BY <2>1, <3>1, <3>2, <3>3, <3>4
    <2> QED BY <2>1, <2>2, <2>3, QuietAttach DEF PluggedIn, Holding
  <1> QED BY <1>1, <1>2

\* BlockResize changes the size of a device, not the device.
LEMMA ResizeAttach ==
    ASSUME TypeInv, TypeInv', AttachInv, NEW w \in Workers, OnlyLocal(w), ExtendResize(w)
    PROVE  AttachInv'
  <1>0. /\ pc \in [Workers -> PCs] /\ devs \in [VMs \X Targets -> DevRec \cup {None}]
        /\ rec \in [Workers -> DiskRec \cup {None}] /\ NoDetaches(w)
    BY DEF TypeInv, TypeOK, DiskTypeOK, AttachInv
  <1>1. /\ atts' = atts /\ req' = req /\ pc[w] = "e_resize"
        /\ pc'[w] \in {"unlock", "e_resize"}
        /\ \/ devs' = devs
           \/ \E t : devs[t] # None /\ devs' = [devs EXCEPT ![t].cap = rec[w].size]
    BY <1>0 DEF ExtendResize, At, Goto
  <1>2. rec[w].size \in Nat
    BY <1>1, WorkerType DEF DiskRec
  <1>3. ASSUME NEW t \in VMs \X Targets, devs[t] # None
        PROVE  devs'[t] # None /\ devs'[t].disk = devs[t].disk
    <2>1. CASE devs'[t] = devs[t]
      BY <1>3, <2>1
    <2>2. CASE devs'[t] = [devs[t] EXCEPT !.cap = rec[w].size]
      <3>1. devs[t] \in DevRec
        BY <1>0, <1>3
      <3>2. devs'[t] \in DevRec /\ devs'[t].disk = devs[t].disk
        BY <1>2, <2>2, <3>1 DEF DevRec
      <3> QED BY <3>2, NoneAssumption
    <2> QED BY <1>0, <1>1, <2>1, <2>2
  <1>4. (NoDetaches(w) /\ PluggedIn(w))' /\ ~Holding(w)'
    BY <1>0, <1>1 DEF NoDetaches, PluggedIn, Holding
  <1> QED BY <1>1, <1>3, <1>4, QuietAttach

\* A step of w keeps the invariant if it keeps w's part of it and what the
\* other handlers have plugged in.
LEMMA AttachKept ==
    ASSUME TypeInv, AttachInv, NEW w \in Workers, OnlyLocal(w), AttachmentHasDevice',
           NoDetaches(w)', PluggedIn(w)',
           \A v \in Workers : v # w /\ Holding(v) =>
              /\ devs'[Spot(v)] # None /\ devs'[Spot(v)].disk = Disk(v)
              /\ \A k \in Disks \X VMs : atts'[k] # None => <<k[2], atts'[k].tgt>> # Spot(v)
              /\ Holding(w)' => Spot(v) # Spot(w)'
    PROVE  AttachInv'
  <1>1. ASSUME NEW v \in Workers, v # w
        PROVE  /\ (NoDetaches(v) /\ PluggedIn(v))'
               /\ Holding(v)' <=> Holding(v)
               /\ Spot(v)' = Spot(v)
    <2>1. pc'[v] = pc[v] /\ req'[v] = req[v] /\ cur'[v] = cur[v]
      BY <1>1 DEF OnlyLocal
    <2>2. NoDetaches(v) /\ PluggedIn(v)
      BY DEF AttachInv
    <2>3. Spot(v)' = Spot(v) /\ (Holding(v)' <=> Holding(v)) /\ Disk(v)' = Disk(v)
      BY <2>1 DEF Spot, Holding, Disk
    <2>4. NoDetaches(v)'
      BY <2>1, <2>2 DEF NoDetaches
    <2>5. PluggedIn(v)'
      BY <1>1, <2>1, <2>2, <2>3 DEF PluggedIn
    <2> QED BY <2>3, <2>4, <2>5
  <1>2. Apart'
    <2> SUFFICES ASSUME NEW u \in Workers, NEW v \in Workers, u # v, Holding(u)', Holding(v)'
                 PROVE  Spot(u)' # Spot(v)'
      BY DEF Apart
    <2>1. CASE u # w /\ v # w
      BY <1>1, <2>1 DEF AttachInv, Apart
    <2>2. CASE u = w
      BY <1>1, <2>2
    <2>3. CASE v = w
      BY <1>1, <2>3
    <2> QED BY <2>1, <2>2, <2>3
  <1> QED BY <1>1, <1>2 DEF AttachInv

\* AttachDisk's own calls.
LEMMA AttachAttach ==
    ASSUME OnlyAttaches, TypeInv, TypeInv', AttachInv, NEW w \in Workers, OnlyLocal(w),
           AttachPick(w) \/ AttachLibvirt(w) \/ AttachPersist(w) \/ AttachUndo(w)
    PROVE  AttachInv'
  <1> USE DEF At
  <1>0. /\ pc \in [Workers -> PCs] /\ req \in [Workers -> Requests \cup {None}]
        /\ cur \in [Workers -> AttRec \cup {None}]
        /\ devs \in [VMs \X Targets -> DevRec \cup {None}]
        /\ atts \in [Disks \X VMs -> AttRec \cup {None}]
    BY DEF TypeInv, TypeOK, DiskTypeOK
  <1>1. /\ pc[w] \in {"a_pick", "a_libvirt", "a_persist", "a_undo"}
        /\ NoDetaches(w) /\ PluggedIn(w) /\ Apart /\ AttachmentHasDevice
    BY DEF AttachPick, AttachLibvirt, AttachPersist, AttachUndo, AttachInv
  <1>2. pc[w] # "a_pick" => cur[w] \in AttRec /\ Spot(w) \in VMs \X Targets
    <2>1. pc[w] # "a_pick" => cur[w] \in AttRec
      BY <1>1 DEF TypeInv, ShapeOK, Shape
    <2> QED BY <2>1 DEF AttRec, Spot
  <1>3. ~Late(w)
    BY DEF OnlyAttaches, Late, MayBeLate
  <1>4. Return(w) => pc'[w] = "idle"
    BY <1>0 DEF Return, Goto
  <1>5. ASSUME NEW v \in Workers, v # w, Holding(v)
        PROVE  /\ Spot(v) \in VMs \X Targets
               /\ devs[Spot(v)] # None /\ devs[Spot(v)].disk = Disk(v)
               /\ \A k \in Disks \X VMs : atts[k] # None => <<k[2], atts[k].tgt>> # Spot(v)
               /\ Holding(w) => Spot(v) # Spot(w)
    <2>1. cur[v] \in AttRec /\ PluggedIn(v)
      BY <1>5 DEF Holding, TypeInv, ShapeOK, Shape, AttachInv
    <2> QED BY <1>1, <1>5, <2>1 DEF PluggedIn, Apart, AttRec, Spot
  <1>6. CASE AttachPick(w)
    <2>1. UNCHANGED <<atts, devs>>
      BY <1>6 DEF AttachPick
    <2>2. CASE Return(w)
      BY <1>4, <2>1, <2>2, QuietAttach DEF NoDetaches, PluggedIn, Holding
    <2>3. CASE ~Return(w)
      <3>1. req' = req /\ pc'[w] = "a_libvirt" /\ cur'[w].disk = req[w].disk
        BY <1>0, <1>6, <2>3 DEF AttachPick, Goto
      <3> QED BY <1>1, <2>1, <3>1, QuietAttach DEF NoDetaches, PluggedIn, Holding, Disk
    <2> QED BY <2>2, <2>3
  <1>7. CASE AttachLibvirt(w)
    <2>1. atts' = atts /\ pc[w] = "a_libvirt"
      BY <1>7 DEF AttachLibvirt
    <2>2. CASE Return(w)
      <3>1. devs' = devs
        BY <1>0, <1>3, <1>7, <2>2 DEF AttachLibvirt, Return, Goto
      <3> QED BY <1>4, <2>1, <2>2, <3>1, QuietAttach DEF NoDetaches, PluggedIn, Holding
    <2>3. CASE ~Return(w)
      <3>1. /\ UNCHANGED <<req, cur>> /\ pc'[w] = "a_persist"
            /\ devs[Spot(w)] = None /\ lvs[LV(w)] # None
            /\ devs' = [devs EXCEPT ![Spot(w)] =
                  [vg |-> rec[w].vg, disk |-> Disk(w),
                   fmt |-> IF rec[w].mode = "thin" THEN "qcow2" ELSE "raw",
                   cap |-> IF rec[w].mode = "thin" THEN rec[w].virt ELSE lvs[LV(w)].size]]
        BY <1>0, <1>3, <1>7, <2>3 DEF AttachLibvirt, Goto, local, Spot
      <3>2. devs'[Spot(w)].disk = Disk(w)
        BY <1>0, <1>2, <2>1, <3>1
      <3>3. devs'[Spot(w)] # None
        <4>1. /\ LV(w) \in VGs \X Disks /\ rec[w] \in DiskRec
              /\ rec[w].vg \in VGs /\ Disk(w) \in Disks
          BY <2>1, WorkerType
        <4>2. lvs[LV(w)].size \in Nat /\ rec[w].virt \in Nat
          BY <3>1, <4>1 DEF TypeInv, TypeOK, DiskTypeOK, LVRec, DiskRec
        <4>3. devs'[Spot(w)] \in DevRec
          BY <1>0, <1>2, <2>1, <3>1, <4>1, <4>2 DEF DevRec
        <4> QED BY <4>3, NoneAssumption
      <3>4. \A t \in VMs \X Targets : t # Spot(w) => devs'[t] = devs[t]
        BY <1>0, <3>1
      <3>5. Spot(w)' = Spot(w) /\ Disk(w)' = Disk(w)
        BY <3>1 DEF Spot, Disk
      <3>6. \A k \in Disks \X VMs : atts[k] # None =>
               /\ <<k[2], atts[k].tgt>> \in VMs \X Targets
               /\ <<k[2], atts[k].tgt>> # Spot(w)
        BY <1>0, <1>1, <3>1 DEF AttachmentHasDevice, AttRec
      <3>7. AttachmentHasDevice'
        BY <1>1, <2>1, <3>4, <3>6 DEF AttachmentHasDevice
      <3>8. NoDetaches(w)' /\ PluggedIn(w)'
        BY <1>1, <2>1, <3>1, <3>2, <3>3, <3>5, <3>6 DEF NoDetaches, PluggedIn
      <3>9. \A v \in Workers : v # w /\ Holding(v) =>
              /\ devs'[Spot(v)] # None /\ devs'[Spot(v)].disk = Disk(v)
              /\ \A k \in Disks \X VMs : atts'[k] # None => <<k[2], atts'[k].tgt>> # Spot(v)
              /\ Holding(w)' => Spot(v) # Spot(w)'
        BY <1>5, <2>1, <3>1, <3>4, <3>5
      <3> QED BY <3>7, <3>8, <3>9, AttachKept
    <2> QED BY <2>2, <2>3
  <1>8. CASE AttachPersist(w)
    <2>1. devs' = devs /\ pc[w] = "a_persist" /\ Holding(w) /\ cur[w] \in AttRec
      BY <1>2, <1>8 DEF AttachPersist, Holding
    <2>2. cur[w].disk = Disk(w) /\ devs[Spot(w)] # None /\ devs[Spot(w)].disk = Disk(w)
      BY <1>1, <2>1 DEF PluggedIn
    <2>3. CASE Return(w)
      <3>1. atts' = [atts EXCEPT ![<<cur[w].disk, cur[w].vm>>] = cur[w]] /\ pc'[w] = "idle"
        BY <1>0, <1>3, <1>4, <1>8, <2>3 DEF AttachPersist, Return, Goto
      <3>2. ASSUME NEW k \in Disks \X VMs, atts'[k] # None, atts'[k] # atts[k]
            PROVE  <<k[2], atts'[k].tgt>> = Spot(w) /\ k[1] = Disk(w)
        BY <1>0, <2>2, <3>1, <3>2 DEF Spot
      <3>3. AttachmentHasDevice'
        <4> SUFFICES ASSUME NEW k \in Disks \X VMs, atts'[k] # None
                     PROVE  /\ devs'[<<k[2], atts'[k].tgt>>] # None
                            /\ devs'[<<k[2], atts'[k].tgt>>].disk = k[1]
          BY DEF AttachmentHasDevice
        <4>1. CASE atts'[k] = atts[k]
          BY <1>1, <2>1, <4>1 DEF AttachmentHasDevice
        <4>2. CASE atts'[k] # atts[k]
          BY <2>1, <2>2, <3>2, <4>2
        <4> QED BY <4>1, <4>2
      <3>4. \A v \in Workers : v # w /\ Holding(v) =>
              \A k \in Disks \X VMs : atts'[k] # None => <<k[2], atts'[k].tgt>> # Spot(v)
        BY <1>5, <2>1, <3>2
      <3>5. NoDetaches(w)' /\ PluggedIn(w)' /\ ~Holding(w)'
        BY <3>1 DEF NoDetaches, PluggedIn, Holding
      <3> QED BY <1>5, <2>1, <3>3, <3>4, <3>5, AttachKept
    <2>4. CASE ~Return(w)
      <3>1. atts' = atts /\ pc'[w] = "a_undo" /\ UNCHANGED <<req, cur>>
        BY <1>0, <1>3, <1>8, <2>4 DEF AttachPersist, Goto, local
      <3>2. Spot(w)' = Spot(w) /\ Disk(w)' = Disk(w)
        BY <3>1 DEF Spot, Disk
      <3>3. NoDetaches(w)' /\ PluggedIn(w)'
        BY <1>1, <2>1, <3>1, <3>2 DEF NoDetaches, PluggedIn, Holding
      <3> QED BY <2>1, <3>1, <3>2, <3>3, QuietAttach
    <2> QED BY <2>3, <2>4
  <1>9. CASE AttachUndo(w)
    <2>1. /\ atts' = atts /\ pc[w] = "a_undo" /\ Return(w) /\ Holding(w)
          /\ devs' = devs \/ devs' = [devs EXCEPT ![Spot(w)] = None]
      BY <1>9 DEF AttachUndo, Holding, Spot
    <2>2. \A t \in VMs \X Targets : t # Spot(w) => devs'[t] = devs[t]
      BY <1>0, <2>1
    <2>3. \A k \in Disks \X VMs : atts[k] # None =>
             /\ <<k[2], atts[k].tgt>> \in VMs \X Targets
             /\ <<k[2], atts[k].tgt>> # Spot(w)
      BY <1>0, <1>1, <2>1 DEF PluggedIn, AttRec
    <2>4. AttachmentHasDevice'
      BY <1>1, <2>1, <2>2, <2>3 DEF AttachmentHasDevice
    <2>5. NoDetaches(w)' /\ PluggedIn(w)' /\ ~Holding(w)'
      BY <1>4, <2>1 DEF NoDetaches, PluggedIn, Holding
    <2> QED BY <1>5, <2>1, <2>2, <2>4, <2>5, AttachKept
  <1> QED BY <1>6, <1>7, <1>8, <1>9

\* Where nobody calls DeleteDisk or DetachDisk, no handler is in either.
LEMMA NoDetachSteps ==
    ASSUME TypeInv, AttachInv, NEW w \in Workers
    PROVE  /\ ~DeleteList(w) /\ ~DetachGet(w) /\ ~DetachLibvirt(w) /\ ~DetachStore(w)
           /\ ~DeleteLV(w) /\ ~DeleteRecord(w)
  <1>1. Shape(w) /\ NoDetaches(w)
    BY DEF TypeInv, ShapeOK, AttachInv
  <1>2. pc[w] \notin {"d_list", "x_att", "detach", "detached", "d_lv", "d_record"}
    BY <1>1 DEF Shape, OpAt, NoDetaches
  <1> QED BY <1>2 DEF DeleteList, DetachGet, DetachLibvirt, DetachStore, DeleteLV,
           DeleteRecord, At

LEMMA AttachInvStep ==
    ASSUME OnlyAttaches, TypeInv, AttachInv, [Next]_vars
    PROVE  AttachInv'
  <1>0. TypeInv'
    BY TypeInvStep
  <1>1. CASE UNCHANGED diskVars
    <2>1. UNCHANGED <<atts, devs, pc, req, cur>>
      BY <1>1 DEF diskVars
    <2> QED BY <2>1 DEF AttachInv, NoDetaches, PluggedIn, Apart, Holding, Spot, Disk,
             AttachmentHasDevice
  <1>2. ASSUME NEW w \in Workers,
               CallCreate(w) \/ CallNamed(w) \/ CancelCtx(w) \/ Handler(w)
        PROVE  AttachInv'
    BY <1>0, <1>2, StepIsLocal, NoDetachSteps, OtherAttach, ResizeAttach, AttachAttach
    DEF Handler
  <1> QED BY <1>1, <1>2 DEF Next, vars

\* While nothing is detached or deleted and no call takes effect behind an
\* error, every attachment in the catalog is a disk of the domain at its
\* target: for any number of AttachDisk calls at once, which hold no lock, and
\* whatever fails, is cancelled or dies, the rollback of one never takes the
\* device of another.
THEOREM AttachmentsHaveDevices ==
    ASSUME OnlyAttaches PROVE Spec => []AttachmentHasDevice
  <1>1. Init => AttachInv
    BY DEF Init, DiskInit, AttachInv, NoDetaches, PluggedIn, Apart, Holding,
         AttachmentHasDevice
  <1>2. TypeInv /\ AttachInv /\ [Next]_vars => AttachInv'
    BY AttachInvStep
  <1>3. TypeInv /\ [Next]_vars => TypeInv'
    BY TypeInvStep
  <1>4. AttachInv => AttachmentHasDevice
    BY DEF AttachInv
  <1> QED BY <1>1, <1>2, <1>3, <1>4, TypeInvInit, PTL DEF Spec

-----------------------------------------------------------------------------
(* Where disks are, while nothing is deleted: no lock is needed for it.     *)

\* The volume of a recorded disk.
VolumeOf(d) == <<disks[d].vg, d>>

\* A handler's copy names the volume group of the record; the volume a
\* CreateDisk has made is there, and not recorded yet.
Placed(w) ==
    /\ HoldsCopy(w) => Recorded(rec[w].vg, Disk(w))
    /\ pc[w] \in Creating => lvs[LV(w)] # None /\ ~Recorded(rec[w].vg, Disk(w))

MakersApart ==
    \A v, w \in Workers :
        v # w /\ pc[v] \in Creating /\ pc[w] \in Creating => LV(v) # LV(w)

PlaceInv ==
    /\ \A w \in Workers : Placed(w)
    /\ MakersApart
    /\ \A d \in Disks : disks[d] # None => lvs[VolumeOf(d)] # None
    /\ \A t \in VMs \X Targets : devs[t] # None => Recorded(devs[t].vg, devs[t].disk)

\* What a step of w may do while nothing is deleted, detached or late.
Moves(w) ==
    /\ \A d \in Disks : disks[d] # None => disks'[d] # None /\ disks'[d].vg = disks[d].vg
    /\ \A d \in Disks : disks[d] = None /\ disks'[d] # None =>
          /\ pc[w] = "c_persist" /\ pc'[w] \notin Creating
          /\ d = Disk(w) /\ disks'[d].vg = rec[w].vg
    /\ \A x \in VGs \X Disks : lvs[x] # None /\ lvs'[x] = None =>
          pc[w] = "c_undo" /\ pc'[w] \notin Creating /\ x = LV(w)
    /\ \A x \in VGs \X Disks : lvs[x] # None /\ lvs'[x] # None /\ lvs'[x].size # lvs[x].size =>
          pc[w] = "e_lv" /\ pc'[w] # "e_lv" /\ x = LV(w)
    /\ pc'[w] \in Creating =>
          /\ req'[w] = req[w] /\ rec'[w] = rec[w] /\ pc[w] \notin {"idle", "get"}
          /\ pc[w] \in Creating \/ (lvs[LV(w)] = None /\ lvs'[LV(w)] # None)
    /\ HoldsCopy(w)' =>
          \/ HoldsCopy(w) /\ req'[w] = req[w] /\ rec'[w].vg = rec[w].vg
          \/ disks'[Disk(w)'] # None /\ disks'[Disk(w)'].vg = rec'[w].vg
    /\ \A t \in VMs \X Targets : devs'[t] # None =>
          \/ devs[t] # None /\ devs'[t].vg = devs[t].vg /\ devs'[t].disk = devs[t].disk
          \/ HoldsCopy(w) /\ devs'[t].vg = rec[w].vg /\ devs'[t].disk = Disk(w)
    /\ \A k \in Disks \X VMs : atts[k] # None => atts'[k] = atts[k]

\* Such a step leaves every disk where it is.
LEMMA PlaceKept ==
    ASSUME TypeInv, TypeInv', PlaceInv, NEW w \in Workers, OnlyLocal(w), Moves(w)
    PROVE  PlaceInv'
  <1>1. ASSUME NEW v \in Workers, pc[v] \in Creating
        PROVE  /\ LV(v) \in VGs \X Disks /\ LV(v) = <<rec[v].vg, Disk(v)>> /\ Disk(v) \in Disks
               /\ lvs[LV(v)] # None /\ ~Recorded(rec[v].vg, Disk(v))
    <2>1. pc[v] \notin {"idle", "get"}
      BY <1>1 DEF Creating
    <2> QED BY <1>1, <2>1, WorkerType DEF PlaceInv, Placed, LV
  <1>2. \A d \in Disks : disks[d] # None => VolumeOf(d) \in VGs \X Disks
    BY DEF VolumeOf, TypeInv, TypeOK, DiskTypeOK, DiskRec
  <1>3. ASSUME NEW d \in Disks, disks[d] # None PROVE lvs'[VolumeOf(d)] # None
    <2>1. VolumeOf(d) \in VGs \X Disks /\ lvs[VolumeOf(d)] # None
      BY <1>2, <1>3 DEF PlaceInv
    <2>2. pc[w] = "c_undo" => VolumeOf(d) # LV(w)
      BY <1>1, <1>3 DEF Creating, VolumeOf, Recorded
    <2> QED BY <2>1, <2>2 DEF Moves
  <1>4. ASSUME NEW d \in Disks, disks'[d] # None PROVE lvs'[VolumeOf(d)'] # None
    <2>1. CASE disks[d] # None
      BY <1>3, <2>1 DEF Moves, VolumeOf
    <2>2. CASE disks[d] = None
      <3>1. pc[w] = "c_persist" /\ d = Disk(w) /\ disks'[d].vg = rec[w].vg
        BY <1>4, <2>2 DEF Moves
      <3>2. LV(w) \in VGs \X Disks /\ lvs[LV(w)] # None /\ VolumeOf(d)' = LV(w)
        BY <1>1, <3>1 DEF Creating, VolumeOf, LV
      <3> QED BY <3>1, <3>2 DEF Moves
    <2> QED BY <2>1, <2>2
  <1>5. ASSUME NEW t \in VMs \X Targets, devs'[t] # None
        PROVE  disks'[devs'[t].disk] # None /\ disks'[devs'[t].disk].vg = devs'[t].vg
    <2>1. devs'[t].disk \in Disks
      BY <1>5 DEF TypeInv, TypeOK, DiskTypeOK, DevRec
    <2>2. disks[devs'[t].disk] # None /\ disks[devs'[t].disk].vg = devs'[t].vg
      BY <1>5 DEF Moves, PlaceInv, Placed, Recorded
    <2> QED BY <2>1, <2>2 DEF Moves
  <1>6. ASSUME NEW v \in Workers, HoldsCopy(v)'
        PROVE  disks'[Disk(v)'] # None /\ disks'[Disk(v)'].vg = rec'[v].vg
    <2>1. CASE HoldsCopy(v) /\ req'[v] = req[v] /\ rec'[v].vg = rec[v].vg
      <3>1. Disk(v) \in Disks /\ Disk(v)' = Disk(v)
        BY <2>1, WorkerType DEF HoldsCopy, Disk
      <3>2. disks[Disk(v)] # None /\ disks[Disk(v)].vg = rec[v].vg
        BY <2>1 DEF PlaceInv, Placed, Recorded
      <3> QED BY <2>1, <3>1, <3>2 DEF Moves
    <2>2. CASE v = w /\ disks'[Disk(w)'] # None /\ disks'[Disk(w)'].vg = rec'[w].vg
      BY <2>2
    <2>3. CASE v # w
      BY <1>6, <2>1, <2>3 DEF OnlyLocal, HoldsCopy
    <2> QED BY <1>6, <2>1, <2>2, <2>3 DEF Moves
  <1>7. ASSUME NEW v \in Workers, pc'[v] \in Creating
        PROVE  /\ req'[v] = req[v] /\ rec'[v] = rec[v] /\ LV(v)' = LV(v)
               /\ pc[v] \in Creating \/ (v = w /\ lvs[LV(w)] = None /\ lvs'[LV(w)] # None)
    <2>1. /\ req'[v] = req[v] /\ rec'[v] = rec[v]
          /\ pc[v] \in Creating \/ (v = w /\ lvs[LV(w)] = None /\ lvs'[LV(w)] # None)
      BY <1>7 DEF Moves, OnlyLocal
    <2> QED BY <2>1 DEF LV, Disk
  <1>8. MakersApart'
    <2> SUFFICES ASSUME NEW u \in Workers, NEW v \in Workers, u # v,
                        pc'[u] \in Creating, pc'[v] \in Creating
                 PROVE  LV(u)' # LV(v)'
      BY DEF MakersApart
    <2>1. CASE pc[u] \in Creating /\ pc[v] \in Creating
      BY <1>7, <2>1 DEF PlaceInv, MakersApart
    <2>2. CASE pc[u] \notin Creating \/ pc[v] \notin Creating
      BY <1>1, <1>7, <2>2
    <2> QED BY <2>1, <2>2
  <1>9. ASSUME NEW v \in Workers, pc'[v] \in Creating PROVE lvs'[LV(v)'] # None
    <2>1. CASE pc[v] \in Creating
      <3>1. LV(v) \in VGs \X Disks /\ lvs[LV(v)] # None /\ LV(v)' = LV(v)
        BY <1>1, <1>7, <1>9, <2>1
      <3>2. ~(pc[w] = "c_undo" /\ pc'[w] \notin Creating /\ LV(v) = LV(w))
        BY <1>9, <2>1 DEF PlaceInv, MakersApart, Creating
      <3> QED BY <3>1, <3>2 DEF Moves
    <2>2. CASE pc[v] \notin Creating
      BY <1>7, <1>9, <2>2
    <2> QED BY <2>1, <2>2
  <1>10. ASSUME NEW v \in Workers, pc'[v] \in Creating
         PROVE  ~(disks'[Disk(v)'] # None /\ disks'[Disk(v)'].vg = rec'[v].vg)
    <2>0. pc[v] \notin {"idle", "get"}
      BY <1>10 DEF Moves, OnlyLocal, Creating
    <2>1. /\ Disk(v) \in Disks /\ Disk(v)' = Disk(v) /\ rec'[v] = rec[v]
          /\ LV(v) = <<rec[v].vg, Disk(v)>> /\ LV(v) \in VGs \X Disks
      BY <1>7, <1>10, <2>0, WorkerType DEF Disk, LV
    <2>2. ~(disks[Disk(v)] # None /\ disks[Disk(v)].vg = rec[v].vg)
      <3>1. CASE pc[v] \in Creating
        BY <1>1, <3>1 DEF Recorded
      <3>2. CASE pc[v] \notin Creating
        <4>1. lvs[LV(v)] = None
          BY <1>7, <1>10, <3>2
        <4>2. disks[Disk(v)] # None => lvs[<<disks[Disk(v)].vg, Disk(v)>>] # None
          BY <2>1 DEF PlaceInv, VolumeOf
        <4> QED BY <2>1, <4>1, <4>2
      <3> QED BY <3>1, <3>2
    <2>3. CASE disks[Disk(v)] # None
      BY <2>1, <2>2, <2>3 DEF Moves
    <2>4. CASE disks[Disk(v)] = None /\ disks'[Disk(v)] # None
      <3>1. /\ pc[w] = "c_persist" /\ pc'[w] \notin Creating
            /\ Disk(v) = Disk(w) /\ disks'[Disk(v)].vg = rec[w].vg
        BY <2>1, <2>4 DEF Moves
      <3>2. v # w /\ pc[v] \in Creating /\ pc[w] \in Creating
        BY <1>10, <3>1 DEF OnlyLocal, Creating
      <3>3. LV(v) # LV(w)
        BY <3>2 DEF PlaceInv, MakersApart
      <3> QED BY <2>1, <3>1, <3>3 DEF LV
    <2> QED BY <2>1, <2>3, <2>4
  <1>11. ASSUME NEW v \in Workers PROVE Placed(v)'
    BY <1>6, <1>9, <1>10 DEF Placed, Recorded
  <1> QED BY <1>4, <1>5, <1>8, <1>11 DEF PlaceInv, Recorded

\* What a step of w may do to w's own part: it makes a volume before it is
\* Creating, and it holds a copy of a record it has read.
OwnMove(w) ==
    /\ pc'[w] \in Creating =>
          /\ req'[w] = req[w] /\ rec'[w] = rec[w] /\ pc[w] \notin {"idle", "get"}
          /\ pc[w] \in Creating \/ (lvs[LV(w)] = None /\ lvs'[LV(w)] # None)
    /\ HoldsCopy(w)' =>
          \/ HoldsCopy(w) /\ req'[w] = req[w] /\ rec'[w].vg = rec[w].vg
          \/ disks'[Disk(w)'] # None /\ disks'[Disk(w)'].vg = rec'[w].vg

LEMMA OwnMoves ==
    ASSUME TypeInv, NEW w \in Workers
    PROVE  /\ Return(w) => OwnMove(w)
           /\ \A l : /\ Goto(w, l) /\ UNCHANGED <<req, rec>> /\ pc[w] \notin {"idle", "get"}
                     /\ l \notin Creating \/ pc[w] \in Creating
                     => OwnMove(w)
  <1>1. Return(w) => pc'[w] = "idle"
    BY ReturnType
  <1>2. ASSUME NEW l, Goto(w, l) PROVE pc'[w] = l
    BY <1>2 DEF Goto, TypeInv, TypeOK, DiskTypeOK
  <1>3. Return(w) => OwnMove(w)
    BY <1>1 DEF OwnMove, Creating, HoldsCopy
  <1>4. ASSUME NEW l, Goto(w, l), UNCHANGED <<req, rec>>, pc[w] \notin {"idle", "get"},
               l \notin Creating \/ pc[w] \in Creating
        PROVE  OwnMove(w)
    <2>1. pc'[w] = l
      BY <1>2, <1>4
    <2> QED BY <1>4, <2>1 DEF OwnMove, HoldsCopy
  <1> QED BY <1>3, <1>4

\* The steps that change no record, volume, device or attachment.
LEMMA QuietMoves ==
    ASSUME TypeInv, NEW w \in Workers,
           \/ CallCreate(w) \/ CallNamed(w) \/ CancelCtx(w) \/ ReadDisk(w)
           \/ Acquire(w) \/ AcquireFails(w) \/ AcquireWaited(w) \/ AcquireGivesUp(w)
           \/ Release(w) \/ CreateGet(w) \/ ExtendList(w) \/ AttachPick(w)
    PROVE  Moves(w)
  <1> USE DEF At
  <1>0. /\ pc \in [Workers -> PCs] /\ req \in [Workers -> Requests \cup {None}]
        /\ rec \in [Workers -> DiskRec \cup {None}]
    BY DEF TypeInv, TypeOK, DiskTypeOK
  <1>1. UNCHANGED <<disks, atts, lvs, devs>>
    BY DEF CallCreate, CallNamed, CancelCtx, ReadDisk, Acquire, AcquireFails, AcquireWaited,
           AcquireGivesUp, Release, CreateGet, ExtendList, AttachPick
  <1>2. CASE CallCreate(w)
    <2>1. pc'[w] = "lock" /\ req'[w].op = "create"
      BY <1>0, <1>2 DEF CallCreate, Goto
    <2> QED BY <1>1, <2>1 DEF Moves, HoldsCopy, Creating
  <1>3. CASE CallNamed(w)
    <2>1. pc'[w] = "get"
      BY <1>0, <1>3 DEF CallNamed, Goto
    <2> QED BY <1>1, <2>1 DEF Moves, HoldsCopy, Creating
  <1>4. CASE CancelCtx(w)
    <2>1. UNCHANGED <<pc, req, rec>>
      BY <1>4 DEF CancelCtx
    <2> QED BY <1>1, <2>1 DEF Moves, HoldsCopy, Creating
  <1>5. CASE ReadDisk(w) /\ ~Return(w)
    <2>1. /\ disks[Disk(w)] # None /\ req' = req /\ rec'[w] = disks[Disk(w)]
          /\ pc'[w] \in {"a_pick", "x_att", "lock"}
      BY <1>0, <1>5 DEF ReadDisk, Goto
    <2>2. Disk(w)' = Disk(w)
      BY <2>1 DEF Disk
    <2> QED BY <1>1, <2>1, <2>2 DEF Moves, HoldsCopy, Creating
  <1>6. CASE OwnMove(w)
    BY <1>1, <1>6 DEF Moves, OwnMove
  <1>7. CASE Acquire(w) \/ AcquireFails(w) \/ AcquireWaited(w) \/ AcquireGivesUp(w) \/ Release(w)
    <2>1. Return(w) \/ (pc[w] \in {"lock", "wait"} /\ UNCHANGED <<req, rec>>
                        /\ \E l \in {"wait", "c_get", "d_list", "e_lv"} : Goto(w, l))
      BY <1>7 DEF Acquire, AcquireFails, AcquireWaited, AcquireGivesUp, Release, Entry, local
    <2> QED BY <1>6, <2>1, OwnMoves DEF Creating
  <1>8. CASE CreateGet(w) \/ ExtendList(w) \/ (AttachPick(w) /\ ~Return(w))
    <2>1. /\ pc[w] \in {"c_get", "e_list", "a_pick"} /\ UNCHANGED <<req, rec>>
          /\ \E l \in {"c_lv", "unlock", "e_resize", "a_libvirt"} : Goto(w, l)
      BY <1>8 DEF CreateGet, ExtendList, AttachPick, local
    <2> QED BY <1>6, <2>1, OwnMoves DEF Creating
  <1> QED BY <1>2, <1>3, <1>4, <1>5, <1>6, <1>7, <1>8, OwnMoves

\* CreateDisk: a record is added for a volume the call has made, and the
\* rollback takes only such a volume.
LEMMA CreateMoves ==
    ASSUME OnlyAttaches, TypeInv, NEW w \in Workers,
           CreateLV(w) \/ CreateHeader(w) \/ CreatePersist(w) \/ CreateUndo(w)
    PROVE  Moves(w)
  <1> USE DEF At
  <1>0. /\ pc \in [Workers -> PCs] /\ disks \in [Disks -> DiskRec \cup {None}]
        /\ lvs \in [VGs \X Disks -> LVRec \cup {None}]
    BY DEF TypeInv, TypeOK, DiskTypeOK
  <1>1. UNCHANGED <<atts, devs, req, rec>> /\ pc[w] \in {"c_lv", "c_header", "c_persist", "c_undo"}
    BY DEF CreateLV, CreateHeader, CreatePersist, CreateUndo, local
  <1>2. Disk(w) \in Disks /\ rec[w] \in DiskRec /\ LV(w) \in VGs \X Disks
    BY <1>1, WorkerType
  <1>3. HoldsCopy(w)' => HoldsCopy(w) /\ req'[w] = req[w] /\ rec'[w].vg = rec[w].vg
    BY <1>1 DEF HoldsCopy
  <1>4. \A l : Goto(w, l) => pc'[w] = l
    BY <1>0 DEF Goto
  <1>5. ~Late(w)
    BY DEF Late, MayBeLate, OnlyAttaches
  <1>6. CASE CreateLV(w)
    <2>1. disks' = disks /\ pc[w] = "c_lv"
      BY <1>6 DEF CreateLV
    <2>2. CASE lvs' = lvs /\ pc'[w] = "unlock"
      BY <1>1, <1>3, <2>1, <2>2 DEF Moves, Creating
    <2>3. CASE /\ lvs[LV(w)] = None
               /\ lvs' = [lvs EXCEPT ![LV(w)] = [size |-> RoundUp(rec[w].size), fmt |-> "raw"]]
      <3>1. RoundUp(rec[w].size) \in Nat
        BY <1>2, RoundUpNat DEF DiskRec
      <3>2. lvs'[LV(w)] \in LVRec
        BY <1>0, <1>2, <2>3, <3>1 DEF LVRec
      <3>3. lvs'[LV(w)] # None
        BY <3>2, NoneAssumption
      <3>4. \A x \in VGs \X Disks : lvs[x] # None => lvs'[x] = lvs[x]
        BY <1>0, <2>3
      <3> QED BY <1>1, <1>3, <2>1, <2>3, <3>3, <3>4 DEF Moves, Creating
    <2> QED BY <1>4, <1>5, <1>6, <2>2, <2>3 DEF CreateLV
  <1>7. CASE CreateHeader(w)
    <2>1. disks' = disks /\ pc[w] \in Creating
      BY <1>7 DEF CreateHeader, Creating
    <2>2. ASSUME NEW x \in VGs \X Disks, lvs[x] # None
          PROVE  lvs'[x] # None /\ lvs'[x].size = lvs[x].size
      <3>1. CASE lvs'[x] = lvs[x]
        BY <2>2, <3>1
      <3>2. CASE lvs'[x] = [lvs[x] EXCEPT !.fmt = "qcow2"]
        <4>1. lvs[x] \in LVRec
          BY <1>0, <2>2
        <4>2. lvs'[x] \in LVRec /\ lvs'[x].size = lvs[x].size
          BY <3>2, <4>1 DEF LVRec
        <4> QED BY <4>2, NoneAssumption
      <3> QED BY <1>0, <1>7, <3>1, <3>2 DEF CreateHeader
    <2> QED BY <1>1, <1>3, <2>1, <2>2 DEF Moves
  <1>8. CASE CreatePersist(w)
    <2>1. lvs' = lvs /\ pc[w] \in Creating /\ pc[w] = "c_persist"
      BY <1>8 DEF CreatePersist, Creating
    <2>2. \/ disks' = disks
          \/ /\ disks[Disk(w)] = None /\ disks' = [disks EXCEPT ![Disk(w)] = rec[w]]
             /\ pc'[w] = "unlock"
      BY <1>4, <1>5, <1>8 DEF CreatePersist
    <2> QED BY <1>0, <1>1, <1>2, <1>3, <2>1, <2>2 DEF Moves, Creating
  <1>9. CASE CreateUndo(w)
    <2>1. /\ disks' = disks /\ pc[w] = "c_undo" /\ pc'[w] = "unlock"
          /\ lvs' = lvs \/ lvs' = [lvs EXCEPT ![LV(w)] = None]
      BY <1>4, <1>9 DEF CreateUndo
    <2> QED BY <1>0, <1>1, <1>2, <1>3, <2>1 DEF Moves, Creating
  <1> QED BY <1>6, <1>7, <1>8, <1>9

\* ExtendDisk: the volume it grows is the one its copy names, and the copy it
\* writes back is a record of that volume.
LEMMA ExtendMoves ==
    ASSUME OnlyAttaches, TypeInv, PlaceInv, NEW w \in Workers,
           ExtendLV(w) \/ ExtendPersist(w) \/ ExtendResize(w)
    PROVE  Moves(w)
  <1> USE DEF At
  <1>0. /\ pc \in [Workers -> PCs] /\ disks \in [Disks -> DiskRec \cup {None}]
        /\ lvs \in [VGs \X Disks -> LVRec \cup {None}]
        /\ devs \in [VMs \X Targets -> DevRec \cup {None}]
        /\ rec \in [Workers -> DiskRec \cup {None}]
    BY DEF TypeInv, TypeOK, DiskTypeOK
  <1>1. UNCHANGED <<atts, req>> /\ pc[w] \in {"e_lv", "e_persist", "e_resize"}
    BY DEF ExtendLV, ExtendPersist, ExtendResize, local
  <1>2. Disk(w) \in Disks /\ rec[w] \in DiskRec /\ LV(w) \in VGs \X Disks
    BY <1>1, WorkerType
  <1>3. req[w] \in Requests /\ req[w].op = "extend"
    BY <1>1 DEF TypeInv, ShapeOK, Shape, OpAt
  <1>4. \A l : Goto(w, l) => pc'[w] = l
    BY <1>0 DEF Goto
  <1>5. ~Late(w)
    BY DEF Late, MayBeLate, OnlyAttaches
  <1>6. HoldsCopy(w)
    BY <1>1, <1>3 DEF HoldsCopy
  <1>7. CASE ExtendLV(w)
    <2>1. UNCHANGED <<disks, devs>> /\ pc[w] = "e_lv" /\ pc'[w] \in {"e_persist", "unlock"}
      BY <1>4, <1>7 DEF ExtendLV
    <2>2. rec'[w].vg = rec[w].vg
      <3>1. \/ rec' = rec
            \/ \E s : rec' = [rec EXCEPT ![w].size = s]
        BY <1>7 DEF ExtendLV
      <3> QED BY <1>0, <1>2, <3>1 DEF DiskRec
    <2>3. ASSUME NEW x \in VGs \X Disks, lvs[x] # None
          PROVE  lvs'[x] # None /\ (lvs'[x].size # lvs[x].size => x = LV(w))
      <3>1. CASE lvs'[x] = lvs[x]
        BY <2>3, <3>1
      <3>2. CASE x = LV(w) /\ lvs'[x] = [lvs[x] EXCEPT !.size = Extended(lvs[x], req[w].in)]
        <4>1. lvs[x] \in LVRec /\ req[w].in \in ExtendIn
          BY <1>0, <1>3, <2>3 DEF Requests
        <4>2. Extended(lvs[x], req[w].in) \in Nat
          BY <4>1, ExtendedNat
        <4>3. lvs'[x] \in LVRec
          BY <3>2, <4>1, <4>2 DEF LVRec
        <4> QED BY <3>2, <4>3, NoneAssumption
      <3> QED BY <1>0, <1>7, <3>1, <3>2 DEF ExtendLV
    <2>4. pc'[w] \notin Creating
      BY <2>1 DEF Creating
    <2> QED BY <1>1, <1>6, <2>1, <2>2, <2>3, <2>4 DEF Moves
  <1>8. CASE ExtendPersist(w)
    <2>1. /\ UNCHANGED <<lvs, devs, rec>> /\ pc'[w] \in {"e_list", "unlock"}
          /\ disks' = disks \/ (disks[Disk(w)] # None /\ disks' = [disks EXCEPT ![Disk(w)] = rec[w]])
      BY <1>4, <1>8 DEF ExtendPersist, local
    <2>2. disks[Disk(w)].vg = rec[w].vg
      BY <1>6 DEF PlaceInv, Placed, Recorded
    <2>3. rec[w] # None
      BY <1>2, NoneAssumption
    <2>4. \A d \in Disks : disks'[d] = disks[d] \/ (d = Disk(w) /\ disks[d] # None /\ disks'[d] = rec[w])
      BY <1>0, <1>2, <2>1
    <2>5. pc'[w] \notin Creating
      BY <2>1 DEF Creating
    <2> QED BY <1>1, <1>6, <2>1, <2>2, <2>3, <2>4, <2>5 DEF Moves
  <1>9. CASE ExtendResize(w)
    <2>1. /\ UNCHANGED <<disks, lvs, rec>> /\ pc'[w] \in {"unlock", "e_resize"}
          /\ devs' = devs \/ \E t : devs[t] # None /\ devs' = [devs EXCEPT ![t].cap = rec[w].size]
      BY <1>4, <1>9 DEF ExtendResize
    <2>2. ASSUME NEW t \in VMs \X Targets, devs'[t] # None
          PROVE  devs[t] # None /\ devs'[t].vg = devs[t].vg /\ devs'[t].disk = devs[t].disk
      <3>1. CASE devs'[t] = devs[t]
        BY <2>2, <3>1
      <3>2. CASE devs[t] # None /\ devs'[t] = [devs[t] EXCEPT !.cap = rec[w].size]
        <4>1. devs[t] \in DevRec
          BY <1>0, <3>2
        <4> QED BY <3>2, <4>1 DEF DevRec
      <3> QED BY <1>0, <2>1, <3>1, <3>2
    <2>3. pc'[w] \notin Creating
      BY <2>1 DEF Creating
    <2> QED BY <1>1, <1>6, <2>1, <2>2, <2>3 DEF Moves
  <1> QED BY <1>7, <1>8, <1>9

\* AttachDisk: the device it plugs in is the volume its copy names, and it
\* overwrites no attachment.
LEMMA AttachMoves ==
    ASSUME OnlyAttaches, TypeInv, NEW w \in Workers,
           AttachLibvirt(w) \/ AttachPersist(w) \/ AttachUndo(w)
    PROVE  Moves(w)
  <1> USE DEF At
  <1>0. /\ pc \in [Workers -> PCs] /\ atts \in [Disks \X VMs -> AttRec \cup {None}]
        /\ devs \in [VMs \X Targets -> DevRec \cup {None}]
    BY DEF TypeInv, TypeOK, DiskTypeOK
  <1>1. UNCHANGED <<disks, lvs>> /\ pc[w] \in {"a_libvirt", "a_persist", "a_undo"}
    BY DEF AttachLibvirt, AttachPersist, AttachUndo
  <1>2. req[w] \in Requests /\ req[w].op = "attach"
    BY <1>1 DEF TypeInv, ShapeOK, Shape, OpAt
  <1>3. HoldsCopy(w)
    BY <1>1, <1>2 DEF HoldsCopy
  <1>4. \A l : Goto(w, l) => pc'[w] = l
    BY <1>0 DEF Goto
  <1>5. ~Late(w)
    BY DEF Late, MayBeLate, OnlyAttaches
  <1>6. OwnMove(w)
    <2>1. Return(w) \/ (UNCHANGED <<req, rec>> /\ \E l \in {"a_persist", "a_undo"} : Goto(w, l))
      BY DEF AttachLibvirt, AttachPersist, AttachUndo, local
    <2> QED BY <1>1, <2>1, OwnMoves DEF Creating
  <1>7. ASSUME NEW t \in VMs \X Targets, devs'[t] # None
        PROVE  \/ devs[t] # None /\ devs'[t].vg = devs[t].vg /\ devs'[t].disk = devs[t].disk
               \/ devs'[t].vg = rec[w].vg /\ devs'[t].disk = Disk(w)
    <2>1. CASE devs'[t] = devs[t]
      BY <1>7, <2>1
    <2>2. CASE AttachLibvirt(w)
      <3>1. \/ devs' = devs
            \/ devs' = [devs EXCEPT ![Spot(w)] =
                  [vg |-> rec[w].vg, disk |-> Disk(w),
                   fmt |-> IF rec[w].mode = "thin" THEN "qcow2" ELSE "raw",
                   cap |-> IF rec[w].mode = "thin" THEN rec[w].virt ELSE lvs[LV(w)].size]]
        BY <1>5, <2>2 DEF AttachLibvirt, Spot
      <3> QED BY <1>0, <2>1, <3>1
    <2>3. CASE AttachPersist(w) \/ AttachUndo(w)
      BY <1>0, <1>7, <2>1, <2>3 DEF AttachPersist, AttachUndo
    <2> QED BY <2>2, <2>3
  <1>8. \A k \in Disks \X VMs : atts[k] # None => atts'[k] = atts[k]
    BY <1>0, <1>5 DEF AttachLibvirt, AttachPersist, AttachUndo
  <1> QED BY <1>1, <1>3, <1>6, <1>7, <1>8 DEF Moves, OwnMove

LEMMA StepMoves ==
    ASSUME OnlyAttaches, TypeInv, AttachInv, PlaceInv, NEW w \in Workers,
           CallCreate(w) \/ CallNamed(w) \/ CancelCtx(w) \/ Handler(w)
    PROVE  Moves(w)
  BY NoDetachSteps, QuietMoves, CreateMoves, ExtendMoves, AttachMoves DEF Handler

LEMMA PlaceInvStep ==
    ASSUME OnlyAttaches, TypeInv, AttachInv, PlaceInv, [Next]_vars PROVE PlaceInv'
  <1>1. CASE UNCHANGED diskVars
    <2>1. UNCHANGED <<disks, lvs, devs, pc, req, rec>>
      BY <1>1 DEF diskVars
    <2> QED BY <2>1 DEF PlaceInv, Placed, MakersApart, VolumeOf, HoldsCopy, Recorded, LV, Disk
  <1>2. ASSUME NEW w \in Workers,
               CallCreate(w) \/ CallNamed(w) \/ CancelCtx(w) \/ Handler(w)
        PROVE  PlaceInv'
    BY <1>2, TypeInvStep, StepIsLocal, StepMoves, PlaceKept
  <1> QED BY <1>1, <1>2 DEF Next, vars

LEMMA PlaceInvInit ==
    ASSUME Init PROVE PlaceInv
  BY DEF Init, DiskInit, PlaceInv, Placed, MakersApart, HoldsCopy, Creating

-----------------------------------------------------------------------------
(* One call at a time.                                                      *)

\* Attachments are stored under the disk and the VM they name.
KeyedAtts ==
    \A k \in Disks \X VMs : atts[k] # None => atts[k].disk = k[1] /\ atts[k].vm = k[2]

\* The catalog's attachments are written under their own keys.
LEMMA KeyedStep ==
    ASSUME TypeInv, KeyedAtts, [Next]_vars PROVE KeyedAtts'
  <1>0. atts \in [Disks \X VMs -> AttRec \cup {None}]
    BY DEF TypeInv, TypeOK, DiskTypeOK
  <1>1. CASE UNCHANGED atts
    BY <1>1 DEF KeyedAtts
  <1>2. ASSUME NEW w \in Workers, AttachPersist(w) PROVE KeyedAtts'
    <2>1. cur[w] \in AttRec
      BY <1>2 DEF AttachPersist, At, TypeInv, ShapeOK, Shape
    <2>2. PICK k \in Disks \X VMs : k = <<cur[w].disk, cur[w].vm>>
      BY <2>1 DEF AttRec
    <2>3. UNCHANGED atts \/ atts' = [atts EXCEPT ![k] = cur[w]]
      BY <1>2, <2>2 DEF AttachPersist
    <2> QED BY <1>0, <1>1, <2>2, <2>3 DEF KeyedAtts
  <1>3. ASSUME NEW w \in Workers, DetachStore(w) PROVE KeyedAtts'
    <2>1. UNCHANGED atts \/ \E k : atts' = [atts EXCEPT ![k] = None]
      BY <1>3 DEF DetachStore
    <2> QED BY <1>0, <1>1, <2>1 DEF KeyedAtts
  <1>4. ASSUME NEW w \in Workers, Handler(w), ~AttachPersist(w), ~DetachStore(w)
        PROVE  UNCHANGED atts
    BY <1>4 DEF Handler, ReadDisk, Acquire, AcquireFails, AcquireWaited, AcquireGivesUp, Release,
         CreateGet, CreateLV, CreateHeader, CreatePersist, CreateUndo, DeleteList, DetachGet,
         DetachLibvirt, DeleteLV, DeleteRecord, ExtendLV, ExtendPersist,
         ExtendList, ExtendResize, AttachPick, AttachLibvirt, AttachUndo
  <1>5. CASE UNCHANGED vars
    BY <1>1, <1>5 DEF vars, diskVars
  <1>6. CASE \E n \in Nodes : DaemonStep(n) /\ UNCHANGED diskVars
    BY <1>1, <1>6 DEF diskVars
  <1>7. ASSUME NEW w \in Workers, CallCreate(w) \/ CallNamed(w) \/ CancelCtx(w)
        PROVE  KeyedAtts'
    BY <1>1, <1>7 DEF CallCreate, CallNamed, CancelCtx
  <1> QED BY <1>1, <1>2, <1>3, <1>4, <1>5, <1>6, <1>7 DEF Next

\* Calls take turns, whichever daemons serve them, and are refused only for
\* reasons of their own.  A daemon may die, and its call is then never over.
OneAtATime == \A v, w \in Workers : v # w => pc[v] = "idle" \/ pc[w] = "idle"
Reliable == Faults \cap {"fail", "late", "cancel"} = {}

\* a is an attachment of w's disk and in the catalog.
Owns(w, a) == a.disk = Disk(w) /\ atts[<<a.disk, a.vm>>] = a

\* What DetachDisk and DeleteDisk rely on: the attachments to come are still in
\* the catalog, the one at hand has lost its device, and a DeleteDisk has
\* found all there are.
Unplugs(w) ==
    /\ pc[w] \in {"detach", "detached"} => \A a \in todo[w] : Owns(w, a)
    /\ pc[w] = "detached" => Owns(w, cur[w]) /\ cur[w] \notin todo[w] /\ devs[Spot(w)] = None
    /\ pc[w] \in {"detach", "detached", "d_lv", "d_record"} /\ req[w].op = "delete" =>
          \A k \in Disks \X VMs : k[1] = Disk(w) /\ atts[k] # None =>
              \/ pc[w] \in {"detach", "detached"} /\ atts[k] \in todo[w]
              \/ pc[w] = "detached" /\ atts[k] = cur[w]

Knows(w) ==
    /\ ctx[w] = "live"
    /\ pc[w] \in {"a_pick", "a_libvirt", "a_persist", "a_undo"} => disks[Disk(w)] # None
    /\ PluggedIn(w)
    /\ Unplugs(w)

\* Every attachment has its device, but for the one a handler has just taken
\* away; every device its attachment, but for the one just plugged in.
HasDevice(k) ==
    \/ \E w \in Workers : pc[w] = "detached" /\ cur[w] = atts[k]
    \/ devs[<<k[2], atts[k].tgt>>] # None /\ devs[<<k[2], atts[k].tgt>>].disk = k[1]
HasAttachment(t) ==
    \/ \E w \in Workers : Holding(w) /\ Spot(w) = t
    \/ atts[<<devs[t].disk, t[1]>>] # None /\ atts[<<devs[t].disk, t[1]>>].tgt = t[2]

Agree ==
    /\ KeyedAtts
    /\ \A k \in Disks \X VMs : atts[k] # None => HasDevice(k) /\ disks[k[1]] # None
    /\ \A t \in VMs \X Targets : devs[t] # None => HasAttachment(t)

TurnInv == Agree /\ \A w \in Workers : Knows(w)

\* What the state's types say of attachments and devices.
LEMMA KeyFacts ==
    ASSUME TypeInv
    PROVE  /\ \A k \in Disks \X VMs : atts[k] # None =>
                 atts[k] \in AttRec /\ <<k[2], atts[k].tgt>> \in VMs \X Targets
           /\ \A t \in VMs \X Targets : devs[t] # None =>
                 devs[t] \in DevRec /\ <<devs[t].disk, t[1]>> \in Disks \X VMs
  BY DEF TypeInv, TypeOK, DiskTypeOK, AttRec, DevRec

\* A step that leaves the attachments and the devices alone keeps their
\* agreement, if its handler has not left them in disagreement.
LEMMA QuietAgree ==
    ASSUME TypeInv, TypeInv', TurnInv, NEW w \in Workers, OnlyLocal(w), atts' = atts,
           \A t \in VMs \X Targets :
              /\ (devs'[t] = None) = (devs[t] = None)
              /\ devs[t] # None => devs'[t].disk = devs[t].disk,
           \A k \in Disks \X VMs : atts[k] # None => disks'[k[1]] # None,
           pc[w] \notin {"detached", "a_persist", "a_undo"}
    PROVE  Agree'
  <1>0. Agree
    BY DEF TurnInv
  <1>1. KeyedAtts'
    BY <1>0 DEF Agree, KeyedAtts
  <1>2. ASSUME NEW k \in Disks \X VMs, atts[k] # None PROVE HasDevice(k)'
    <2>1. HasDevice(k) /\ <<k[2], atts[k].tgt>> \in VMs \X Targets
      BY <1>0, <1>2, KeyFacts DEF Agree
    <2>2. \A v \in Workers : pc[v] = "detached" => pc'[v] = "detached" /\ cur'[v] = cur[v]
      BY DEF OnlyLocal
    <2> QED BY <2>1, <2>2 DEF HasDevice
  <1>3. ASSUME NEW t \in VMs \X Targets, devs'[t] # None PROVE HasAttachment(t)'
    <2>1. devs[t] # None /\ devs'[t].disk = devs[t].disk
      BY <1>3
    <2>2. HasAttachment(t)
      BY <1>0, <2>1 DEF Agree
    <2>3. \A v \in Workers : Holding(v) => Holding(v)' /\ Spot(v)' = Spot(v)
      BY DEF OnlyLocal, Holding, Spot
    <2> QED BY <2>1, <2>2, <2>3 DEF HasAttachment
  <1> QED BY <1>1, <1>2, <1>3 DEF Agree

\* Without faults no call is cut off.
LEMMA CallsSucceed ==
    ASSUME Reliable, TurnInv, NEW w \in Workers
    PROVE  /\ CallOk(w) /\ StoreOk(w) /\ ~CallErr(w) /\ ~StoreErr(w) /\ ~Late(w)
  BY DEF Reliable, TurnInv, Knows, CallOk, StoreOk, CallErr, StoreErr, Late, MayFail, MayBeLate

\* No handler's step ends a context, and a return makes a new one.
LEMMA ContextKept ==
    ASSUME TypeInv, NEW w \in Workers, CallCreate(w) \/ CallNamed(w) \/ Handler(w),
           \A v \in Workers : ctx[v] = "live"
    PROVE  \A v \in Workers : ctx'[v] = "live"
  <1>0. ctx \in [Workers -> {"live", "done"}]
    BY DEF TypeInv, TypeOK, DiskTypeOK
  <1>1. CASE Return(w)
    BY <1>0, <1>1 DEF Return
  <1>2. CASE ctx' = ctx
    BY <1>2
  <1>3. Return(w) \/ ctx' = ctx
    <2>1. CASE CallCreate(w) \/ CallNamed(w) \/ ReadDisk(w)
      BY <2>1 DEF CallCreate, CallNamed, ReadDisk
    <2>2. CASE Acquire(w) \/ AcquireFails(w) \/ AcquireWaited(w) \/ AcquireGivesUp(w) \/ Release(w)
      BY <2>2 DEF Acquire, AcquireFails, AcquireWaited, AcquireGivesUp, Release, local
    <2>3. CASE CreateGet(w) \/ CreateLV(w) \/ CreateHeader(w) \/ CreatePersist(w) \/ CreateUndo(w)
      BY <2>3 DEF CreateGet, CreateLV, CreateHeader, CreatePersist, CreateUndo, local
    <2>4. CASE DeleteList(w) \/ DetachGet(w) \/ DetachLibvirt(w) \/ DetachStore(w)
               \/ DeleteLV(w) \/ DeleteRecord(w)
      BY <2>4 DEF DeleteList, DetachGet, DetachLibvirt, DetachStore, DeleteLV, DeleteRecord,
           Abort, local
    <2>5. CASE ExtendLV(w) \/ ExtendPersist(w) \/ ExtendList(w) \/ ExtendResize(w)
      BY <2>5 DEF ExtendLV, ExtendPersist, ExtendList, ExtendResize, local
    <2>6. CASE AttachPick(w) \/ AttachLibvirt(w) \/ AttachPersist(w) \/ AttachUndo(w)
      BY <2>6 DEF AttachPick, AttachLibvirt, AttachPersist, AttachUndo, local
    <2> QED BY <2>1, <2>2, <2>3, <2>4, <2>5, <2>6 DEF Handler
  <1> QED BY <1>1, <1>2, <1>3

\* Who is not in the middle of an attach, detach or delete has little to know.
LEMMA KnowsLittle ==
    ASSUME NEW w, ctx'[w] = "live",
           pc'[w] \notin {"a_pick", "a_libvirt", "a_persist", "a_undo",
                          "detach", "detached", "d_lv", "d_record"}
    PROVE  Knows(w)'
  BY DEF Knows, PluggedIn, Holding, Unplugs

\* Calls, locks, CreateDisk, ExtendDisk: nothing is attached or detached.
LEMMA OtherTurn ==
    ASSUME TypeInv, TypeInv', TurnInv, NEW w \in Workers, OnlyLocal(w), ctx'[w] = "live",
           \/ CallCreate(w) \/ CallNamed(w) \/ ReadDisk(w)
           \/ Acquire(w) \/ AcquireFails(w) \/ AcquireWaited(w) \/ AcquireGivesUp(w)
           \/ Release(w)
           \/ CreateGet(w) \/ CreateLV(w) \/ CreateHeader(w) \/ CreatePersist(w)
           \/ CreateUndo(w)
           \/ ExtendLV(w) \/ ExtendPersist(w) \/ ExtendList(w)
    PROVE  Agree' /\ Knows(w)'
  <1> USE DEF At
  <1>0. /\ pc \in [Workers -> PCs] /\ disks \in [Disks -> DiskRec \cup {None}]
    BY DEF TypeInv, TypeOK, DiskTypeOK
  <1>1. ASSUME NEW l, Goto(w, l) PROVE pc'[w] = l
    BY <1>0, <1>1 DEF Goto
  <1>2. Return(w) => pc'[w] = "idle"
    BY <1>1 DEF Return
  <1>3. /\ UNCHANGED <<atts, devs>> /\ pc[w] \notin {"detached", "a_persist", "a_undo"}
        /\ \/ disks' = disks
           \/ pc[w] \in {"c_persist", "e_persist"} /\ disks' = [disks EXCEPT ![Disk(w)] = rec[w]]
        /\ \/ pc'[w] \notin {"a_pick", "a_libvirt", "a_persist", "a_undo",
                             "detach", "detached", "d_lv", "d_record"}
           \/ pc'[w] = "a_pick" /\ req' = req /\ disks' = disks /\ disks[Disk(w)] # None
    <2>1. CASE CallCreate(w) \/ CallNamed(w) \/ ReadDisk(w)
      BY <1>1, <1>2, <2>1 DEF CallCreate, CallNamed, ReadDisk
    <2>2. CASE Acquire(w) \/ AcquireFails(w) \/ AcquireWaited(w) \/ AcquireGivesUp(w) \/ Release(w)
      BY <1>1, <1>2, <2>2
      DEF Acquire, AcquireFails, AcquireWaited, AcquireGivesUp, Release, Entry
    <2>3. CASE CreateGet(w) \/ CreateLV(w) \/ CreateHeader(w) \/ CreatePersist(w) \/ CreateUndo(w)
      BY <1>1, <2>3 DEF CreateGet, CreateLV, CreateHeader, CreatePersist, CreateUndo
    <2>4. CASE ExtendLV(w) \/ ExtendPersist(w) \/ ExtendList(w)
      BY <1>1, <2>4 DEF ExtendLV, ExtendPersist, ExtendList
    <2> QED BY <2>1, <2>2, <2>3, <2>4
  <1>4. \A d \in Disks : disks[d] # None => disks'[d] # None
    <2>1. CASE disks' = disks
      BY <2>1
    <2>2. CASE pc[w] \in {"c_persist", "e_persist"} /\ disks' = [disks EXCEPT ![Disk(w)] = rec[w]]
      <3>1. rec[w] \in DiskRec
        BY <2>2, WorkerType
      <3> QED BY <1>0, <2>2, <3>1, NoneAssumption
    <2> QED BY <1>3, <2>1, <2>2
  <1>5. Agree'
    <2>1. \A k \in Disks \X VMs : atts[k] # None => disks'[k[1]] # None
      BY <1>4 DEF TurnInv, Agree
    <2> QED BY <1>3, <2>1, QuietAgree
  <1>6. Knows(w)'
    <2>1. CASE pc'[w] = "a_pick" /\ req' = req /\ disks' = disks /\ disks[Disk(w)] # None
      BY <2>1 DEF Knows, PluggedIn, Holding, Unplugs, Disk
    <2> QED BY <1>3, <2>1, KnowsLittle
  <1> QED BY <1>5, <1>6

LEMMA ResizeTurn ==
    ASSUME TypeInv, TypeInv', TurnInv, NEW w \in Workers, OnlyLocal(w), ctx'[w] = "live",
           ExtendResize(w)
    PROVE  Agree' /\ Knows(w)'
  <1>0. /\ pc \in [Workers -> PCs] /\ devs \in [VMs \X Targets -> DevRec \cup {None}]
        /\ rec \in [Workers -> DiskRec \cup {None}]
    BY DEF TypeInv, TypeOK, DiskTypeOK
  <1>1. /\ atts' = atts /\ disks' = disks /\ pc[w] = "e_resize"
        /\ pc'[w] \in {"unlock", "e_resize"}
        /\ \/ devs' = devs
           \/ \E t : devs[t] # None /\ devs' = [devs EXCEPT ![t].cap = rec[w].size]
    BY <1>0 DEF ExtendResize, At, Goto
  <1>2. rec[w].size \in Nat
    BY <1>1, WorkerType DEF DiskRec
  <1>3. ASSUME NEW t \in VMs \X Targets
        PROVE  /\ (devs'[t] = None) = (devs[t] = None)
               /\ devs[t] # None => devs'[t].disk = devs[t].disk
    <2>1. CASE devs'[t] = devs[t]
      BY <2>1
    <2>2. CASE devs[t] # None /\ devs'[t] = [devs[t] EXCEPT !.cap = rec[w].size]
      <3>1. devs[t] \in DevRec
        BY <1>0, <2>2
      <3>2. devs'[t] \in DevRec /\ devs'[t].disk = devs[t].disk
        BY <1>2, <2>2, <3>1 DEF DevRec
      <3> QED BY <2>2, <3>2, NoneAssumption
    <2> QED BY <1>0, <1>1, <2>1, <2>2
  <1>4. \A k \in Disks \X VMs : atts[k] # None => disks'[k[1]] # None
    BY <1>1 DEF TurnInv, Agree
  <1>5. Agree'
    BY <1>1, <1>3, <1>4, QuietAgree
  <1> QED BY <1>1, <1>5, KnowsLittle

\* DeleteDisk and DetachDisk, up to the first detach and after the last.
LEMMA DeleteTurn ==
    ASSUME TypeInv, TypeInv', TurnInv, NEW w \in Workers, OnlyLocal(w), ctx'[w] = "live",
           DeleteList(w) \/ DetachGet(w) \/ DeleteLV(w) \/ DeleteRecord(w)
    PROVE  Agree' /\ Knows(w)'
  <1> USE DEF At
  <1>0. /\ pc \in [Workers -> PCs] /\ disks \in [Disks -> DiskRec \cup {None}]
        /\ todo \in [Workers -> SUBSET AttRec]
    BY DEF TypeInv, TypeOK, DiskTypeOK
  <1>1. ASSUME NEW l, Goto(w, l) PROVE pc'[w] = l
    BY <1>0, <1>1 DEF Goto
  <1>2. Return(w) => pc'[w] = "idle"
    BY <1>1 DEF Return
  <1>3. Agree /\ Knows(w) /\ KeyedAtts
    BY DEF TurnInv, Agree
  <1>4. pc[w] \in {"d_list", "x_att", "d_lv", "d_record"}
    BY DEF DeleteList, DetachGet, DeleteLV, DeleteRecord
  <1>5. req[w] \in Requests /\ OpAt(req[w].op, pc[w]) /\ Disk(w) \in Disks
    BY <1>4, WorkerType DEF TypeInv, ShapeOK, Shape
  <1>6. UNCHANGED <<atts, devs>>
    BY DEF DeleteList, DetachGet, DeleteLV, DeleteRecord
  <1>7. ASSUME \A k \in Disks \X VMs : atts[k] # None => disks'[k[1]] # None PROVE Agree'
    BY <1>4, <1>6, <1>7, QuietAgree
  <1>8. disks' = disks => Agree'
    BY <1>3, <1>7 DEF Agree
  <1>9. ASSUME NEW k \in Disks \X VMs, NEW a, a = atts[k], a # None, k[1] = Disk(w), req' = req
        PROVE  Owns(w, a)'
    <2>1. a.disk = k[1] /\ a.vm = k[2]
      BY <1>3, <1>9 DEF KeyedAtts
    <2>2. <<a.disk, a.vm>> = k
      BY <2>1
    <2> QED BY <1>6, <1>9, <2>1, <2>2 DEF Owns, Disk
  <1>10. CASE DeleteList(w)
    <2>1. disks' = disks /\ req' = req /\ req[w].op = "delete" /\ pc[w] = "d_list"
      BY <1>4, <1>5, <1>10 DEF DeleteList, OpAt
    <2>2. CASE pc'[w] = "unlock"
      BY <1>8, <2>1, <2>2, KnowsLittle
    <2>3. CASE pc'[w] # "unlock"
      <3>1. /\ todo'[w] = AttachmentsOf(Disk(w))
            /\ pc'[w] = IF AttachmentsOf(Disk(w)) = {} THEN "d_lv" ELSE "detach"
        BY <1>0, <1>1, <1>10, <2>3 DEF DeleteList
      <3>2. \A k \in Disks \X VMs : k[1] = Disk(w) /\ atts[k] # None => atts[k] \in todo'[w]
        BY <1>5, <3>1 DEF AttachmentsOf
      <3>3. \A a \in todo'[w] : Owns(w, a)'
        <4> SUFFICES ASSUME NEW a \in todo'[w] PROVE Owns(w, a)'
          OBVIOUS
        <4>1. PICK vm \in VMs : atts[<<Disk(w), vm>>] # None /\ a = atts[<<Disk(w), vm>>]
          BY <3>1 DEF AttachmentsOf
        <4>2. PICK k \in Disks \X VMs : k = <<Disk(w), vm>>
          BY <1>5
        <4> QED BY <1>9, <2>1, <4>1, <4>2
      <3>4. pc'[w] = "d_lv" => todo'[w] = {}
        BY <3>1
      <3>5. Unplugs(w)'
        BY <1>6, <2>1, <3>1, <3>2, <3>3, <3>4 DEF Unplugs, Disk
      <3>6. Knows(w)'
        BY <3>1, <3>5 DEF Knows, PluggedIn, Holding
      <3> QED BY <1>8, <2>1, <3>6
    <2> QED BY <2>2, <2>3
  <1>11. CASE DetachGet(w)
    <2>1. disks' = disks /\ req[w].op = "detach" /\ pc[w] = "x_att"
      BY <1>4, <1>5, <1>11 DEF DetachGet, OpAt
    <2>2. CASE Return(w)
      BY <1>2, <1>8, <2>1, <2>2, KnowsLittle
    <2>3. CASE ~Return(w)
      <3>1. req[w].vm \in VMs
        BY <1>5, <2>1 DEF Requests
      <3>2. PICK k \in Disks \X VMs : k = <<Disk(w), req[w].vm>>
        BY <1>5, <3>1
      <3>3. req' = req /\ atts[k] # None /\ todo'[w] = {atts[k]} /\ pc'[w] = "detach"
        BY <1>0, <1>1, <1>11, <2>3, <3>2 DEF DetachGet
      <3>4. \A a \in todo'[w] : Owns(w, a)'
        BY <1>9, <3>2, <3>3
      <3>5. Unplugs(w)'
        BY <2>1, <3>3, <3>4 DEF Unplugs
      <3>6. Knows(w)'
        BY <3>3, <3>5 DEF Knows, PluggedIn, Holding
      <3> QED BY <1>8, <2>1, <3>6
    <2> QED BY <2>2, <2>3
  <1>12. CASE DeleteLV(w)
    <2>1. /\ UNCHANGED <<disks, req, todo>> /\ pc[w] = "d_lv" /\ req[w].op = "delete"
          /\ pc'[w] \in {"unlock", "d_record"}
      BY <1>1, <1>4, <1>5, <1>12 DEF DeleteLV, OpAt, local
    <2>2. \A k \in Disks \X VMs : k[1] = Disk(w) => atts[k] = None
      BY <1>3, <2>1 DEF Knows, Unplugs
    <2>3. Unplugs(w)'
      BY <1>6, <2>1, <2>2 DEF Unplugs, Disk
    <2>4. Knows(w)'
      BY <2>1, <2>3 DEF Knows, PluggedIn, Holding
    <2> QED BY <1>8, <2>1, <2>4
  <1>13. CASE DeleteRecord(w)
    <2>1. /\ pc[w] = "d_record" /\ req[w].op = "delete" /\ pc'[w] = "unlock"
          /\ disks' = disks \/ disks' = [disks EXCEPT ![Disk(w)] = None]
      BY <1>1, <1>4, <1>5, <1>13 DEF DeleteRecord, OpAt
    <2>2. \A k \in Disks \X VMs : k[1] = Disk(w) => atts[k] = None
      BY <1>3, <2>1 DEF Knows, Unplugs
    <2>3. \A k \in Disks \X VMs : atts[k] # None => disks'[k[1]] # None
      BY <1>0, <1>3, <2>1, <2>2 DEF Agree
    <2> QED BY <1>7, <2>1, <2>3, KnowsLittle
  <1> QED BY <1>10, <1>11, <1>12, <1>13

\* Where nobody else is at work, the attachments and the devices are what the
\* invariant says without exceptions, or with w's own.
LEMMA AloneAgree ==
    ASSUME TypeInv, TurnInv, NEW w \in Workers, \A v \in Workers : v # w => pc[v] = "idle"
    PROVE  /\ \A k \in Disks \X VMs :
                 atts[k] # None /\ ~(pc[w] = "detached" /\ cur[w] = atts[k]) =>
                    /\ devs[<<k[2], atts[k].tgt>>] # None
                    /\ devs[<<k[2], atts[k].tgt>>].disk = k[1]
           /\ \A t \in VMs \X Targets :
                 devs[t] # None /\ ~(Holding(w) /\ Spot(w) = t) =>
                    /\ atts[<<devs[t].disk, t[1]>>] # None
                    /\ atts[<<devs[t].disk, t[1]>>].tgt = t[2]
  <1>1. \A v \in Workers : v # w => pc[v] # "detached" /\ ~Holding(v)
    BY DEF Holding
  <1> QED BY <1>1 DEF TurnInv, Agree, HasDevice, HasAttachment

\* The detach of one attachment.
LEMMA DetachTurn ==
    ASSUME Reliable, TypeInv, TypeInv', TurnInv, KeyedAtts', NEW w \in Workers, OnlyLocal(w),
           ctx'[w] = "live", \A v \in Workers : v # w => pc[v] = "idle",
           DetachLibvirt(w) \/ DetachStore(w)
    PROVE  Agree' /\ Knows(w)'
  <1> USE DEF At
  <1>0. /\ pc \in [Workers -> PCs] /\ devs \in [VMs \X Targets -> DevRec \cup {None}]
        /\ todo \in [Workers -> SUBSET AttRec] /\ cur \in [Workers -> AttRec \cup {None}]
        /\ atts \in [Disks \X VMs -> AttRec \cup {None}]
    BY DEF TypeInv, TypeOK, DiskTypeOK
  <1>1. ASSUME NEW l, Goto(w, l) PROVE pc'[w] = l
    BY <1>0, <1>1 DEF Goto
  <1>2. Return(w) => pc'[w] = "idle"
    BY <1>1 DEF Return
  <1>3. Agree /\ Knows(w) /\ KeyedAtts
    BY DEF TurnInv, Agree
  <1>4. /\ pc[w] \in {"detach", "detached"} /\ ~Holding(w) /\ ~StoreErr(w) /\ ~Late(w)
        /\ disks' = disks
    BY CallsSucceed DEF DetachLibvirt, DetachStore, Holding
  <1>5. OpAt(req[w].op, pc[w]) /\ Disk(w) \in Disks
    BY <1>4, WorkerType DEF TypeInv, ShapeOK, Shape
  <1>6. \A k \in Disks \X VMs : atts[k] # None => disks'[k[1]] # None
    BY <1>3, <1>4 DEF Agree
  <1>7. CASE DetachLibvirt(w)
    <2>1. pc[w] = "detach" /\ atts' = atts
      BY <1>7 DEF DetachLibvirt
    <2>2. CASE devs' = devs /\ Abort(w)
      <3>1. pc'[w] \in {"idle", "unlock"}
        BY <1>1, <1>2, <2>2 DEF Abort
      <3>2. Agree'
        BY <1>6, <2>1, <2>2, QuietAgree
      <3> QED BY <3>1, <3>2, KnowsLittle
    <2>3. CASE ~(devs' = devs /\ Abort(w))
      <3>1. PICK a \in todo[w] :
               /\ devs' = [devs EXCEPT ![<<a.vm, a.tgt>>] = None]
               /\ todo' = [todo EXCEPT ![w] = @ \ {a}]
               /\ cur' = [cur EXCEPT ![w] = a]
               /\ pc'[w] = "detached" /\ req' = req
        BY <1>1, <1>4, <1>7, <2>3 DEF DetachLibvirt
      <3>2. a \in AttRec /\ Owns(w, a) /\ a # None
        BY <1>0, <1>3, <2>1, NoneAssumption DEF Knows, Unplugs
      <3>3. PICK c \in Disks \X VMs : c = <<a.disk, a.vm>>
        BY <3>2 DEF AttRec
      <3>4. PICK s \in VMs \X Targets : s = <<a.vm, a.tgt>>
        BY <3>2 DEF AttRec
      <3>5. atts[c] = a /\ devs[s].disk = c[1]
        BY <2>1, <3>2, <3>3, <3>4, AloneAgree DEF Owns
      <3>6. cur'[w] = a /\ todo'[w] = todo[w] \ {a} /\ devs'[s] = None
        BY <1>0, <3>1, <3>4
      <3>7. \A t \in VMs \X Targets : t # s => devs'[t] = devs[t]
        BY <1>0, <3>1, <3>4
      <3>8. ASSUME NEW k \in Disks \X VMs, atts[k] # None PROVE HasDevice(k)'
        <4>1. CASE atts[k] = a
          BY <2>1, <3>1, <3>6, <4>1 DEF HasDevice
        <4>2. CASE atts[k] # a
          <5>1. /\ devs[<<k[2], atts[k].tgt>>] # None /\ devs[<<k[2], atts[k].tgt>>].disk = k[1]
                /\ <<k[2], atts[k].tgt>> \in VMs \X Targets
            BY <2>1, <3>8, AloneAgree, KeyFacts
          <5>2. <<k[2], atts[k].tgt>> # s
            BY <3>3, <3>4, <3>5, <4>2, <5>1
          <5> QED BY <2>1, <3>7, <5>1, <5>2 DEF HasDevice
        <4> QED BY <4>1, <4>2
      <3>9. ASSUME NEW t \in VMs \X Targets, devs'[t] # None PROVE HasAttachment(t)'
        BY <1>4, <2>1, <3>6, <3>7, <3>9, AloneAgree DEF HasAttachment
      <3>10. Agree'
        BY <1>6, <2>1, <3>8, <3>9 DEF Agree
      <3>11. Unplugs(w)'
        <4>1. ASSUME NEW b \in todo'[w] PROVE Owns(w, b)'
          <5>1. Owns(w, b)
            BY <1>3, <2>1, <3>6, <4>1 DEF Knows, Unplugs
          <5> QED BY <2>1, <3>1, <5>1 DEF Owns, Disk
        <4>2. Owns(w, cur[w])' /\ cur'[w] \notin todo'[w]
          BY <2>1, <3>1, <3>2, <3>6 DEF Owns, Disk
        <4>3. devs'[Spot(w)'] = None
          BY <3>4, <3>6 DEF Spot
        <4>4. req[w].op = "delete" =>
                 \A k \in Disks \X VMs : k[1] = Disk(w) /\ atts[k] # None =>
                    atts[k] \in todo'[w] \/ atts[k] = cur'[w]
          BY <1>3, <2>1, <3>6 DEF Knows, Unplugs
        <4> QED BY <2>1, <3>1, <4>1, <4>2, <4>3, <4>4 DEF Unplugs, Disk
      <3>12. Knows(w)'
        BY <3>1, <3>11 DEF Knows, PluggedIn, Holding
      <3> QED BY <3>10, <3>12
    <2> QED BY <2>2, <2>3
  <1>8. CASE DetachStore(w)
    <2>1. /\ pc[w] = "detached" /\ devs' = devs
          /\ atts' = [atts EXCEPT ![<<cur[w].disk, cur[w].vm>>] = None]
      BY <1>4, <1>8 DEF DetachStore
    <2>2. /\ cur[w] \in AttRec /\ Owns(w, cur[w]) /\ cur[w] \notin todo[w]
          /\ devs[Spot(w)] = None
      BY <1>3, <2>1 DEF Knows, Unplugs, TypeInv, ShapeOK, Shape
    <2>3. PICK c \in Disks \X VMs : c = <<cur[w].disk, cur[w].vm>>
      BY <2>2 DEF AttRec
    <2>4. /\ atts[c] = cur[w] /\ atts'[c] = None
          /\ \A k \in Disks \X VMs : k # c => atts'[k] = atts[k]
      BY <1>0, <2>1, <2>2, <2>3 DEF Owns
    <2>5. \A k \in Disks \X VMs : atts'[k] # None => k # c /\ atts'[k] = atts[k]
      BY <2>4
    <2>6. ASSUME NEW k \in Disks \X VMs, atts'[k] # None PROVE HasDevice(k)'
      <3>1. k # c /\ atts'[k] = atts[k] /\ atts[k] # None
        BY <2>5, <2>6
      <3>2. atts[k] # cur[w]
        <4>1. atts[k].disk = k[1] /\ atts[k].vm = k[2]
          BY <1>3, <3>1 DEF KeyedAtts
        <4> QED BY <2>3, <3>1, <4>1
      <3> QED BY <2>1, <3>1, <3>2, AloneAgree DEF HasDevice
    <2>7. ASSUME NEW t \in VMs \X Targets, devs[t] # None PROVE HasAttachment(t)'
      <3>1. PICK k \in Disks \X VMs : k = <<devs[t].disk, t[1]>>
        BY <2>7, KeyFacts
      <3>2. atts[k] # None /\ atts[k].tgt = t[2]
        BY <1>4, <2>7, <3>1, AloneAgree
      <3>3. k # c
        <4>1. k = c => Spot(w) = t
          BY <2>3, <2>4, <3>1, <3>2 DEF Spot
        <4> QED BY <2>2, <2>7, <4>1
      <3> QED BY <2>1, <2>4, <3>1, <3>2, <3>3 DEF HasAttachment
    <2>8. Agree'
      BY <1>6, <2>1, <2>5, <2>6, <2>7 DEF Agree
    <2>9. CASE Return(w)
      BY <1>2, <2>8, <2>9, KnowsLittle
    <2>10. CASE ~Return(w)
      <3>1. /\ UNCHANGED <<req, todo>> /\ req[w].op = "delete"
            /\ pc'[w] = IF todo[w] = {} THEN "d_lv" ELSE "detach"
        BY <1>1, <1>4, <1>5, <1>8, <2>1, <2>10 DEF DetachStore, OpAt, Unlocked
      <3>2. ASSUME NEW a \in todo[w] PROVE Owns(w, a)'
        <4>1. Owns(w, a) /\ a \in AttRec /\ a # cur[w]
          BY <1>0, <1>3, <2>1, <2>2 DEF Knows, Unplugs
        <4>2. PICK k \in Disks \X VMs : k = <<a.disk, a.vm>>
          BY <4>1 DEF AttRec
        <4>3. atts[k] = a /\ k # c
          BY <2>4, <4>1, <4>2 DEF Owns
        <4> QED BY <2>4, <3>1, <4>1, <4>2, <4>3 DEF Owns, Disk
      <3>3. \A k \in Disks \X VMs : k[1] = Disk(w) /\ atts'[k] # None => atts'[k] \in todo[w]
        <4> SUFFICES ASSUME NEW k \in Disks \X VMs, k[1] = Disk(w), atts'[k] # None
                     PROVE  atts'[k] \in todo[w]
          OBVIOUS
        <4>1. k # c /\ atts'[k] = atts[k]
          BY <2>5
        <4>2. atts[k] \in todo[w] \/ atts[k] = cur[w]
          BY <1>3, <2>1, <3>1, <4>1 DEF Knows, Unplugs
        <4>3. atts[k].disk = k[1] /\ atts[k].vm = k[2]
          BY <1>3, <4>1 DEF KeyedAtts
        <4> QED BY <2>3, <4>1, <4>2, <4>3
      <3>4. Unplugs(w)'
        BY <3>1, <3>2, <3>3 DEF Unplugs, Disk
      <3>5. Knows(w)'
        BY <3>1, <3>4 DEF Knows, PluggedIn, Holding
      <3> QED BY <2>8, <3>5
    <2> QED BY <2>9, <2>10
  <1> QED BY <1>7, <1>8

\* AttachDisk up to the device.
LEMMA PlugTurn ==
    ASSUME Reliable, TypeInv, TypeInv', TurnInv, NEW w \in Workers, OnlyLocal(w),
           ctx'[w] = "live", \A v \in Workers : v # w => pc[v] = "idle",
           AttachPick(w) \/ AttachLibvirt(w)
    PROVE  Agree' /\ Knows(w)'
  <1> USE DEF At
  <1>0. /\ pc \in [Workers -> PCs] /\ devs \in [VMs \X Targets -> DevRec \cup {None}]
        /\ cur \in [Workers -> AttRec \cup {None}]
    BY DEF TypeInv, TypeOK, DiskTypeOK
  <1>1. ASSUME NEW l, Goto(w, l) PROVE pc'[w] = l
    BY <1>0, <1>1 DEF Goto
  <1>2. Return(w) => pc'[w] = "idle"
    BY <1>1 DEF Return
  <1>3. Agree /\ Knows(w) /\ KeyedAtts
    BY DEF TurnInv, Agree
  <1>4. /\ pc[w] \in {"a_pick", "a_libvirt"} /\ ~Holding(w) /\ ~Late(w)
        /\ disks' = disks /\ atts' = atts /\ disks[Disk(w)] # None
    BY <1>3, CallsSucceed DEF AttachPick, AttachLibvirt, Holding, Knows
  <1>5. \A k \in Disks \X VMs : atts[k] # None => disks'[k[1]] # None
    BY <1>3, <1>4 DEF Agree
  <1>6. CASE devs' = devs /\ Return(w)
    <2>1. Agree'
      BY <1>4, <1>5, <1>6, QuietAgree
    <2> QED BY <1>2, <1>6, <2>1, KnowsLittle
  <1>7. CASE AttachPick(w) /\ ~Return(w)
    <2>1. devs' = devs /\ req' = req /\ pc'[w] = "a_libvirt" /\ cur'[w].disk = req[w].disk
      BY <1>0, <1>1, <1>7 DEF AttachPick
    <2>2. Agree'
      BY <1>4, <1>5, <2>1, QuietAgree
    <2>3. Knows(w)'
      BY <1>4, <2>1 DEF Knows, PluggedIn, Holding, Unplugs, Disk
    <2> QED BY <2>2, <2>3
  <1>8. CASE AttachLibvirt(w) /\ ~(devs' = devs /\ Return(w))
    <2>1. pc[w] = "a_libvirt" /\ cur[w] \in AttRec
      BY <1>8 DEF AttachLibvirt, TypeInv, ShapeOK, Shape
    <2>2. PICK s \in VMs \X Targets : s = Spot(w)
      BY <2>1 DEF AttRec, Spot
    <2>3. PICK dev \in DevRec :
             /\ devs' = [devs EXCEPT ![s] = dev] /\ dev.disk = Disk(w)
             /\ devs[s] = None /\ pc'[w] = "a_persist" /\ UNCHANGED <<req, cur>>
      <3> DEFINE made ==
                   [vg |-> rec[w].vg, disk |-> Disk(w),
                    fmt |-> IF rec[w].mode = "thin" THEN "qcow2" ELSE "raw",
                    cap |-> IF rec[w].mode = "thin" THEN rec[w].virt ELSE lvs[LV(w)].size]
      <3>1. /\ devs[s] = None /\ lvs[LV(w)] # None
            /\ pc'[w] = "a_persist" /\ UNCHANGED <<req, cur>>
            /\ devs' = [devs EXCEPT ![s] = made]
        BY <1>1, <1>4, <1>8, <2>2 DEF AttachLibvirt, local, Spot
      <3>2. LV(w) \in VGs \X Disks /\ rec[w] \in DiskRec /\ Disk(w) \in Disks
        BY <2>1, WorkerType
      <3>3. lvs[LV(w)].size \in Nat /\ rec[w].virt \in Nat /\ rec[w].vg \in VGs
        BY <3>1, <3>2 DEF TypeInv, TypeOK, DiskTypeOK, LVRec, DiskRec
      <3>4. made \in DevRec /\ made.disk = Disk(w)
        BY <3>2, <3>3 DEF DevRec
      <3> HIDE DEF made
      <3> QED BY <3>1, <3>4
    <2>4. /\ devs'[s] = dev /\ Spot(w)' = s /\ Disk(w)' = Disk(w)
          /\ \A t \in VMs \X Targets : t # s => devs'[t] = devs[t]
      BY <1>0, <2>2, <2>3 DEF Spot, Disk
    <2>5. ASSUME NEW k \in Disks \X VMs, atts[k] # None
          PROVE  /\ <<k[2], atts[k].tgt>> \in VMs \X Targets /\ <<k[2], atts[k].tgt>> # s
                 /\ devs[<<k[2], atts[k].tgt>>] # None
                 /\ devs[<<k[2], atts[k].tgt>>].disk = k[1]
      BY <2>1, <2>3, <2>5, AloneAgree, KeyFacts
    <2>6. ASSUME NEW k \in Disks \X VMs, atts[k] # None PROVE HasDevice(k)'
      BY <1>4, <2>4, <2>5, <2>6 DEF HasDevice
    <2>7. ASSUME NEW t \in VMs \X Targets, devs'[t] # None PROVE HasAttachment(t)'
      <3>1. CASE t = s
        BY <2>3, <2>4, <3>1 DEF HasAttachment, Holding
      <3>2. CASE t # s
        BY <1>4, <2>4, <2>7, <3>2, AloneAgree DEF HasAttachment
      <3> QED BY <3>1, <3>2
    <2>8. KeyedAtts'
      BY <1>3, <1>4 DEF KeyedAtts
    <2>9. Agree'
      BY <1>4, <1>5, <2>6, <2>7, <2>8 DEF Agree
    <2>10. devs'[s] # None
      BY <2>3, <2>4, NoneAssumption
    <2>11. PluggedIn(w)'
      <3>1. cur'[w].disk = Disk(w)'
        BY <1>3, <2>1, <2>3, <2>4 DEF Knows, PluggedIn
      <3>2. \A k \in Disks \X VMs : atts'[k] # None => <<k[2], atts'[k].tgt>> # s
        BY <1>4, <2>5
      <3> QED BY <2>3, <2>4, <2>10, <3>1, <3>2 DEF PluggedIn
    <2>12. Knows(w)'
      BY <1>4, <2>3, <2>4, <2>11 DEF Knows, Unplugs
    <2> QED BY <2>9, <2>12
  <1> QED BY <1>4, <1>6, <1>7, <1>8 DEF AttachPick

\* AttachDisk from the device on: the record, or the rollback.
LEMMA RecordTurn ==
    ASSUME Reliable, TypeInv, TypeInv', TurnInv, KeyedAtts', NEW w \in Workers, OnlyLocal(w),
           ctx'[w] = "live", \A v \in Workers : v # w => pc[v] = "idle",
           AttachPersist(w) \/ AttachUndo(w)
    PROVE  Agree' /\ Knows(w)'
  <1> USE DEF At
  <1>0. /\ pc \in [Workers -> PCs] /\ devs \in [VMs \X Targets -> DevRec \cup {None}]
        /\ atts \in [Disks \X VMs -> AttRec \cup {None}]
    BY DEF TypeInv, TypeOK, DiskTypeOK
  <1>1. ASSUME NEW l, Goto(w, l) PROVE pc'[w] = l
    BY <1>0, <1>1 DEF Goto
  <1>2. Return(w) => pc'[w] = "idle"
    BY <1>1 DEF Return
  <1>3. Agree /\ Knows(w) /\ KeyedAtts
    BY DEF TurnInv, Agree
  <1>4. /\ pc[w] \in {"a_persist", "a_undo"} /\ Holding(w) /\ ~StoreErr(w) /\ ~CallErr(w)
        /\ ~Late(w) /\ disks' = disks /\ disks[Disk(w)] # None /\ cur[w] \in AttRec
    BY <1>3, CallsSucceed
    DEF AttachPersist, AttachUndo, Holding, Knows, TypeInv, ShapeOK, Shape
  <1>5. /\ cur[w].disk = Disk(w) /\ devs[Spot(w)] # None /\ devs[Spot(w)].disk = Disk(w)
        /\ \A k \in Disks \X VMs : atts[k] # None => <<k[2], atts[k].tgt>> # Spot(w)
    BY <1>3, <1>4 DEF Knows, PluggedIn
  <1>6. PICK s \in VMs \X Targets : s = Spot(w)
    BY <1>4 DEF AttRec, Spot
  <1>7. PICK c \in Disks \X VMs : c = <<cur[w].disk, cur[w].vm>>
    BY <1>4 DEF AttRec
  <1>8. ASSUME NEW k \in Disks \X VMs, atts[k] # None
        PROVE  /\ <<k[2], atts[k].tgt>> \in VMs \X Targets /\ <<k[2], atts[k].tgt>> # s
               /\ devs[<<k[2], atts[k].tgt>>] # None
               /\ devs[<<k[2], atts[k].tgt>>].disk = k[1]
    BY <1>4, <1>5, <1>6, <1>8, AloneAgree, KeyFacts
  <1>9. ASSUME NEW t \in VMs \X Targets, devs[t] # None, t # s
        PROVE  /\ <<devs[t].disk, t[1]>> \in Disks \X VMs
               /\ atts[<<devs[t].disk, t[1]>>] # None
               /\ atts[<<devs[t].disk, t[1]>>].tgt = t[2]
    BY <1>6, <1>9, AloneAgree, KeyFacts
  <1>10. CASE AttachPersist(w) /\ Return(w)
    <2>1. pc[w] = "a_persist" /\ devs' = devs /\ atts[c] = None /\ atts' = [atts EXCEPT ![c] = cur[w]]
      BY <1>1, <1>2, <1>4, <1>7, <1>10 DEF AttachPersist
    <2>2. atts'[c] = cur[w] /\ \A k \in Disks \X VMs : k # c => atts'[k] = atts[k]
      BY <1>0, <2>1
    <2>3. /\ c[1] = Disk(w) /\ <<c[2], cur[w].tgt>> = s /\ devs[s] # None
          /\ devs[s].disk = c[1] /\ <<devs[s].disk, s[1]>> = c /\ cur[w].tgt = s[2]
      BY <1>5, <1>6, <1>7 DEF Spot
    <2>4. cur[w] # None
      BY <1>4, NoneAssumption
    <2>5. ASSUME NEW k \in Disks \X VMs, atts'[k] # None
          PROVE  HasDevice(k)' /\ disks'[k[1]] # None
      <3>1. CASE k = c
        BY <1>4, <2>1, <2>2, <2>3, <3>1 DEF HasDevice
      <3>2. CASE k # c
        <4>1. atts'[k] = atts[k] /\ atts[k] # None
          BY <2>2, <2>5, <3>2
        <4>2. disks[k[1]] # None
          BY <1>3, <4>1 DEF Agree
        <4>3. HasDevice(k)'
          BY <1>8, <2>1, <4>1 DEF HasDevice
        <4> QED BY <1>4, <4>2, <4>3
      <3> QED BY <3>1, <3>2
    <2>6. ASSUME NEW t \in VMs \X Targets, devs'[t] # None PROVE HasAttachment(t)'
      <3>1. CASE t = s
        BY <2>1, <2>2, <2>3, <2>4, <3>1 DEF HasAttachment
      <3>2. CASE t # s
        <4>1. PICK k \in Disks \X VMs : k = <<devs[t].disk, t[1]>>
          BY <1>9, <2>1, <2>6, <3>2
        <4>2. atts[k] # None /\ atts[k].tgt = t[2]
          BY <1>9, <2>1, <2>6, <3>2, <4>1
        <4>3. atts'[k] = atts[k]
          BY <2>1, <2>2, <4>2
        <4> QED BY <2>1, <4>1, <4>2, <4>3 DEF HasAttachment
      <3> QED BY <3>1, <3>2
    <2>7. Agree'
      BY <2>5, <2>6 DEF Agree
    <2> QED BY <1>2, <1>10, <2>7, KnowsLittle
  <1>11. CASE AttachPersist(w) /\ ~Return(w)
    <2>1. pc'[w] = "a_undo" /\ UNCHANGED <<atts, devs, req, cur>>
      BY <1>1, <1>4, <1>11 DEF AttachPersist, local
    <2>2. Spot(w)' = s /\ Disk(w)' = Disk(w) /\ Holding(w)'
      BY <1>6, <2>1 DEF Spot, Disk, Holding
    <2>3. ASSUME NEW k \in Disks \X VMs, atts[k] # None
          PROVE  HasDevice(k)' /\ disks'[k[1]] # None
      <3>1. disks[k[1]] # None
        BY <1>3, <2>3 DEF Agree
      <3> QED BY <1>4, <1>8, <2>1, <2>3, <3>1 DEF HasDevice
    <2>4. ASSUME NEW t \in VMs \X Targets, devs[t] # None PROVE HasAttachment(t)'
      BY <1>9, <2>1, <2>2, <2>4 DEF HasAttachment
    <2>5. Agree'
      BY <2>1, <2>3, <2>4 DEF Agree
    <2>6. PluggedIn(w)'
      BY <1>5, <1>6, <2>1, <2>2 DEF PluggedIn
    <2>7. Knows(w)'
      BY <1>4, <2>1, <2>2, <2>6 DEF Knows, Unplugs
    <2> QED BY <2>5, <2>7
  <1>12. CASE AttachUndo(w)
    <2>1. Return(w) /\ atts' = atts /\ devs' = [devs EXCEPT ![s] = None]
      BY <1>4, <1>6, <1>12 DEF AttachUndo, Spot
    <2>2. devs'[s] = None /\ \A t \in VMs \X Targets : t # s => devs'[t] = devs[t]
      BY <1>0, <2>1
    <2>3. ASSUME NEW k \in Disks \X VMs, atts[k] # None
          PROVE  HasDevice(k)' /\ disks'[k[1]] # None
      <3>1. disks[k[1]] # None
        BY <1>3, <2>3 DEF Agree
      <3>2. devs'[<<k[2], atts[k].tgt>>] = devs[<<k[2], atts[k].tgt>>]
        BY <1>8, <2>2, <2>3
      <3> QED BY <1>4, <1>8, <2>1, <2>3, <3>1, <3>2 DEF HasDevice
    <2>4. ASSUME NEW t \in VMs \X Targets, devs'[t] # None PROVE HasAttachment(t)'
      BY <1>9, <2>1, <2>2, <2>4 DEF HasAttachment
    <2>5. Agree'
      BY <2>1, <2>3, <2>4 DEF Agree
    <2> QED BY <1>2, <2>1, <2>5, KnowsLittle
  <1> QED BY <1>10, <1>11, <1>12

\* A handler takes a step only in a call.
LEMMA HandlerIsBusy ==
    ASSUME NEW w \in Workers, Handler(w) PROVE pc[w] # "idle"
  <1> USE DEF At
  <1>1. CASE \/ ReadDisk(w) \/ Acquire(w) \/ AcquireFails(w) \/ AcquireWaited(w)
             \/ AcquireGivesUp(w) \/ Release(w)
    BY <1>1 DEF ReadDisk, Acquire, AcquireFails, AcquireWaited, AcquireGivesUp, Release
  <1>2. CASE CreateGet(w) \/ CreateLV(w) \/ CreateHeader(w) \/ CreatePersist(w) \/ CreateUndo(w)
    BY <1>2 DEF CreateGet, CreateLV, CreateHeader, CreatePersist, CreateUndo
  <1>3. CASE DeleteList(w) \/ DetachGet(w) \/ DetachLibvirt(w) \/ DetachStore(w)
             \/ DeleteLV(w) \/ DeleteRecord(w)
    BY <1>3 DEF DeleteList, DetachGet, DetachLibvirt, DetachStore, DeleteLV, DeleteRecord
  <1>4. CASE ExtendLV(w) \/ ExtendPersist(w) \/ ExtendList(w) \/ ExtendResize(w)
    BY <1>4 DEF ExtendLV, ExtendPersist, ExtendList, ExtendResize
  <1>5. CASE AttachPick(w) \/ AttachLibvirt(w) \/ AttachPersist(w) \/ AttachUndo(w)
    BY <1>5 DEF AttachPick, AttachLibvirt, AttachPersist, AttachUndo
  <1> QED BY <1>1, <1>2, <1>3, <1>4, <1>5 DEF Handler

\* The handlers whose turn it is not have nothing to know.
LEMMA TurnStep ==
    ASSUME Reliable, TypeInv, TurnInv, OneAtATime, OneAtATime', [Next]_vars
    PROVE  TurnInv'
  <1>0. TypeInv' /\ KeyedAtts'
    BY TypeInvStep, KeyedStep DEF TurnInv, Agree
  <1>1. CASE UNCHANGED diskVars
    <2>1. UNCHANGED <<disks, atts, devs, pc, req, cur, todo, ctx>>
      BY <1>1 DEF diskVars
    <2>2. Agree'
      BY <2>1 DEF TurnInv, Agree, KeyedAtts, HasDevice, HasAttachment, Holding, Spot
    <2>3. ASSUME NEW w \in Workers PROVE Knows(w)'
      <3>1. Knows(w)
        BY DEF TurnInv
      <3> QED BY <2>1, <3>1 DEF Knows, PluggedIn, Unplugs, Owns, Holding, Spot, Disk
    <2> QED BY <2>2, <2>3 DEF TurnInv
  <1>2. ASSUME NEW w \in Workers,
               CallCreate(w) \/ CallNamed(w) \/ CancelCtx(w) \/ Handler(w)
        PROVE  TurnInv'
    <2>0. pc \in [Workers -> PCs]
      BY DEF TypeInv, TypeOK, DiskTypeOK
    <2>1. OnlyLocal(w) /\ ~CancelCtx(w)
      BY <1>2, StepIsLocal DEF Reliable, CancelCtx
    <2>2. \A v \in Workers : ctx'[v] = "live"
      BY <1>2, <2>1, ContextKept DEF TurnInv, Knows
    <2>3. pc[w] # "idle" \/ pc'[w] # "idle"
      <3>1. CASE CallCreate(w) \/ CallNamed(w)
        BY <2>0, <3>1 DEF CallCreate, CallNamed, Goto
      <3>2. CASE Handler(w)
        BY <3>2, HandlerIsBusy
      <3> QED BY <1>2, <2>1, <3>1, <3>2
    <2>4. \A v \in Workers : v # w => pc[v] = "idle" /\ pc'[v] = "idle"
      BY <2>1, <2>3 DEF OneAtATime, OnlyLocal
    <2>5. Agree' /\ Knows(w)'
      BY <1>0, <1>2, <2>1, <2>2, <2>4, OtherTurn, ResizeTurn, DeleteTurn, DetachTurn, PlugTurn,
         RecordTurn DEF Handler
    <2>6. ASSUME NEW v \in Workers, v # w PROVE Knows(v)'
      BY <2>2, <2>4, <2>6, KnowsLittle
    <2> QED BY <2>5, <2>6 DEF TurnInv
  <1> QED BY <1>1, <1>2 DEF Next, vars

LEMMA TurnInit ==
    ASSUME Init PROVE TurnInv
  <1>1. ASSUME NEW w \in Workers PROVE Knows(w)
    BY <1>1 DEF Init, DiskInit, Knows, PluggedIn, Holding, Unplugs
  <1>2. Agree
    BY DEF Init, DiskInit, Agree, KeyedAtts
  <1> QED BY <1>1, <1>2 DEF TurnInv

\* When calls take turns and no tool fails them, the catalog's attachments
\* are exactly the disks of the domains whenever no call is under way: for
\* any sequence of creates, extends, attaches, detaches and forced deletes
\* through any of the daemons, refused ones and rolled back ones included.
THEOREM AttachmentsTakeTurns ==
    ASSUME Reliable PROVE Spec /\ []OneAtATime => []AttachmentsAgree
  <1>1. Init => TurnInv
    BY TurnInit
  <1>2. TypeInv /\ TurnInv /\ OneAtATime /\ OneAtATime' /\ [Next]_vars => TurnInv'
    BY TurnStep
  <1>3. TypeInv /\ [Next]_vars => TypeInv'
    BY TypeInvStep
  <1>4. TypeInv /\ TurnInv => AttachmentsAgree
    <2> SUFFICES ASSUME TypeInv, TurnInv, \A w \in Workers : pc[w] = "idle"
                 PROVE  {<<k[1], k[2], atts[k].tgt>> : k \in {k \in Disks \X VMs : atts[k] # None}}
                          = {<<devs[t].disk, t[1], t[2]>> :
                               t \in {t \in VMs \X Targets : devs[t] # None}}
      BY DEF AttachmentsAgree
    <2>1. \A w \in Workers : pc[w] # "detached" /\ ~Holding(w)
      BY DEF Holding
    <2>2. ASSUME NEW k \in Disks \X VMs, atts[k] # None
          PROVE  \E t \in VMs \X Targets :
                    /\ devs[t] # None
                    /\ <<k[1], k[2], atts[k].tgt>> = <<devs[t].disk, t[1], t[2]>>
      <3>1. PICK t \in VMs \X Targets : t = <<k[2], atts[k].tgt>>
        BY <2>2, KeyFacts
      <3>2. devs[t] # None /\ devs[t].disk = k[1]
        BY <2>1, <2>2, <3>1 DEF TurnInv, Agree, HasDevice
      <3> QED BY <3>1, <3>2
    <2>3. ASSUME NEW t \in VMs \X Targets, devs[t] # None
          PROVE  \E k \in Disks \X VMs :
                    /\ atts[k] # None
                    /\ <<devs[t].disk, t[1], t[2]>> = <<k[1], k[2], atts[k].tgt>>
      <3>1. PICK k \in Disks \X VMs : k = <<devs[t].disk, t[1]>>
        BY <2>3, KeyFacts
      <3>2. atts[k] # None /\ atts[k].tgt = t[2]
        BY <2>1, <2>3, <3>1 DEF TurnInv, Agree, HasAttachment
      <3> QED BY <3>1, <3>2
    <2> QED BY <2>2, <2>3
  <1> QED BY <1>1, <1>2, <1>3, <1>4, TypeInvInit, PTL DEF Spec

\* When calls take turns and no tool fails them, a DeleteDisk leaves no
\* attachment of the disk behind: it has found them all, and nobody attaches
\* the disk while it works.
THEOREM DeletesTakeAttachments ==
    ASSUME Reliable PROVE Spec /\ []OneAtATime => []NoDanglingAttachment
  <1>1. Init => TurnInv
    BY TurnInit
  <1>2. TypeInv /\ TurnInv /\ OneAtATime /\ OneAtATime' /\ [Next]_vars => TurnInv'
    BY TurnStep
  <1>3. TypeInv /\ [Next]_vars => TypeInv'
    BY TypeInvStep
  <1>4. TurnInv => NoDanglingAttachment
    BY DEF TurnInv, Agree, NoDanglingAttachment
  <1> QED BY <1>1, <1>2, <1>3, <1>4, TypeInvInit, PTL DEF Spec

\* The device that a step of a turn takes away is of the handler's disk.
LEMMA TurnDetaches ==
    ASSUME Reliable, TypeInv, TurnInv, OneAtATime, [Next]_vars, NEW t \in VMs \X Targets,
           devs[t] # None, devs'[t] = None
    PROVE  \E w \in Workers : /\ pc[w] \in {"detach", "a_undo"}
                              /\ pc'[w] # pc[w]
                              /\ Disk(w) = devs[t].disk
  <1> USE DEF At
  <1>0. /\ pc \in [Workers -> PCs] /\ devs \in [VMs \X Targets -> DevRec \cup {None}]
        /\ todo \in [Workers -> SUBSET AttRec]
    BY DEF TypeInv, TypeOK, DiskTypeOK
  <1>1. PICK w \in Workers : CallCreate(w) \/ CallNamed(w) \/ CancelCtx(w) \/ Handler(w)
    BY DEF Next, vars, diskVars
  <1>2. devs' # devs
    OBVIOUS
  <1>3. AttachLibvirt(w) \/ ExtendResize(w) \/ DetachLibvirt(w) \/ AttachUndo(w)
    BY <1>1, <1>2 DEF CallCreate, CallNamed, CancelCtx, Handler, ReadDisk, Acquire, AcquireFails,
         AcquireWaited, AcquireGivesUp, Release, CreateGet, CreateLV, CreateHeader, CreatePersist,
         CreateUndo, DeleteList, DetachGet, DetachStore, DeleteLV, DeleteRecord, ExtendLV,
         ExtendPersist, ExtendList, AttachPick, AttachPersist
  <1>4. Knows(w) /\ ~CallErr(w) /\ ~Late(w)
    BY CallsSucceed DEF TurnInv
  <1>5. \A v \in Workers : v # w => pc[v] = "idle"
    BY <1>3 DEF OneAtATime, AttachLibvirt, ExtendResize, DetachLibvirt, AttachUndo
  <1>6. CASE DetachLibvirt(w)
    <2>1. PICK a \in todo[w] :
             /\ devs' = [devs EXCEPT ![<<a.vm, a.tgt>>] = None]
             /\ pc[w] = "detach" /\ pc'[w] = "detached"
      BY <1>0, <1>2, <1>4, <1>6 DEF DetachLibvirt, Goto
    <2>2. a \in AttRec /\ Owns(w, a) /\ a # None
      BY <1>0, <1>4, <2>1, NoneAssumption DEF Knows, Unplugs
    <2>3. t = <<a.vm, a.tgt>>
      BY <1>0, <2>1
    <2>4. PICK k \in Disks \X VMs : k = <<a.disk, a.vm>>
      BY <2>2 DEF AttRec
    <2>5. devs[t].disk = k[1]
      BY <1>5, <2>1, <2>2, <2>3, <2>4, AloneAgree DEF Owns
    <2> QED BY <2>1, <2>2, <2>4, <2>5 DEF Owns
  <1>7. CASE AttachUndo(w)
    <2>1. pc[w] = "a_undo" /\ pc'[w] = "idle" /\ devs' = [devs EXCEPT ![Spot(w)] = None]
      BY <1>0, <1>4, <1>7 DEF AttachUndo, Return, Goto, Spot
    <2>2. t = Spot(w)
      BY <1>0, <2>1
    <2>3. devs[t].disk = Disk(w)
      BY <1>4, <2>1, <2>2 DEF Knows, PluggedIn, Holding
    <2> QED BY <2>1, <2>3
  <1>8. ~AttachLibvirt(w)
    <2> SUFFICES ASSUME AttachLibvirt(w) PROVE FALSE
      OBVIOUS
    <2>1. devs[Spot(w)] = None /\ \E dev : devs' = [devs EXCEPT ![Spot(w)] = dev]
      BY <1>2, <1>4 DEF AttachLibvirt, Spot
    <2> QED BY <1>0, <2>1
  <1>9. ~ExtendResize(w)
    <2> SUFFICES ASSUME ExtendResize(w) PROVE FALSE
      OBVIOUS
    <2>1. pc[w] = "e_resize" /\ \E s : devs' = [devs EXCEPT ![s].cap = rec[w].size]
      BY <1>2 DEF ExtendResize
    <2>2. devs'[t] = [devs[t] EXCEPT !.cap = rec[w].size]
      BY <1>0, <2>1
    <2>3. devs[t] \in DevRec /\ rec[w].size \in Nat
      BY <1>0, <2>1, WorkerType DEF DiskRec
    <2>4. devs'[t] \in DevRec
      BY <2>2, <2>3 DEF DevRec
    <2> QED BY <2>4, NoneAssumption
  <1> QED BY <1>3, <1>6, <1>7, <1>8, <1>9

\* When calls take turns and no tool fails them, the device taken from a
\* domain, by a DetachDisk, a forced DeleteDisk or the rollback of an
\* AttachDisk, shows the disk the call is about: the target in the catalog
\* has not come to mean another disk since.
THEOREM TurnsDetachOwnDisk ==
    ASSUME Reliable PROVE Spec /\ []OneAtATime => DetachesOwnDisk
  <1>1. Init => TurnInv
    BY TurnInit
  <1>2. TypeInv /\ TurnInv /\ OneAtATime /\ OneAtATime' /\ [Next]_vars => TurnInv'
    BY TurnStep
  <1>3. TypeInv /\ [Next]_vars => TypeInv'
    BY TypeInvStep
  <1>4. TypeInv /\ TurnInv /\ OneAtATime /\ [Next]_vars =>
          [\A t \in VMs \X Targets :
              devs[t] # None /\ devs'[t] = None =>
                 \E w \in Workers : /\ pc[w] \in {"detach", "a_undo"}
                                    /\ pc'[w] # pc[w]
                                    /\ Disk(w) = devs[t].disk]_vars
    BY TurnDetaches
  <1> QED BY <1>1, <1>2, <1>3, <1>4, TypeInvInit, PTL DEF Spec, DetachesOwnDisk

-----------------------------------------------------------------------------
(* Sizes, one call at a time.                                               *)

\* The quotient is the only one that leaves a remainder.
LEMMA DivUnique ==
    ASSUME NEW b \in Nat \ {0}, NEW x \in Nat, NEW r \in Nat, r < b
    PROVE  (b * x + r) \div b = x
  <1>1. PICK a \in Nat : a = b * x + r
    OBVIOUS
  <1>2. PICK y \in Nat, q \in Nat : y = a \div b /\ q < b /\ a = b * y + q
    BY DivFacts
  <1>3. ASSUME NEW i \in Nat, NEW j \in Nat, i < j PROVE b * i + b =< b * j
    <2>1. PICK k \in Nat : j = i + 1 + k
      <3>1. j - i - 1 \in Nat /\ j = i + 1 + (j - i - 1)
        BY <1>3
      <3> QED BY <3>1
    <2>2. b * j = b * i + b + b * k /\ b * k \in Nat /\ b * i \in Nat
      BY <2>1
    <2> QED BY <2>2
  <1>4. PICK m \in Nat, n \in Nat : m = b * x /\ n = b * y
    OBVIOUS
  <1>5. ~(x < y)
    BY <1>1, <1>2, <1>3, <1>4
  <1>6. ~(y < x)
    BY <1>1, <1>2, <1>3, <1>4
  <1> QED BY <1>1, <1>2, <1>5, <1>6

\* Whole extents are added as they are.
LEMMA RoundUpAdds ==
    ASSUME NEW s \in Nat, NEW m \in Nat, m % Extent = 0
    PROVE  RoundUp(s + m) = RoundUp(s) + m /\ RoundUp(m) = m
  <1>1. Extent \in Nat \ {0}
    BY DiskAssumption
  <1>2. PICK k \in Nat : m = Extent * k
    <2>1. m \div Extent \in Nat /\ m = Extent * (m \div Extent) + (m % Extent)
      BY <1>1, DivFacts
    <2>2. Extent * (m \div Extent) \in Nat
      BY <1>1, <2>1
    <2>3. m = Extent * (m \div Extent)
      BY <2>1, <2>2
    <2> QED BY <2>1, <2>3
  <1>3. PICK a \in Nat, q \in Nat, r \in Nat :
            a = s + Extent - 1 /\ q = a \div Extent /\ r < Extent /\ a = Extent * q + r
    <2>1. PICK a \in Nat : a = s + Extent - 1
      BY <1>1
    <2>2. a \div Extent \in Nat /\ a % Extent \in Nat /\ a % Extent < Extent
          /\ a = Extent * (a \div Extent) + (a % Extent)
      BY <1>1, <2>1, DivFacts
    <2> QED BY <2>1, <2>2
  <1>4. s + m + Extent - 1 = Extent * (q + k) + r
    <2>1. Extent * (q + k) = Extent * q + Extent * k
      BY <1>1
    <2>2. PICK x \in Nat : x = Extent * q
      BY <1>1
    <2> QED BY <1>1, <1>2, <1>3, <2>1, <2>2
  <1>5. (s + m + Extent - 1) \div Extent = q + k
    BY <1>1, <1>3, <1>4, DivUnique
  <1>6. RoundUp(s) = q * Extent
    BY <1>3 DEF RoundUp
  <1>7. RoundUp(s + m) = (q + k) * Extent
    BY <1>5 DEF RoundUp
  <1>8. (q + k) * Extent = q * Extent + m
    BY <1>1, <1>2
  <1>9. RoundUp(m) = m
    <2>1. m + Extent - 1 = Extent * k + (Extent - 1)
      BY <1>1, <1>2
    <2>2. Extent - 1 \in Nat /\ Extent - 1 < Extent
      BY <1>1
    <2>3. (m + Extent - 1) \div Extent = k
      BY <1>1, <2>1, <2>2, DivUnique
    <2> QED BY <1>1, <1>2, <2>3 DEF RoundUp
  <1> QED BY <1>6, <1>7, <1>8, <1>9

\* r's size is that of the volume v, up to its last extent.
Exact(r, v) == v # None /\ RoundUp(r.size) = v.size

\* Clients extend by whole extents (or to any size); percentages are the thin
\* manager's.
WholeExtents == \A in \in ExtendInputs : in.pct = 0 /\ in.delta % Extent = 0

\* No volume has 2^64 bytes.
SizesFitWord == \A v \in VGs \X Disks : lvs[v] # None => lvs[v].size < Word

\* What the handler at work knows of sizes: ExtendDisk's copy is the record
\* until it has grown the volume, and then says what the volume is; CreateDisk
\* is about to write the first record of a volume it has just made.
Sized(w) ==
    /\ pc[w] # "idle" /\ req[w].op = "extend" => req[w].in \in ExtendInputs
    /\ pc[w] \in {"lock", "wait", "e_lv"} /\ req[w].op = "extend" => rec[w] = disks[Disk(w)]
    /\ pc[w] = "e_persist" => Recorded(rec[w].vg, Disk(w)) /\ Exact(rec[w], lvs[LV(w)])
    /\ pc[w] \in {"c_lv", "c_header", "c_persist"} => disks[Disk(w)] = None
    /\ pc[w] \in {"c_header", "c_persist"} => Exact(rec[w], lvs[LV(w)])

\* Every record says what its volume is, but the one ExtendDisk is about to
\* write.
SizedDisk(d) ==
    \/ \E w \in Workers : pc[w] = "e_persist" /\ Disk(w) = d
    \/ disks[d] # None /\ lvs[VolumeOf(d)] # None => Exact(disks[d], lvs[VolumeOf(d)])

SizeInv ==
    /\ \A w \in Workers : Sized(w)
    /\ \A d \in Disks : SizedDisk(d)

\* What lvextend makes of a volume is what the handler computes from its copy,
\* up to the last extent.
LEMMA ExtendExact ==
    ASSUME WholeExtents, NEW r \in DiskRec, NEW lv \in LVRec, NEW in \in ExtendInputs,
           RoundUp(r.size) = lv.size, Extended(lv, in) < Word
    PROVE  RoundUp(NewSize(r, in)) = Extended(lv, in)
  <1>1. /\ r.size \in Nat /\ lv.size \in Nat /\ in.size \in Nat /\ in.delta \in Nat
        /\ in.pct = 0 /\ in.delta % Extent = 0 /\ Word \in Nat \ {0}
    BY DiskAssumption DEF DiskRec, LVRec, ExtendIn, WholeExtents
  <1>2. CASE in.size > 0
    BY <1>1, <1>2 DEF NewSize, Extended
  <1>3. CASE ~(in.size > 0)
    <2>1. NewSize(r, in) = (r.size + in.delta) % Word
      BY <1>1, <1>3 DEF NewSize
    <2>2. Extended(lv, in) = lv.size + RoundUp(in.delta)
      BY <1>1, <1>3 DEF Extended
    <2>3. /\ RoundUp(r.size + in.delta) = lv.size + in.delta
          /\ Extended(lv, in) = lv.size + in.delta
      BY <1>1, <2>2, RoundUpAdds
    <2>4. r.size =< lv.size
      BY <1>1, RoundUpGrows
    <2>5. PICK n \in Nat : n = r.size + in.delta /\ n < Word
      BY <1>1, <2>3, <2>4
    <2>6. n % Word = n
      BY <1>1, <2>5
    <2> QED BY <2>1, <2>3, <2>5, <2>6
  <1> QED BY <1>2, <1>3

\* A step that changes no record and no volume, of a handler that is not
\* about to write a record.
LEMMA QuietSizes ==
    ASSUME SizeInv, NEW w \in Workers, OnlyLocal(w), UNCHANGED <<disks, lvs>>,
           \A v \in Workers : v # w => pc[v] = "idle", pc[w] # "e_persist", Sized(w)'
    PROVE  SizeInv'
  <1>1. ASSUME NEW v \in Workers PROVE Sized(v)'
    <2>1. CASE v # w
      BY <2>1 DEF OnlyLocal, Sized
    <2> QED BY <2>1
  <1>2. ASSUME NEW d \in Disks PROVE SizedDisk(d)'
    <2>1. disks[d] # None /\ lvs[VolumeOf(d)] # None => Exact(disks[d], lvs[VolumeOf(d)])
      BY DEF SizeInv, SizedDisk
    <2> QED BY <2>1 DEF SizedDisk, VolumeOf, Exact
  <1> QED BY <1>1, <1>2 DEF SizeInv

\* A step keeps a disk's size right if it keeps its record and the size of its
\* volume, and is not the writing of a late record.
LEMMA SizedKept ==
    ASSUME SizeInv, NEW w \in Workers, \A v \in Workers : v # w => pc[v] = "idle",
           NEW d \in Disks, disks'[d] = disks[d], pc[w] # "e_persist" \/ d # Disk(w),
           disks[d] # None /\ lvs'[VolumeOf(d)] # None =>
              lvs[VolumeOf(d)] # None /\ lvs'[VolumeOf(d)].size = lvs[VolumeOf(d)].size
    PROVE  SizedDisk(d)'
  <1>1. VolumeOf(d)' = VolumeOf(d)
    BY DEF VolumeOf
  <1> SUFFICES ASSUME disks[d] # None, lvs'[VolumeOf(d)] # None
               PROVE  Exact(disks[d], lvs'[VolumeOf(d)])
    BY <1>1 DEF SizedDisk, Exact
  <1>2. Exact(disks[d], lvs[VolumeOf(d)])
    BY DEF SizeInv, SizedDisk
  <1> QED BY <1>2 DEF Exact

\* Who is neither growing nor making a volume has little to know of sizes.
LEMMA SizedLittle ==
    ASSUME SizeInv, NEW w \in Workers,
           pc'[w] \notin {"lock", "wait", "e_lv", "e_persist", "c_lv", "c_header", "c_persist"},
           pc'[w] = "idle" \/ (pc[w] # "idle" /\ req'[w] = req[w])
    PROVE  Sized(w)'
  BY DEF SizeInv, Sized

\* The steps that change neither records nor volumes.
LEMMA QuietTurnSizes ==
    ASSUME TypeInv, SizeInv, NEW w \in Workers, OnlyLocal(w),
           \A v \in Workers : v # w => pc[v] = "idle",
           \/ CallCreate(w) \/ CallNamed(w) \/ ReadDisk(w)
           \/ Acquire(w) \/ AcquireFails(w) \/ AcquireWaited(w) \/ AcquireGivesUp(w)
           \/ Release(w) \/ CreateGet(w)
           \/ DeleteList(w) \/ DetachGet(w) \/ DetachLibvirt(w) \/ DetachStore(w)
           \/ ExtendList(w) \/ ExtendResize(w)
           \/ AttachPick(w) \/ AttachLibvirt(w) \/ AttachPersist(w) \/ AttachUndo(w)
    PROVE  SizeInv'
  <1> USE DEF At
  <1>0. /\ pc \in [Workers -> PCs] /\ req \in [Workers -> Requests \cup {None}]
        /\ rec \in [Workers -> DiskRec \cup {None}] /\ Sized(w)
    BY DEF TypeInv, TypeOK, DiskTypeOK, SizeInv
  <1>1. UNCHANGED <<disks, lvs>> /\ pc[w] # "e_persist"
    BY DEF CallCreate, CallNamed, ReadDisk, Acquire, AcquireFails, AcquireWaited, AcquireGivesUp,
           Release, CreateGet, DeleteList, DetachGet, DetachLibvirt, DetachStore, ExtendList,
           ExtendResize, AttachPick, AttachLibvirt, AttachPersist, AttachUndo
  <1>2. SUFFICES Sized(w)'
    BY <1>1, QuietSizes
  <1>3. \A l : Goto(w, l) => pc'[w] = l
    BY <1>0 DEF Goto
  <1>4. Return(w) => Sized(w)'
    BY ReturnType, SizedLittle
  <1>5. CASE CallCreate(w)
    <2>1. pc'[w] = "lock" /\ req'[w].op = "create"
      BY <1>0, <1>3, <1>5 DEF CallCreate
    <2> QED BY <2>1 DEF Sized
  <1>6. CASE CallNamed(w)
    <2>1. pc'[w] = "get" /\ req'[w] \in NamedRequests
      BY <1>0, <1>3, <1>6 DEF CallNamed
    <2>2. req'[w].op = "extend" => req'[w].in \in ExtendInputs
      BY <2>1 DEF NamedRequests
    <2> QED BY <2>1, <2>2 DEF Sized
  <1>7. CASE ReadDisk(w)
    <2>1. \/ Return(w)
          \/ /\ pc[w] = "get" /\ req' = req /\ rec'[w] = disks[Disk(w)]
             /\ pc'[w] \in {"a_pick", "x_att", "lock"}
      BY <1>0, <1>3, <1>7 DEF ReadDisk
    <2> QED BY <1>0, <1>1, <1>4, <2>1 DEF Sized, Disk
  <1>8. CASE Acquire(w) \/ AcquireFails(w) \/ AcquireWaited(w) \/ AcquireGivesUp(w) \/ Release(w)
    <2>1. \/ Return(w)
          \/ /\ pc[w] \in {"lock", "wait"} /\ UNCHANGED <<req, rec>>
             /\ pc'[w] \in {"wait", "c_get", "d_list", "e_lv"}
             /\ pc'[w] = "e_lv" => req[w].op \notin {"create", "delete"}
      BY <1>3, <1>8 DEF Acquire, AcquireFails, AcquireWaited, AcquireGivesUp, Release, Entry, local
    <2> QED BY <1>0, <1>1, <1>4, <2>1 DEF Sized, Disk
  <1>9. CASE CreateGet(w)
    <2>1. /\ pc[w] = "c_get" /\ UNCHANGED <<req, rec>>
          /\ pc'[w] = "unlock" \/ (pc'[w] = "c_lv" /\ disks[Disk(w)] = None)
      BY <1>3, <1>9 DEF CreateGet, local
    <2> QED BY <1>0, <1>1, <2>1 DEF Sized, Disk
  <1>10. CASE DeleteList(w) \/ DetachGet(w) \/ DetachLibvirt(w) \/ DetachStore(w)
    <2>1. \/ Return(w)
          \/ /\ pc[w] # "idle" /\ UNCHANGED req
             /\ pc'[w] \in {"d_lv", "detach", "unlock", "detached"}
      BY <1>3, <1>10 DEF DeleteList, DetachGet, DetachLibvirt, DetachStore, Abort, local
    <2> QED BY <1>4, <2>1, SizedLittle
  <1>11. CASE ExtendList(w) \/ ExtendResize(w)
    <2>1. pc[w] # "idle" /\ UNCHANGED req /\ pc'[w] \in {"e_resize", "unlock"}
      BY <1>3, <1>11 DEF ExtendList, ExtendResize
    <2> QED BY <2>1, SizedLittle
  <1>12. CASE AttachPick(w) \/ AttachLibvirt(w) \/ AttachPersist(w) \/ AttachUndo(w)
    <2>1. \/ Return(w)
          \/ /\ pc[w] # "idle" /\ UNCHANGED req
             /\ pc'[w] \in {"a_libvirt", "a_persist", "a_undo"}
      BY <1>3, <1>12 DEF AttachPick, AttachLibvirt, AttachPersist, AttachUndo, local
    <2> QED BY <1>4, <2>1, SizedLittle
  <1> QED BY <1>5, <1>6, <1>7, <1>8, <1>9, <1>10, <1>11, <1>12

\* CreateDisk and DeleteDisk.
LEMMA MakeTurnSizes ==
    ASSUME TypeInv, SizeInv, NEW w \in Workers, OnlyLocal(w),
           \A v \in Workers : v # w => pc[v] = "idle",
           CallOk(w), StoreOk(w), ~CallErr(w), ~StoreErr(w), ~Late(w),
           \/ CreateLV(w) \/ CreateHeader(w) \/ CreatePersist(w) \/ CreateUndo(w)
           \/ DeleteLV(w) \/ DeleteRecord(w)
    PROVE  SizeInv'
  <1> USE DEF At
  <1>0. /\ pc \in [Workers -> PCs] /\ disks \in [Disks -> DiskRec \cup {None}]
        /\ lvs \in [VGs \X Disks -> LVRec \cup {None}] /\ Sized(w)
    BY DEF TypeInv, TypeOK, DiskTypeOK, SizeInv
  <1>1. /\ UNCHANGED <<req, rec>>
        /\ pc[w] \in {"c_lv", "c_header", "c_persist", "c_undo", "d_lv", "d_record"}
    BY DEF CreateLV, CreateHeader, CreatePersist, CreateUndo, DeleteLV, DeleteRecord, local
  <1>2. Disk(w) \in Disks /\ rec[w] \in DiskRec /\ rec[w].vg \in VGs /\ LV(w) \in VGs \X Disks
    BY <1>1, WorkerType
  <1>3. Disk(w)' = Disk(w) /\ LV(w)' = LV(w) /\ LV(w) = <<rec[w].vg, Disk(w)>>
    BY <1>1 DEF Disk, LV
  <1>4. \A l : Goto(w, l) => pc'[w] = l
    BY <1>0 DEF Goto
  <1>5. \A v \in Workers : v # w => Sized(v)'
    BY DEF OnlyLocal, Sized
  <1>6. \A d \in Disks : disks[d] # None => VolumeOf(d) \in VGs \X Disks
    BY <1>0 DEF VolumeOf, DiskRec
  <1>7. CASE CreateLV(w)
    <2>1. disks' = disks /\ pc[w] = "c_lv" /\ disks[Disk(w)] = None
      BY <1>0, <1>7 DEF CreateLV, Sized
    <2>2. CASE lvs' = lvs /\ pc'[w] = "unlock"
      BY <1>1, <2>1, <2>2, SizedLittle, QuietSizes
    <2>3. CASE /\ lvs' = [lvs EXCEPT ![LV(w)] = [size |-> RoundUp(rec[w].size), fmt |-> "raw"]]
               /\ pc'[w] \in {"c_header", "c_persist"}
      <3>1. lvs'[LV(w)] \in LVRec /\ lvs'[LV(w)].size = RoundUp(rec[w].size)
        BY <1>0, <1>2, <2>3, RoundUpNat DEF LVRec, DiskRec
      <3>2. Exact(rec[w], lvs'[LV(w)])
        BY <3>1, NoneAssumption DEF Exact
      <3>3. Sized(w)'
        <4>1. req[w].op = "create"
          BY <2>1 DEF TypeInv, ShapeOK, Shape, OpAt
        <4> QED BY <1>1, <1>3, <2>1, <2>3, <3>2, <4>1 DEF Sized, Exact
      <3>4. ASSUME NEW d \in Disks PROVE SizedDisk(d)'
        <4>1. CASE disks[d] = None
          BY <2>1, <4>1 DEF SizedDisk
        <4>2. CASE disks[d] # None
          <5>1. d # Disk(w) /\ VolumeOf(d) # LV(w)
            BY <1>3, <2>1, <4>2 DEF VolumeOf
          <5>2. lvs'[VolumeOf(d)] = lvs[VolumeOf(d)]
            BY <1>0, <1>6, <2>3, <4>2, <5>1
          <5> QED BY <2>1, <5>2, SizedKept
        <4> QED BY <4>1, <4>2
      <3> QED BY <1>5, <3>3, <3>4 DEF SizeInv
    <2> QED BY <1>4, <1>7, <2>2, <2>3 DEF CreateLV
  <1>8. CASE CreateHeader(w)
    <2>1. /\ disks' = disks /\ pc[w] = "c_header" /\ disks[Disk(w)] = None
          /\ Exact(rec[w], lvs[LV(w)]) /\ pc'[w] = "c_persist"
          /\ lvs' = [lvs EXCEPT ![LV(w)].fmt = "qcow2"]
      BY <1>0, <1>4, <1>8 DEF CreateHeader, Sized, Exact
    <2>2. lvs[LV(w)] \in LVRec
      BY <1>0, <1>2, <2>1 DEF Exact
    <2>3. lvs'[LV(w)] \in LVRec /\ lvs'[LV(w)].size = lvs[LV(w)].size
      BY <1>0, <1>2, <2>1, <2>2 DEF LVRec
    <2>4. Exact(rec[w], lvs'[LV(w)])
      BY <2>1, <2>3, NoneAssumption DEF Exact
    <2>5. Sized(w)'
      <3>1. req[w].op = "create"
        BY <2>1 DEF TypeInv, ShapeOK, Shape, OpAt
      <3> QED BY <1>1, <1>3, <2>1, <2>4, <3>1 DEF Sized, Exact
    <2>6. ASSUME NEW d \in Disks PROVE SizedDisk(d)'
      <3>1. CASE disks[d] = None
        BY <2>1, <3>1 DEF SizedDisk
      <3>2. CASE disks[d] # None
        <4>1. d # Disk(w) /\ VolumeOf(d) # LV(w)
          BY <1>3, <2>1, <3>2 DEF VolumeOf
        <4>2. lvs'[VolumeOf(d)] = lvs[VolumeOf(d)]
          BY <1>0, <1>6, <2>1, <3>2, <4>1
        <4> QED BY <2>1, <4>2, SizedKept
      <3> QED BY <3>1, <3>2
    <2> QED BY <1>5, <2>5, <2>6 DEF SizeInv
  <1>9. CASE CreatePersist(w)
    <2>1. /\ lvs' = lvs /\ pc[w] = "c_persist" /\ Exact(rec[w], lvs[LV(w)])
          /\ disks' = [disks EXCEPT ![Disk(w)] = rec[w]] /\ pc'[w] = "unlock"
      BY <1>0, <1>4, <1>9 DEF CreatePersist, Sized
    <2>2. ASSUME NEW d \in Disks PROVE SizedDisk(d)'
      <3>1. CASE d = Disk(w)
        <4>1. disks'[d] = rec[w] /\ VolumeOf(d)' = LV(w)
          BY <1>0, <1>3, <2>1, <3>1 DEF VolumeOf
        <4> QED BY <2>1, <4>1 DEF SizedDisk, Exact
      <3>2. CASE d # Disk(w)
        BY <1>0, <2>1, <3>2, SizedKept
      <3> QED BY <3>1, <3>2
    <2>3. Sized(w)'
      BY <1>1, <2>1, SizedLittle
    <2> QED BY <1>5, <2>2, <2>3 DEF SizeInv
  <1>10. CASE CreateUndo(w) \/ DeleteLV(w)
    <2>1. /\ disks' = disks /\ pc[w] \in {"c_undo", "d_lv"} /\ pc'[w] \in {"unlock", "d_record"}
          /\ lvs' = lvs \/ lvs' = [lvs EXCEPT ![LV(w)] = None]
      BY <1>4, <1>10 DEF CreateUndo, DeleteLV
    <2>2. ASSUME NEW d \in Disks PROVE SizedDisk(d)'
      <3>1. disks[d] # None /\ lvs'[VolumeOf(d)] # None => lvs'[VolumeOf(d)] = lvs[VolumeOf(d)]
        BY <1>0, <1>6, <2>1
      <3> QED BY <2>1, <3>1, SizedKept
    <2>3. Sized(w)'
      BY <1>1, <2>1, SizedLittle
    <2> QED BY <1>5, <2>2, <2>3 DEF SizeInv
  <1>11. CASE DeleteRecord(w)
    <2>1. /\ lvs' = lvs /\ pc[w] = "d_record" /\ pc'[w] = "unlock"
          /\ disks' = [disks EXCEPT ![Disk(w)] = None]
      BY <1>4, <1>11 DEF DeleteRecord
    <2>2. ASSUME NEW d \in Disks PROVE SizedDisk(d)'
      <3>1. CASE d = Disk(w)
        <4>1. disks'[d] = None
          BY <1>0, <2>1, <3>1
        <4> QED BY <4>1 DEF SizedDisk
      <3>2. CASE d # Disk(w)
        BY <1>0, <2>1, <3>2, SizedKept
      <3> QED BY <3>1, <3>2
    <2>3. Sized(w)'
      BY <1>1, <2>1, SizedLittle
    <2> QED BY <1>5, <2>2, <2>3 DEF SizeInv
  <1> QED BY <1>7, <1>8, <1>9, <1>10, <1>11

\* ExtendDisk: for the time of one call of the catalog the record is behind.
LEMMA GrowTurnSizes ==
    ASSUME WholeExtents, TypeInv, TypeInv', SizeInv, SizesFitWord', NEW w \in Workers,
           OnlyLocal(w), \A v \in Workers : v # w => pc[v] = "idle",
           CallOk(w), StoreOk(w), ~CallErr(w), ~StoreErr(w), ~Late(w),
           ExtendLV(w) \/ ExtendPersist(w)
    PROVE  SizeInv'
  <1> USE DEF At
  <1>0. /\ pc \in [Workers -> PCs] /\ disks \in [Disks -> DiskRec \cup {None}]
        /\ lvs \in [VGs \X Disks -> LVRec \cup {None}]
        /\ rec \in [Workers -> DiskRec \cup {None}] /\ Sized(w)
    BY DEF TypeInv, TypeOK, DiskTypeOK, SizeInv
  <1>1. req' = req /\ pc[w] \in {"e_lv", "e_persist"}
    BY DEF ExtendLV, ExtendPersist, local
  <1>2. Disk(w) \in Disks /\ rec[w] \in DiskRec /\ rec[w].vg \in VGs /\ LV(w) \in VGs \X Disks
    BY <1>1, WorkerType
  <1>3. Disk(w)' = Disk(w) /\ LV(w) = <<rec[w].vg, Disk(w)>>
    BY <1>1 DEF Disk, LV
  <1>4. \A l : Goto(w, l) => pc'[w] = l
    BY <1>0 DEF Goto
  <1>5. \A v \in Workers : v # w => Sized(v)'
    BY DEF OnlyLocal, Sized
  <1>6. \A d \in Disks : disks[d] # None => VolumeOf(d) \in VGs \X Disks
    BY <1>0 DEF VolumeOf, DiskRec
  <1>7. req[w].op = "extend" /\ req[w].in \in ExtendInputs
    BY <1>0, <1>1 DEF TypeInv, ShapeOK, Shape, OpAt, Sized
  <1>8. CASE ExtendLV(w)
    <2>1. disks' = disks /\ pc[w] = "e_lv" /\ rec[w] = disks[Disk(w)]
      BY <1>0, <1>7, <1>8 DEF ExtendLV, Sized
    <2>2. disks[Disk(w)] # None /\ VolumeOf(Disk(w)) = LV(w)
      BY <1>2, <1>3, <2>1, NoneAssumption DEF VolumeOf
    <2>3. CASE UNCHANGED <<lvs, rec>> /\ pc'[w] = "unlock"
      BY <1>1, <2>1, <2>3, SizedLittle, QuietSizes
    <2>4. CASE /\ lvs[LV(w)] # None /\ pc'[w] = "e_persist"
               /\ lvs' = [lvs EXCEPT ![LV(w)].size = Extended(lvs[LV(w)], req[w].in)]
               /\ rec' = [rec EXCEPT ![w].size = NewSize(rec[w], req[w].in)]
      <3>1. PICK lv \in LVRec : lv = lvs[LV(w)]
        BY <1>0, <1>2, <2>4
      <3>2. PICK in \in ExtendInputs : in = req[w].in /\ in \in ExtendIn
        BY <1>7, DiskAssumption
      <3>3. Exact(rec[w], lv)
        BY <1>2, <2>1, <2>2, <2>4, <3>1 DEF SizeInv, SizedDisk
      <3>4. Extended(lv, in) \in Nat /\ NewSize(rec[w], in) \in Nat
        BY <1>2, <3>2, ExtendedNat, NewSizeNat
      <3>5. /\ lvs'[LV(w)] \in LVRec /\ lvs'[LV(w)].size = Extended(lv, in) /\ lvs'[LV(w)] # None
        BY <1>0, <1>2, <2>4, <3>1, <3>2, <3>4, NoneAssumption DEF LVRec
      <3>6. /\ rec'[w].size = NewSize(rec[w], in) /\ rec'[w].vg = rec[w].vg
        BY <1>0, <1>2, <2>4, <3>2 DEF DiskRec
      <3>7. Extended(lv, in) < Word
        BY <1>2, <3>5 DEF SizesFitWord
      <3>8. RoundUp(NewSize(rec[w], in)) = Extended(lv, in)
        BY <1>2, <3>3, <3>7, ExtendExact DEF Exact
      <3>9. LV(w)' = LV(w)
        BY <1>3, <3>6 DEF LV
      <3>10. Exact(rec[w], lvs[LV(w)])'
        BY <3>5, <3>6, <3>8, <3>9 DEF Exact, RoundUp
      <3>11. Recorded(rec[w].vg, Disk(w))'
        BY <1>3, <2>1, <2>2, <3>6 DEF Recorded
      <3>12. Sized(w)'
        BY <1>1, <1>7, <2>4, <3>10, <3>11 DEF Sized
      <3>13. ASSUME NEW d \in Disks PROVE SizedDisk(d)'
        <4>1. CASE d = Disk(w)
          BY <1>3, <2>4, <4>1 DEF SizedDisk
        <4>2. CASE d # Disk(w) /\ disks[d] # None
          <5>1. lvs'[VolumeOf(d)] = lvs[VolumeOf(d)]
            BY <1>0, <1>3, <1>6, <2>4, <4>2 DEF VolumeOf
          <5> QED BY <2>1, <5>1, SizedKept
        <4>3. CASE disks[d] = None
          BY <2>1, <4>3 DEF SizedDisk
        <4> QED BY <4>1, <4>2, <4>3
      <3> QED BY <1>5, <3>12, <3>13 DEF SizeInv
    <2> QED BY <1>4, <1>8, <2>3, <2>4 DEF ExtendLV
  <1>9. CASE ExtendPersist(w)
    <2>1. /\ pc[w] = "e_persist" /\ Recorded(rec[w].vg, Disk(w)) /\ Exact(rec[w], lvs[LV(w)])
      BY <1>0, <1>9 DEF ExtendPersist, Sized
    <2>2. /\ UNCHANGED <<lvs, rec>> /\ disks' = [disks EXCEPT ![Disk(w)] = rec[w]]
          /\ pc'[w] = "e_list"
      BY <1>4, <1>9, <2>1 DEF ExtendPersist, Recorded, local
    <2>3. ASSUME NEW d \in Disks PROVE SizedDisk(d)'
      <3>1. CASE d = Disk(w)
        <4>1. disks'[d] = rec[w] /\ VolumeOf(d)' = LV(w)
          BY <1>0, <1>3, <2>2, <3>1 DEF VolumeOf
        <4> QED BY <2>1, <2>2, <4>1 DEF SizedDisk, Exact
      <3>2. CASE d # Disk(w)
        BY <1>0, <2>2, <3>2, SizedKept
      <3> QED BY <3>1, <3>2
    <2>4. Sized(w)'
      BY <1>1, <2>1, <2>2, SizedLittle
    <2> QED BY <1>5, <2>3, <2>4 DEF SizeInv
  <1> QED BY <1>8, <1>9

LEMMA SizeStep ==
    ASSUME Reliable, WholeExtents, TypeInv, TurnInv, SizeInv, OneAtATime, OneAtATime',
           SizesFitWord', [Next]_vars
    PROVE  SizeInv'
  <1>1. CASE UNCHANGED diskVars
    <2>1. UNCHANGED <<disks, lvs, pc, req, rec>>
      BY <1>1 DEF diskVars
    <2>2. ASSUME NEW w \in Workers PROVE Sized(w)'
      <3>1. Sized(w)
        BY DEF SizeInv
      <3> QED BY <2>1, <3>1 DEF Sized, Recorded, Exact, LV, Disk
    <2>3. ASSUME NEW d \in Disks PROVE SizedDisk(d)'
      <3>1. SizedDisk(d)
        BY DEF SizeInv
      <3> QED BY <2>1, <3>1 DEF SizedDisk, Exact, VolumeOf, Disk
    <2> QED BY <2>2, <2>3 DEF SizeInv
  <1>2. ASSUME NEW w \in Workers,
               CallCreate(w) \/ CallNamed(w) \/ CancelCtx(w) \/ Handler(w)
        PROVE  SizeInv'
    <2>1. OnlyLocal(w) /\ ~CancelCtx(w) /\ TypeInv'
      BY <1>2, StepIsLocal, TypeInvStep DEF Reliable, CancelCtx
    <2>2. pc[w] # "idle" \/ pc'[w] # "idle"
      <3>1. CASE CallCreate(w) \/ CallNamed(w)
        BY <3>1 DEF CallCreate, CallNamed, Goto, TypeInv, TypeOK, DiskTypeOK
      <3>2. CASE Handler(w)
        BY <3>2, HandlerIsBusy
      <3> QED BY <1>2, <2>1, <3>1, <3>2
    <2>3. \A v \in Workers : v # w => pc[v] = "idle"
      BY <2>1, <2>2 DEF OneAtATime, OnlyLocal
    <2>4. CallOk(w) /\ StoreOk(w) /\ ~CallErr(w) /\ ~StoreErr(w) /\ ~Late(w)
      BY CallsSucceed
    <2> QED BY <1>2, <2>1, <2>3, <2>4, QuietTurnSizes, MakeTurnSizes, GrowTurnSizes DEF Handler
  <1> QED BY <1>1, <1>2 DEF Next, vars

\* When calls take turns, no tool fails them and clients extend by whole
\* extents, size_bytes is the size of the volume, up to its last extent,
\* whenever no call is under way: the size ExtendDisk computes from its copy
\* of the record, without asking LVM, is the one lvextend arrives at, for any
\* sequence of creates, extends and deletes through any of the daemons.
THEOREM SizesTakeTurns ==
    ASSUME Reliable, WholeExtents
    PROVE  Spec /\ []OneAtATime /\ []SizesFitWord => []SizeIsPhysical
  <1>1. Init => TurnInv /\ SizeInv
    <2>1. Init => SizeInv
      BY DEF Init, DiskInit, SizeInv, Sized, SizedDisk
    <2> QED BY <2>1, TurnInit
  <1>2. TypeInv /\ TurnInv /\ OneAtATime /\ OneAtATime' /\ [Next]_vars => TurnInv'
    BY TurnStep
  <1>3. TypeInv /\ TurnInv /\ SizeInv /\ OneAtATime /\ OneAtATime' /\ SizesFitWord' /\ [Next]_vars
          => SizeInv'
    BY SizeStep
  <1>4. TypeInv /\ [Next]_vars => TypeInv'
    BY TypeInvStep
  <1>5. SizeInv => SizeIsPhysical
    BY DEF SizeInv, SizedDisk, SizeIsPhysical, Exact, VolumeOf
  <1> QED BY <1>1, <1>2, <1>3, <1>4, <1>5, TypeInvInit, PTL DEF Spec
=============================================================================
