----------------------------- MODULE ClientProofs -----------------------------
(***************************************************************************)
(* The clients of the disk service inside a daemon, the gRPC server and    *)
(* the thin manager: both use the service as it is, so what is proved of   *)
(* it holds of them; and what they promise on top: answers that are true,  *)
(* and volumes that grow only when they are short of space.                *)
(***************************************************************************)
EXTENDS Server, ThinManager, DiskDataProofs

-----------------------------------------------------------------------------
(* The server uses the disk service.                                        *)

\* The RPCs that call no handler leave the service alone.
LEMMA ReadsTouchNothing ==
    ASSUME NEW w \in Workers,
           \/ RpcRefused(w) \/ RpcRead(w) \/ RpcNodeStatus(w)
           \/ RpcClusterStatus(w) \/ RpcClusterStatusEnds(w)
    PROVE  UNCHANGED <<vars, call, err, saw>>
  <1>1. CASE RpcRefused(w)
    BY <1>1 DEF RpcRefused
  <1>2. CASE RpcRead(w) \/ RpcNodeStatus(w)
    BY <1>2 DEF RpcRead, RpcNodeStatus, Tells
  <1>3. CASE RpcClusterStatus(w) \/ RpcClusterStatusEnds(w)
    BY <1>3 DEF RpcClusterStatus, RpcClusterStatusEnds, Tells
  <1> QED BY <1>1, <1>2, <1>3

LEMMA ServerStepIsNext ==
    ASSUME [ServerNext]_svars PROVE [Next]_vars
  <1>1. CASE UNCHANGED svars
    BY <1>1 DEF svars
  <1>2. CASE Elsewhere
    BY <1>2 DEF Elsewhere, Next
  <1>3. ASSUME NEW w \in Workers, RpcCreate(w) \/ RpcNamed(w) \/ RpcStep(w)
        PROVE  CallCreate(w) \/ CallNamed(w) \/ Handler(w)
    BY <1>3 DEF RpcCreate, RpcNamed, RpcStep
  <1> QED BY <1>1, <1>2, <1>3, ReadsTouchNothing DEF ServerNext, Next

\* The RPCs add nothing to the service but answers: every behaviour of the
\* server is one of the disk service, so every theorem about Spec is one
\* about ServerSpec.
THEOREM ServerUsesService == ServerSpec => Spec
  <1>1. ServerInit => Init
    BY DEF ServerInit
  <1> QED BY <1>1, ServerStepIsNext, PTL DEF ServerSpec, Spec

\* In particular, behind the server too every attachment in the catalog is a
\* disk of its domain while nothing is detached and no answer comes late.
COROLLARY ServedAttachmentsHaveDevices ==
    ASSUME OnlyAttaches PROVE ServerSpec => []AttachmentHasDevice
  BY ServerUsesService, AttachmentsHaveDevices, PTL

-----------------------------------------------------------------------------
(* The thin manager uses the disk service.                                  *)

\* A manager that decides to extend makes a call like any client's.
LEMMA InspectIsCall ==
    ASSUME ThinTypeOK, NEW w \in Managers, TickInspect(w)
    PROVE  UNCHANGED vars \/ CallNamed(w)
  <1>1. CASE UNCHANGED vars
    BY <1>1
  <1>2. CASE ~UNCHANGED vars
    <2>1. PICK a \in left[w] :
            /\ Between(w)
            /\ req' = [req EXCEPT ![w] = [op |-> "extend", disk |-> a.disk, in |-> StepInput]]
            /\ Goto(w, "get")
            /\ UNCHANGED <<lockVars, disks, atts, lvs, devs, rec, todo, cur, ctx, lost, leaked>>
      BY <1>2 DEF TickInspect
    <2>2. a.disk \in Disks
      BY <2>1 DEF ThinTypeOK, AttRec
    <2>3. ValidExtend(StepInput)
      BY ThinAssumption DEF ValidExtend, StepInput
    <2>4. [op |-> "extend", disk |-> a.disk, in |-> StepInput] \in NamedRequests
      BY <2>2, <2>3, ThinAssumption DEF NamedRequests
    <2> QED BY <2>1, <2>4 DEF CallNamed, At, Between
  <1> QED BY <1>1, <1>2

LEMMA ThinStepIsNext ==
    ASSUME ThinTypeOK, [ThinNext]_tvars PROVE [Next]_vars
  <1>1. CASE UNCHANGED tvars
    BY <1>1 DEF tvars
  <1>2. CASE ServiceStep
    BY <1>2 DEF ServiceStep, Next
  <1>3. ASSUME NEW w \in Managers, ManagerStep(w) PROVE [Next]_vars
    <2>1. UNCHANGED vars \/ CallNamed(w)
      BY <1>3, InspectIsCall DEF ManagerStep, TickList, TickSample, TickExtended
    <2>2. w \in Workers
      BY ThinAssumption
    <2> QED BY <2>1, <2>2 DEF Next
  <1>4. CASE \E v \in Volumes : GuestWrite(v)
    BY <1>4 DEF GuestWrite
  <1> QED BY <1>1, <1>2, <1>3, <1>4 DEF ThinNext

LEMMA DomainStatsType ==
    ASSUME TypeInv, ThinTypeOK, NEW vm \in VMs
    PROVE  DomainStats(vm) \in [Targets -> BlockStats \cup {None}]
  <1> SUFFICES ASSUME NEW t \in Targets, devs[<<vm, t>>] # None,
                      lvs[<<devs[<<vm, t>>].vg, devs[<<vm, t>>].disk>>] # None
               PROVE  /\ lvs[<<devs[<<vm, t>>].vg, devs[<<vm, t>>].disk>>].size \in Nat
                      /\ alloc[<<devs[<<vm, t>>].vg, devs[<<vm, t>>].disk>>] \in Nat
    BY DEF DomainStats, BlockStats
  <1>1. devs[<<vm, t>>] \in DevRec
    BY DEF TypeInv, TypeOK, DiskTypeOK
  <1>2. PICK v \in Volumes : v = <<devs[<<vm, t>>].vg, devs[<<vm, t>>].disk>>
    BY <1>1 DEF DevRec, Volumes
  <1> QED BY <1>2 DEF TypeInv, TypeOK, DiskTypeOK, LVRec, ThinTypeOK, Volumes

LEMMA ThinTypeStep ==
    ASSUME TypeInv, ThinTypeOK, [ThinNext]_tvars PROVE ThinTypeOK'
  <1> USE DEF ThinTypeOK
  <1>1. CASE UNCHANGED tvars
    BY <1>1 DEF tvars, vars, diskVars, thinVars
  <1>2. CASE ServiceStep
    <2>1. alloc' \in [Volumes -> Nat] /\ UNCHANGED <<tick, left, vmOf, stats>>
      BY <1>2 DEF ServiceStep, Tracks
    <2>2. before' \in [Volumes -> Nat]
      <3>1. \A v \in Volumes : lvs[v] # None => lvs[v].size \in Nat
        BY DEF TypeInv, TypeOK, DiskTypeOK, LVRec, Volumes
      <3> QED BY <1>2, <3>1 DEF ServiceStep, Tracks
    <2>3. ASSUME NEW w \in Managers, pc'[w] # "idle" PROVE pc[w] # "idle"
      <3>1. CASE UNCHANGED diskVars
        BY <2>3, <3>1 DEF diskVars
      <3>2. ASSUME NEW v \in Workers, Handler(v) PROVE pc[w] # "idle"
        BY <2>3, <3>2, StepIsLocal, HandlerIsBusy, ThinAssumption DEF OnlyLocal
      <3>3. ASSUME NEW v \in Workers \ Managers,
                   CallCreate(v) \/ CallNamed(v) \/ CancelCtx(v)
            PROVE  pc[w] # "idle"
        BY <2>3, <3>3, StepIsLocal, ThinAssumption DEF OnlyLocal
      <3> QED BY <1>2, <3>1, <3>2, <3>3 DEF ServiceStep
    <2> QED BY <2>1, <2>2, <2>3
  <1>3. ASSUME NEW w \in Managers, TickList(w) PROVE ThinTypeOK'
    <2>1. UNION {AttachmentsOf(d) : d \in Disks} \subseteq AttRec
      BY AttachmentsType
    <2>2. /\ UNCHANGED <<pc, alloc, vmOf, stats, before>>
          /\ tick' = [tick EXCEPT ![w] = "sample"] /\ pc[w] = "idle"
          /\ \E m \in SUBSET AttRec : left' = [left EXCEPT ![w] = m]
      BY <1>3, <2>1 DEF TickList, Between, vars, diskVars
    <2> QED BY <2>2
  <1>4. ASSUME NEW w \in Managers, TickSample(w) PROVE ThinTypeOK'
    <2>1. /\ UNCHANGED <<pc, alloc, before>> /\ pc[w] = "idle"
          /\ \E vm \in {a.vm : a \in left[w]} :
                \/ /\ vmOf' = [vmOf EXCEPT ![w] = vm]
                   /\ stats' = [stats EXCEPT ![w] = DomainStats(vm)]
                   /\ tick' = [tick EXCEPT ![w] = "inspect"]
                   /\ UNCHANGED left
                \/ /\ left' = [left EXCEPT ![w] = {a \in @ : a.vm # vm}]
                   /\ tick' = [tick EXCEPT ![w] = IF left'[w] = {} THEN "wait" ELSE @]
                   /\ UNCHANGED <<vmOf, stats>>
      BY <1>4 DEF TickSample, Between, vars, diskVars
    <2>2. PICK vm \in VMs :
                \/ /\ vmOf' = [vmOf EXCEPT ![w] = vm]
                   /\ stats' = [stats EXCEPT ![w] = DomainStats(vm)]
                   /\ tick' = [tick EXCEPT ![w] = "inspect"]
                   /\ UNCHANGED left
                \/ /\ left' = [left EXCEPT ![w] = {a \in @ : a.vm # vm}]
                   /\ tick' = [tick EXCEPT ![w] = IF left'[w] = {} THEN "wait" ELSE @]
                   /\ UNCHANGED <<vmOf, stats>>
      BY <2>1 DEF AttRec
    <2>3. DomainStats(vm) \in [Targets -> BlockStats \cup {None}]
      BY DomainStatsType
    <2>4. left' \in [Managers -> SUBSET AttRec] /\ vmOf' \in [Managers -> VMs \cup {None}]
      BY <2>2
    <2>5. stats' \in [Managers -> [Targets -> BlockStats \cup {None}]]
      BY <2>2, <2>3
    <2>6. \E t \in {"wait", "sample", "inspect", "extend"} : tick' = [tick EXCEPT ![w] = t]
      BY <2>2
    <2> QED BY <2>1, <2>4, <2>5, <2>6
  <1>5. ASSUME NEW w \in Managers, TickInspect(w) PROVE ThinTypeOK'
    <2>1. /\ UNCHANGED <<alloc, vmOf, stats, before>>
          /\ \E a : left' = [left EXCEPT ![w] = @ \ {a}]
          /\ \/ tick' = [tick EXCEPT ![w] = "extend"] /\ Goto(w, "get")
             \/ /\ \E t \in {"wait", "sample", "inspect"} : tick' = [tick EXCEPT ![w] = t]
                /\ pc' = pc /\ pc[w] = "idle"
      BY <1>5 DEF TickInspect, Done, Between, vars, diskVars
    <2>2. left' \in [Managers -> SUBSET AttRec]
      BY <2>1
    <2>3. \A v \in Managers : pc'[v] # "idle" => tick'[v] = "extend"
      BY <2>1, ThinAssumption DEF Goto, TypeInv, TypeOK, DiskTypeOK
    <2> QED BY <2>1, <2>2, <2>3
  <1>6. ASSUME NEW w \in Managers, TickExtended(w) PROVE ThinTypeOK'
    <2>1. /\ UNCHANGED <<pc, alloc, left, vmOf, stats, before>> /\ pc[w] = "idle"
          /\ \E t \in {"wait", "sample", "inspect"} : tick' = [tick EXCEPT ![w] = t]
      BY <1>6 DEF TickExtended, Between, vars, diskVars
    <2> QED BY <2>1
  <1>7. ASSUME NEW v \in Volumes, GuestWrite(v) PROVE ThinTypeOK'
    <2>1. UNCHANGED <<pc, tick, left, vmOf, stats, before>> /\ alloc' = [alloc EXCEPT ![v] = @ + 1]
      BY <1>7 DEF GuestWrite, vars, diskVars
    <2> QED BY <2>1
  <1> QED BY <1>1, <1>2, <1>3, <1>4, <1>5, <1>6, <1>7 DEF ThinNext, ManagerStep

\* The manager's state keeps its type, and a manager is inside a call of the
\* disk service only while its tick waits for that call: ticks and extends of
\* one manager never overlap.
THEOREM ThinTypeCorrect == ThinSpec => []ThinTypeOK
  <1>1. ThinInit => TypeInv
    BY TypeInvInit DEF ThinInit
  <1>2. ThinInit => ThinTypeOK
    BY ThinAssumption DEF ThinInit, Init, DiskInit, ThinTypeOK
  <1>3. TypeInv /\ ThinTypeOK /\ [ThinNext]_tvars => TypeInv' /\ ThinTypeOK'
    BY ThinStepIsNext, TypeInvStep, ThinTypeStep
  <1> QED BY <1>1, <1>2, <1>3, PTL DEF ThinSpec

\* A manager's extends are calls a client could make: every behaviour of the
\* daemon with its thin manager is one of the disk service.
THEOREM ThinUsesService == ThinSpec => Spec
  <1>1. ThinInit => Init
    BY DEF ThinInit
  <1>2. ThinTypeOK /\ [ThinNext]_tvars => [Next]_vars
    BY ThinStepIsNext
  <1> QED BY <1>1, <1>2, ThinTypeCorrect, PTL DEF ThinSpec, Spec

-----------------------------------------------------------------------------
(* What the answers of the server rest on.                                  *)

\* A catalog entry that w's request names had this value during the call.
DiskWas(S, r) == [disk |-> r] \in S
AttWas(S, r) == [att |-> r] \in S

\* What an error says of the values S of the entries w's request names.
SaysOf(w, e, S) ==
    /\ e = "ErrNotFound" =>
          DiskWas(S, None) \/ (req[w].op = "detach" /\ AttWas(S, None))
    /\ e = "ErrAlreadyExists" =>
          IF req[w].op = "attach" THEN \E r \in AttRec : AttWas(S, r)
                                  ELSE \E r \in DiskRec : DiskWas(S, r)

\* What success says of them.
DoneOf(w, S) ==
    /\ req[w].op \in {"create", "extend"} => DiskWas(S, rec[w])
    /\ req[w].op = "delete" => DiskWas(S, None)
    /\ req[w].op = "attach" => AttWas(S, cur[w])
    /\ req[w].op = "detach" => AttWas(S, None)

\* The handler's locals name what the request names.
OwnNames(w) ==
    /\ req[w].op = "create" =>
          call[w] \in CreateRequests /\ rec[w] = normaliseCreate(CreateInput(call[w]))
    /\ pc[w] \in {"a_libvirt", "a_persist", "a_undo"} =>
          cur[w].disk = Disk(w) /\ cur[w].vm = req[w].vm
    /\ req[w].op = "detach" /\ pc[w] = "detach" =>
          \A a \in todo[w] : a.disk = Disk(w) /\ a.vm = req[w].vm
    /\ req[w].op = "detach" /\ pc[w] = "detached" =>
          cur[w].disk = Disk(w) /\ cur[w].vm = req[w].vm

\* What a handler in flight may say when it returns.
Account(w) ==
    /\ Named(req[w], disks, atts) \subseteq saw[w]
    /\ SaysOf(w, err[w], saw[w])
    /\ pc[w] = "unlock" /\ err[w] = "none" => DoneOf(w, saw[w])
    /\ pc[w] \in {"e_list", "e_resize"} => DiskWas(saw[w], rec[w])
    /\ pc[w] \in {"c_undo", "a_undo"} => err[w] # "none"

ServerTypes ==
    /\ call \in [Workers -> CreateRequests \cup {None}]
    /\ err \in [Workers -> {"none", "other", "ErrNotFound", "ErrAlreadyExists"}]
    /\ DOMAIN saw = Workers

AnswerInv ==
    /\ ServerTypes
    /\ KeyedAtts
    /\ \A w \in Workers : IF pc[w] = "idle" THEN err[w] = "none"
                          ELSE OwnNames(w) /\ Account(w)

\* What w has seen of the catalog once the step is done.
After(w) == saw[w] \cup Named(req[w], disks', atts')

\* The step of w's handler that leaves it with error e accounts for it.
Fine(w, e) ==
    /\ e \in {"none", "other", "ErrNotFound", "ErrAlreadyExists"}
    /\ SaysOf(w, e, After(w))
    /\ pc'[w] \in {"idle", "unlock"} /\ e = "none" => DoneOf(w, After(w))
    /\ pc'[w] \in {"e_list", "e_resize"} => DiskWas(After(w), rec[w])
    /\ pc'[w] \in {"c_undo", "a_undo"} => e # "none"

LEMMA FailsToFacts ==
    /\ \A l \in {"get", "lock", "wait", "x_att", "a_pick", "a_libvirt"} : FailsTo[l] = {"idle"}
    /\ \A l \in {"c_get", "c_lv", "d_list", "d_lv", "e_lv", "e_persist"} : FailsTo[l] = {"unlock"}
    /\ \A l \in {"c_header", "c_persist"} : FailsTo[l] = {"c_undo"}
    /\ FailsTo["a_persist"] = {"a_undo"}
    /\ FailsTo["detach"] = {"idle", "unlock"}
    /\ \A l \in {"unlock", "c_undo", "e_list", "e_resize", "a_undo"} : FailsTo[l] = {}
  BY DEF FailsTo, PCs

\* What has been seen stays seen.
LEMMA SaysGrows ==
    ASSUME NEW w, NEW e, NEW S, NEW T, S \subseteq T, SaysOf(w, e, S)
    PROVE  SaysOf(w, e, T)
  BY DEF SaysOf, DiskWas, AttWas

LEMMA DoneGrows ==
    ASSUME NEW w, NEW S, NEW T, S \subseteq T, DoneOf(w, S)
    PROVE  DoneOf(w, T)
  BY DEF DoneOf, DiskWas, AttWas

LEMMA NamedHas ==
    ASSUME NEW r, NEW ds, NEW as
    PROVE  /\ DiskWas(Named(r, ds, as), ds[r.disk])
           /\ Unlocked(r.op) => AttWas(Named(r, ds, as), as[<<r.disk, r.vm>>])
  BY DEF Named, DiskWas, AttWas

\* The ways a handler's step ends well.
LEMMA GoodEnds ==
    ASSUME TypeInv, NEW w \in Workers, Handler(w),
           pc[w] \notin {"detached", "d_record"}, pc'[w] \notin FailsTo[pc[w]]
    PROVE  \/ pc'[w] \notin {"idle", "unlock", "e_list", "e_resize", "c_undo", "a_undo"}
           \/ pc[w] = "unlock" /\ pc'[w] = "idle"
           \/ pc[w] = "c_persist" /\ pc'[w] = "unlock" /\ disks'[Disk(w)] = rec[w]
           \/ pc[w] = "c_undo" /\ pc'[w] = "unlock"
           \/ pc[w] = "e_persist" /\ pc'[w] = "e_list" /\ disks'[Disk(w)] = rec[w]
           \/ pc[w] \in {"e_list", "e_resize"} /\ pc'[w] \in {"e_resize", "unlock"}
           \/ /\ pc[w] = "a_persist" /\ pc'[w] = "idle"
              /\ atts'[<<cur[w].disk, cur[w].vm>>] = cur[w]
           \/ pc[w] = "a_undo" /\ pc'[w] = "idle"
  <1> USE FailsToFacts DEF At
  <1>0. /\ pc \in [Workers -> PCs] /\ disks \in [Disks -> DiskRec \cup {None}]
        /\ atts \in [Disks \X VMs -> AttRec \cup {None}]
    BY DEF TypeInv, TypeOK, DiskTypeOK
  <1>1. pc[w] # "idle" /\ Disk(w) \in Disks
    BY HandlerIsBusy, WorkerType
  <1>2. ASSUME NEW l, Goto(w, l) PROVE pc'[w] = l
    BY <1>0, <1>2 DEF Goto
  <1>3. Return(w) => pc'[w] = "idle"
    BY <1>2 DEF Return
  <1>4. CASE ReadDisk(w)
    BY <1>2, <1>3, <1>4 DEF ReadDisk
  <1>5. CASE Acquire(w) \/ AcquireFails(w) \/ AcquireWaited(w) \/ AcquireGivesUp(w) \/ Release(w)
    BY <1>2, <1>3, <1>5
    DEF Acquire, AcquireFails, AcquireWaited, AcquireGivesUp, Release, Entry
  <1>6. CASE CreateGet(w) \/ CreateLV(w) \/ CreateHeader(w) \/ CreateUndo(w)
    BY <1>2, <1>6 DEF CreateGet, CreateLV, CreateHeader, CreateUndo
  <1>7. CASE CreatePersist(w)
    BY <1>0, <1>1, <1>2, <1>7 DEF CreatePersist
  <1>8. CASE DeleteList(w) \/ DetachGet(w) \/ DeleteLV(w) \/ DeleteRecord(w) \/ DetachStore(w)
    BY <1>2, <1>3, <1>8 DEF DeleteList, DetachGet, DeleteLV, DeleteRecord, DetachStore
  <1>9. CASE DetachLibvirt(w)
    BY <1>2, <1>3, <1>9 DEF DetachLibvirt, Abort
  <1>10. CASE ExtendLV(w) \/ ExtendList(w) \/ ExtendResize(w)
    BY <1>2, <1>10 DEF ExtendLV, ExtendList, ExtendResize
  <1>11. CASE ExtendPersist(w)
    BY <1>0, <1>1, <1>2, <1>11 DEF ExtendPersist
  <1>12. CASE AttachPick(w) \/ AttachLibvirt(w) \/ AttachUndo(w)
    BY <1>2, <1>3, <1>12 DEF AttachPick, AttachLibvirt, AttachUndo
  <1>13. CASE AttachPersist(w)
    <2>1. pc[w] = "a_persist" /\ cur[w] \in AttRec
      BY <1>13 DEF AttachPersist, TypeInv, ShapeOK, Shape
    <2>2. <<cur[w].disk, cur[w].vm>> \in Disks \X VMs
      BY <2>1 DEF AttRec
    <2> QED BY <1>0, <1>2, <1>3, <1>13, <2>1, <2>2 DEF AttachPersist
  <1> QED
    BY <1>4, <1>5, <1>6, <1>7, <1>8, <1>9, <1>10, <1>11, <1>12, <1>13 DEF Handler

\* What a handler in flight knows of itself and of what it has seen.
LEMMA HandlerKnows ==
    ASSUME TypeInv, AnswerInv, NEW w \in Workers, Handler(w)
    PROVE  /\ pc[w] # "idle" /\ OwnNames(w) /\ Account(w)
           /\ req[w] \in Requests /\ OpAt(req[w].op, pc[w]) /\ Disk(w) \in Disks
           /\ err[w] \in {"none", "other", "ErrNotFound", "ErrAlreadyExists"}
           /\ saw[w] \subseteq After(w)
           /\ DiskWas(saw[w], disks[Disk(w)]) /\ DiskWas(After(w), disks'[Disk(w)])
           /\ Unlocked(req[w].op) => /\ AttWas(saw[w], atts[<<Disk(w), req[w].vm>>])
                                     /\ AttWas(After(w), atts'[<<Disk(w), req[w].vm>>])
  <1>1. pc[w] # "idle" /\ Disk(w) \in Disks
    BY HandlerIsBusy, WorkerType
  <1>2. OwnNames(w) /\ Account(w) /\ req[w] \in Requests /\ OpAt(req[w].op, pc[w])
    BY <1>1 DEF AnswerInv, TypeInv, ShapeOK, Shape
  <1>3. err[w] \in {"none", "other", "ErrNotFound", "ErrAlreadyExists"}
    BY DEF AnswerInv, ServerTypes
  <1>4. /\ DiskWas(saw[w], disks[Disk(w)])
        /\ Unlocked(req[w].op) => AttWas(saw[w], atts[<<Disk(w), req[w].vm>>])
    BY <1>2, NamedHas DEF Account, DiskWas, AttWas, Disk
  <1>5. /\ DiskWas(After(w), disks'[Disk(w)])
        /\ Unlocked(req[w].op) => AttWas(After(w), atts'[<<Disk(w), req[w].vm>>])
    BY NamedHas DEF After, DiskWas, AttWas, Disk
  <1> QED BY <1>1, <1>2, <1>3, <1>4, <1>5 DEF After

\* A step that ends well leaves the error alone.
LEMMA GoodAccounts ==
    ASSUME TypeInv, AnswerInv, NEW w \in Workers, Handler(w),
           pc[w] \notin {"detached", "d_record"}, pc'[w] \notin FailsTo[pc[w]]
    PROVE  Fine(w, err[w])
  <1>1. /\ OwnNames(w) /\ Account(w) /\ OpAt(req[w].op, pc[w]) /\ saw[w] \subseteq After(w)
        /\ err[w] \in {"none", "other", "ErrNotFound", "ErrAlreadyExists"}
        /\ DiskWas(After(w), disks'[Disk(w)])
        /\ Unlocked(req[w].op) => AttWas(After(w), atts'[<<Disk(w), req[w].vm>>])
    BY HandlerKnows
  <1>2. SaysOf(w, err[w], After(w))
    BY <1>1, SaysGrows DEF Account
  <1>3. pc[w] \in {"e_list", "e_resize"} => DiskWas(After(w), rec[w])
    BY <1>1 DEF Account, DiskWas
  <1>4. pc'[w] \in {"e_list", "e_resize"} => DiskWas(After(w), rec[w])
    BY <1>1, <1>3, GoodEnds
  <1>5. pc'[w] \notin {"c_undo", "a_undo"}
    BY GoodEnds
  <1>6. ASSUME pc'[w] \in {"idle", "unlock"}, err[w] = "none" PROVE DoneOf(w, After(w))
    <2>1. CASE pc[w] = "unlock"
      BY <1>1, <1>6, <2>1, DoneGrows DEF Account
    <2>2. CASE pc[w] = "c_persist" /\ disks'[Disk(w)] = rec[w]
      BY <1>1, <2>2 DEF DoneOf, OpAt
    <2>3. CASE pc[w] \in {"e_list", "e_resize"}
      BY <1>1, <1>3, <2>3 DEF DoneOf, OpAt
    <2>4. CASE pc[w] = "a_persist" /\ atts'[<<cur[w].disk, cur[w].vm>>] = cur[w]
      BY <1>1, <2>4 DEF DoneOf, OpAt, OwnNames, Unlocked
    <2>5. pc[w] \notin {"c_undo", "a_undo"}
      BY <1>1, <1>6 DEF Account
    <2> QED BY <1>6, <2>1, <2>2, <2>3, <2>4, <2>5, GoodEnds
  <1> QED BY <1>1, <1>2, <1>4, <1>5, <1>6 DEF Fine

\* What the store refuses a call for was so when it refused.
LEMMA RefusalAccounts ==
    ASSUME TypeInv, AnswerInv, NEW w \in Workers, Handler(w), NEW e \in Refusal(w)
    PROVE  e # "none" /\ e \in {"ErrNotFound", "ErrAlreadyExists"} /\ SaysOf(w, e, After(w))
  <1>1. /\ OwnNames(w) /\ OpAt(req[w].op, pc[w]) /\ saw[w] \subseteq After(w)
        /\ Disk(w) \in Disks /\ req[w] \in Requests
        /\ DiskWas(After(w), disks[Disk(w)])
        /\ Unlocked(req[w].op) => AttWas(After(w), atts[<<Disk(w), req[w].vm>>])
    BY HandlerKnows DEF DiskWas, AttWas
  <1>2. disks[Disk(w)] # None => disks[Disk(w)] \in DiskRec
    BY <1>1 DEF TypeInv, TypeOK, DiskTypeOK
  <1>3. CASE pc[w] \in {"get", "e_persist"}
    <2>1. e = "ErrNotFound" /\ disks[Disk(w)] = None
      BY <1>3 DEF Refusal
    <2> QED BY <1>1, <2>1 DEF SaysOf
  <1>4. CASE pc[w] = "x_att"
    <2>1. e = "ErrNotFound" /\ atts[<<req[w].disk, req[w].vm>>] = None
      BY <1>4 DEF Refusal
    <2> QED BY <1>1, <1>4, <2>1 DEF SaysOf, OpAt, Unlocked, Disk
  <1>5. CASE pc[w] \in {"c_get", "c_persist"}
    <2>1. e = "ErrAlreadyExists" /\ disks[Disk(w)] # None
      BY <1>5 DEF Refusal
    <2> QED BY <1>1, <1>2, <1>5, <2>1 DEF SaysOf, OpAt
  <1>6. CASE pc[w] = "a_persist"
    <2>1. e = "ErrAlreadyExists" /\ atts[<<cur[w].disk, cur[w].vm>>] # None
      BY <1>6 DEF Refusal
    <2>2. req[w].op = "attach" /\ cur[w].disk = Disk(w) /\ cur[w].vm = req[w].vm
      BY <1>1, <1>6 DEF OpAt, OwnNames
    <2>3. cur[w] \in AttRec
      BY <1>6 DEF TypeInv, ShapeOK, Shape
    <2>4. <<Disk(w), req[w].vm>> \in Disks \X VMs
      BY <2>2, <2>3 DEF AttRec
    <2>5. atts[<<Disk(w), req[w].vm>>] \in AttRec
      BY <2>1, <2>2, <2>4 DEF TypeInv, TypeOK, DiskTypeOK
    <2> QED BY <1>1, <2>1, <2>2, <2>5 DEF SaysOf, Unlocked
  <1>7. pc[w] \in {"get", "e_persist", "x_att", "c_get", "c_persist", "a_persist"}
    BY DEF Refusal
  <1> QED BY <1>3, <1>4, <1>5, <1>6, <1>7

\* A delete in the store that is not reported failed has been done.
LEMMA DeleteAccounts ==
    ASSUME TypeInv, AnswerInv, NEW w \in Workers, Handler(w),
           pc[w] \in {"detached", "d_record"}, NEW e \in DeleteErrors(w)
    PROVE  Fine(w, e)
  <1>1. /\ OwnNames(w) /\ Account(w) /\ OpAt(req[w].op, pc[w]) /\ saw[w] \subseteq After(w)
        /\ err[w] \in {"none", "other", "ErrNotFound", "ErrAlreadyExists"}
        /\ Disk(w) \in Disks
        /\ DiskWas(After(w), disks'[Disk(w)])
        /\ Unlocked(req[w].op) => AttWas(After(w), atts'[<<Disk(w), req[w].vm>>])
    BY HandlerKnows
  <1>2. /\ pc \in [Workers -> PCs] /\ disks \in [Disks -> DiskRec \cup {None}]
        /\ atts \in [Disks \X VMs -> AttRec \cup {None}]
    BY DEF TypeInv, TypeOK, DiskTypeOK
  <1>3. (DeleteRecord(w) /\ pc[w] = "d_record") \/ (DetachStore(w) /\ pc[w] = "detached")
    BY DEF Handler, At, ReadDisk, Acquire, AcquireFails, AcquireWaited, AcquireGivesUp, Release,
         CreateGet, CreateLV, CreateHeader, CreatePersist, CreateUndo, DeleteList, DetachGet,
         DetachLibvirt, DetachStore, DeleteLV, DeleteRecord, ExtendLV, ExtendPersist,
         ExtendList, ExtendResize, AttachPick, AttachLibvirt, AttachPersist, AttachUndo
  <1>4. pc'[w] \in {"unlock", "idle", "d_lv", "detach"}
    BY <1>2, <1>3 DEF DeleteRecord, DetachStore, Goto, Return, Abort
  <1>5. CASE e = "other"
    BY <1>4, <1>5 DEF Fine, SaysOf
  <1>6. CASE e = err[w] /\ e # "other"
    <2>1. StoreOk(w) /\ (StoreErr(w) \/ Late(w) =>
                IF pc[w] = "d_record" THEN disks'[Disk(w)] = None
                ELSE atts'[<<cur[w].disk, cur[w].vm>>] = None /\ pc'[w] # "unlock")
      BY <1>6 DEF DeleteErrors
    <2>2. SaysOf(w, e, After(w))
      BY <1>1, <1>6, SaysGrows DEF Account
    <2>3. CASE DeleteRecord(w) /\ pc[w] = "d_record"
      <3>1. disks'[Disk(w)] = None
        BY <1>1, <1>2, <2>1, <2>3 DEF DeleteRecord
      <3>2. req[w].op = "delete"
        BY <1>1, <2>3 DEF OpAt
      <3> QED BY <1>1, <1>4, <1>6, <2>2, <3>1, <3>2 DEF Fine, DoneOf
    <2>4. CASE DetachStore(w) /\ pc[w] = "detached"
      <3>1. cur[w] \in AttRec
        BY <2>4 DEF TypeInv, ShapeOK, Shape
      <3>2. PICK k \in Disks \X VMs : k = <<cur[w].disk, cur[w].vm>>
        BY <3>1 DEF AttRec
      <3>3. atts'[k] = None
        BY <1>2, <2>1, <2>4, <3>2 DEF DetachStore
      <3>4. pc'[w] = "idle" => req[w].op = "detach"
        BY <1>1, <1>2, <2>4 DEF DetachStore, Abort, Goto, OpAt, Unlocked
      <3>5. pc'[w] # "unlock"
        BY <1>2, <2>1, <2>4 DEF DetachStore, Abort, Goto, Return
      <3>6. req[w].op = "detach" => DoneOf(w, After(w))
        BY <1>1, <2>4, <3>2, <3>3 DEF DoneOf, OwnNames, Unlocked
      <3> QED BY <1>1, <1>4, <1>6, <2>2, <3>4, <3>5, <3>6 DEF Fine
    <2> QED BY <1>3, <2>3, <2>4
  <1> QED BY <1>5, <1>6 DEF DeleteErrors

LEMMA StepAccounts ==
    ASSUME TypeInv, AnswerInv, NEW w \in Workers, Handler(w), NEW e \in ErrorsLeft(w)
    PROVE  Fine(w, e)
  <1>1. CASE pc[w] \in {"detached", "d_record"}
    BY <1>1, DeleteAccounts DEF ErrorsLeft
  <1>2. CASE pc[w] \notin {"detached", "d_record"} /\ pc'[w] \notin FailsTo[pc[w]]
    BY <1>2, GoodAccounts DEF ErrorsLeft
  <1>3. CASE pc[w] \notin {"detached", "d_record"} /\ pc'[w] \in FailsTo[pc[w]]
    <2>1. pc'[w] \notin {"e_list", "e_resize"}
      <3>1. pc[w] \in PCs
        BY DEF TypeInv, TypeOK, DiskTypeOK
      <3> QED BY <1>3, <3>1 DEF FailsTo, PCs
    <2>2. CASE e = "other"
      BY <2>1, <2>2 DEF Fine, SaysOf
    <2>3. CASE e \in Refusal(w)
      BY <2>1, <2>3, RefusalAccounts DEF Fine
    <2> QED BY <1>3, <2>2, <2>3 DEF ErrorsLeft
  <1> QED BY <1>1, <1>2, <1>3

\* How a handler's step moves its own locals.
LEMMA HandlerLocals ==
    ASSUME TypeInv, NEW w \in Workers, Handler(w)
    PROVE  /\ pc'[w] # "idle" => req'[w] = req[w]
           /\ pc'[w] \in {"unlock", "e_list", "e_resize"} => rec'[w] = rec[w]
           /\ pc'[w] # "idle" /\ pc[w] \notin {"get", "e_lv"} => rec'[w] = rec[w]
           /\ \A v \in Workers : v # w => todo'[v] = todo[v]
  <1> USE DEF At
  <1>0. /\ pc \in [Workers -> PCs] /\ req \in [Workers -> Requests \cup {None}]
        /\ rec \in [Workers -> DiskRec \cup {None}] /\ todo \in [Workers -> SUBSET AttRec]
    BY DEF TypeInv, TypeOK, DiskTypeOK
  <1>1. ASSUME NEW l, Goto(w, l) PROVE pc'[w] = l
    BY <1>0, <1>1 DEF Goto
  <1>2. Return(w) => pc'[w] = "idle" /\ \A v \in Workers : v # w => todo'[v] = todo[v]
    BY <1>0, <1>1 DEF Return
  <1>3. CASE UNCHANGED <<req, rec, todo>>
    BY <1>3
  <1>4. CASE UNCHANGED local
    BY <1>4 DEF local
  <1>5. CASE Return(w)
    BY <1>2, <1>5
  <1>6. CASE ReadDisk(w)
    <2>1. Return(w) \/ /\ UNCHANGED <<req, todo>> /\ pc[w] = "get"
                       /\ pc'[w] \in {"a_pick", "x_att", "lock"}
      BY <1>1, <1>6 DEF ReadDisk
    <2> QED BY <1>5, <2>1
  <1>7. CASE Acquire(w) \/ AcquireFails(w) \/ AcquireWaited(w) \/ AcquireGivesUp(w) \/ Release(w)
    BY <1>3, <1>4, <1>5, <1>7
    DEF Acquire, AcquireFails, AcquireWaited, AcquireGivesUp, Release
  <1>8. CASE CreateGet(w) \/ CreateLV(w) \/ CreateHeader(w) \/ CreatePersist(w) \/ CreateUndo(w)
    BY <1>4, <1>8 DEF CreateGet, CreateLV, CreateHeader, CreatePersist, CreateUndo
  <1>9. CASE DeleteList(w) \/ DetachGet(w)
    <2>1. \/ Return(w)
          \/ /\ UNCHANGED <<req, rec>>
             /\ UNCHANGED todo \/ \E s : todo' = [todo EXCEPT ![w] = s]
      BY <1>0, <1>9 DEF DeleteList, DetachGet
    <2> QED BY <1>0, <1>5, <2>1
  <1>10. CASE DetachLibvirt(w) \/ DetachStore(w)
    <2>1. \/ Return(w) \/ UNCHANGED local \/ UNCHANGED <<req, rec, todo>>
          \/ UNCHANGED <<req, rec>> /\ (\E s : todo' = [todo EXCEPT ![w] = s])
      BY <1>10 DEF DetachLibvirt, DetachStore, Abort
    <2> QED BY <1>0, <1>3, <1>4, <1>5, <2>1
  <1>11. CASE DeleteLV(w) \/ DeleteRecord(w) \/ ExtendPersist(w)
    BY <1>4, <1>11 DEF DeleteLV, DeleteRecord, ExtendPersist
  <1>12. CASE ExtendLV(w)
    <2>1. UNCHANGED <<req, todo>> /\ pc[w] = "e_lv" /\ (pc'[w] = "e_persist" \/ UNCHANGED rec)
      BY <1>1, <1>12 DEF ExtendLV
    <2> QED BY <1>3, <2>1
  <1>13. CASE ExtendList(w) \/ ExtendResize(w)
    <2>1. UNCHANGED <<req, rec>> /\ (UNCHANGED todo \/ \E s : todo' = [todo EXCEPT ![w] = s])
      BY <1>13 DEF ExtendList, ExtendResize
    <2> QED BY <1>0, <2>1
  <1>14. CASE AttachPick(w) \/ AttachLibvirt(w) \/ AttachPersist(w) \/ AttachUndo(w)
    BY <1>3, <1>4, <1>5, <1>14 DEF AttachPick, AttachLibvirt, AttachPersist, AttachUndo
  <1> QED
    BY <1>6, <1>7, <1>8, <1>9, <1>10, <1>11, <1>12, <1>13, <1>14 DEF Handler

\* Where the attachment a handler works on comes from.
LEMMA HandlerAttachment ==
    ASSUME TypeInv, NEW w \in Workers, Handler(w)
    PROVE  /\ pc'[w] \in {"a_libvirt", "a_persist", "a_undo"} =>
                \/ /\ pc[w] = "a_pick"
                   /\ cur'[w].disk = Disk(w) /\ cur'[w].vm = req[w].vm
                \/ pc[w] \in {"a_libvirt", "a_persist"} /\ cur'[w] = cur[w]
           /\ req[w].op = "detach" /\ pc'[w] = "detach" =>
                /\ atts[<<Disk(w), req[w].vm>>] # None
                /\ todo'[w] = {atts[<<Disk(w), req[w].vm>>]}
           /\ req[w].op = "detach" /\ pc'[w] = "detached" =>
                pc[w] = "detach" /\ cur'[w] \in todo[w]
  <1> USE DEF At
  <1>0. /\ pc \in [Workers -> PCs] /\ todo \in [Workers -> SUBSET AttRec]
        /\ cur \in [Workers -> AttRec \cup {None}]
    BY DEF TypeInv, TypeOK, DiskTypeOK
  <1>1. ASSUME NEW l, Goto(w, l) PROVE pc'[w] = l
    BY <1>0, <1>1 DEF Goto
  <1>2. Return(w) => pc'[w] = "idle"
    BY <1>1 DEF Return
  <1>3. CASE pc'[w] \notin {"a_libvirt", "a_persist", "a_undo", "detach", "detached"}
    BY <1>3
  <1>4. CASE ReadDisk(w)
    BY <1>1, <1>2, <1>3, <1>4 DEF ReadDisk
  <1>5. CASE Acquire(w) \/ AcquireFails(w) \/ AcquireWaited(w) \/ AcquireGivesUp(w) \/ Release(w)
    BY <1>1, <1>2, <1>3, <1>5
    DEF Acquire, AcquireFails, AcquireWaited, AcquireGivesUp, Release, Entry
  <1>6. CASE CreateGet(w) \/ CreateLV(w) \/ CreateHeader(w) \/ CreatePersist(w) \/ CreateUndo(w)
    BY <1>1, <1>3, <1>6 DEF CreateGet, CreateLV, CreateHeader, CreatePersist, CreateUndo
  <1>7. CASE DeleteList(w) \/ DeleteLV(w) \/ DeleteRecord(w)
    <2>1. pc[w] \in {"d_list", "d_lv", "d_record"}
      BY <1>7 DEF DeleteList, DeleteLV, DeleteRecord
    <2>2. req[w].op = "delete"
      BY <2>1 DEF TypeInv, ShapeOK, Shape, OpAt
    <2>3. pc'[w] \in {"d_lv", "detach", "unlock", "d_record"}
      BY <1>1, <1>7 DEF DeleteList, DeleteLV, DeleteRecord
    <2> QED BY <2>2, <2>3
  <1>8. CASE DetachGet(w)
    BY <1>0, <1>1, <1>2, <1>8 DEF DetachGet
  <1>9. CASE DetachLibvirt(w)
    <2>1. \/ pc'[w] \in {"idle", "unlock"}
          \/ pc[w] = "detach" /\ pc'[w] = "detached" /\ \E a \in todo[w] : cur' = [cur EXCEPT ![w] = a]
      BY <1>1, <1>2, <1>9 DEF DetachLibvirt, Abort
    <2> QED BY <1>0, <2>1
  <1>10. CASE DetachStore(w)
    <2>1. pc'[w] \in {"idle", "unlock"} \/ (~Unlocked(req[w].op) /\ pc'[w] \in {"d_lv", "detach"})
      BY <1>1, <1>2, <1>10 DEF DetachStore, Abort
    <2> QED BY <2>1 DEF Unlocked
  <1>11. CASE ExtendLV(w) \/ ExtendPersist(w) \/ ExtendList(w) \/ ExtendResize(w)
    BY <1>1, <1>3, <1>11 DEF ExtendLV, ExtendPersist, ExtendList, ExtendResize
  <1>12. CASE AttachPick(w)
    <2>1. \/ pc'[w] = "idle"
          \/ /\ pc[w] = "a_pick" /\ pc'[w] = "a_libvirt"
             /\ \E t : cur' = [cur EXCEPT ![w] = [disk |-> req[w].disk, vm |-> req[w].vm,
                                                  host |-> Host(w), tgt |-> t]]
      BY <1>1, <1>2, <1>12 DEF AttachPick
    <2> QED BY <1>0, <2>1 DEF Disk
  <1>13. CASE AttachLibvirt(w) \/ AttachPersist(w) \/ AttachUndo(w)
    <2>1. \/ pc'[w] = "idle"
          \/ /\ pc[w] \in {"a_libvirt", "a_persist"} /\ cur' = cur
             /\ pc'[w] \in {"a_persist", "a_undo"}
      BY <1>1, <1>2, <1>13 DEF AttachLibvirt, AttachPersist, AttachUndo, local
    <2> QED BY <2>1
  <1> QED
    BY <1>4, <1>5, <1>6, <1>7, <1>8, <1>9, <1>10, <1>11, <1>12, <1>13 DEF Handler

LEMMA OwnNamesStep ==
    ASSUME TypeInv, TypeInv', AnswerInv, NEW w \in Workers, Handler(w),
           pc'[w] # "idle", call'[w] = call[w]
    PROVE  OwnNames(w)'
  <1>1. /\ OwnNames(w) /\ OpAt(req[w].op, pc[w]) /\ req[w] \in Requests /\ Disk(w) \in Disks
    BY HandlerKnows
  <1>2. req'[w] = req[w] /\ (pc[w] \notin {"get", "e_lv"} => rec'[w] = rec[w])
    BY HandlerLocals
  <1>3. Disk(w)' = Disk(w)
    BY <1>2 DEF Disk
  <1>4. req'[w].op = "create" =>
          call'[w] \in CreateRequests /\ rec'[w] = normaliseCreate(CreateInput(call'[w]))
    BY <1>1, <1>2 DEF OwnNames, OpAt
  <1>5. pc'[w] \in {"a_libvirt", "a_persist", "a_undo"} =>
          cur'[w].disk = Disk(w) /\ cur'[w].vm = req[w].vm
    BY <1>1, HandlerAttachment DEF OwnNames
  <1>6. req[w].op = "detach" /\ pc'[w] = "detach" =>
          \A a \in todo'[w] : a.disk = Disk(w) /\ a.vm = req[w].vm
    <2> SUFFICES ASSUME req[w].op = "detach", pc'[w] = "detach"
                 PROVE  \A a \in todo'[w] : a.disk = Disk(w) /\ a.vm = req[w].vm
      OBVIOUS
    <2>1. req[w].vm \in VMs
      BY <1>1 DEF Requests
    <2>2. PICK k \in Disks \X VMs : k = <<Disk(w), req[w].vm>>
      BY <1>1, <2>1
    <2>3. atts[k] # None /\ todo'[w] = {atts[k]}
      BY <2>2, HandlerAttachment
    <2>4. atts[k].disk = k[1] /\ atts[k].vm = k[2]
      BY <2>3 DEF AnswerInv, KeyedAtts
    <2> QED BY <2>2, <2>3, <2>4
  <1>7. req[w].op = "detach" /\ pc'[w] = "detached" =>
          cur'[w].disk = Disk(w) /\ cur'[w].vm = req[w].vm
    BY <1>1, HandlerAttachment DEF OwnNames
  <1> QED BY <1>2, <1>3, <1>4, <1>5, <1>6, <1>7 DEF OwnNames

\* What a step does to the account of a worker whose locals it leaves alone.
LEMMA BystanderAnswer ==
    ASSUME TypeInv, AnswerInv, Watch, NEW v \in Workers,
           pc'[v] = pc[v], req'[v] = req[v], rec'[v] = rec[v], cur'[v] = cur[v],
           todo'[v] = todo[v], call'[v] = call[v], err'[v] = err[v]
    PROVE  IF pc'[v] = "idle" THEN err'[v] = "none" ELSE (OwnNames(v) /\ Account(v))'
  <1>1. CASE pc[v] = "idle"
    BY <1>1 DEF AnswerInv
  <1>2. CASE pc[v] # "idle"
    <2>1. OwnNames(v) /\ Account(v) /\ req[v] \in Requests
      BY <1>2 DEF AnswerInv, TypeInv, ShapeOK, Shape
    <2>2. OwnNames(v)'
      BY <2>1 DEF OwnNames, Disk
    <2>3. saw'[v] = saw[v] \cup Named(req[v], disks', atts')
      BY <2>1, NoneAssumption DEF Watch
    <2>4. SaysOf(v, err[v], saw[v])'
      <3>1. SaysOf(v, err[v], saw'[v])
        BY <2>1, <2>3, SaysGrows DEF Account
      <3> QED BY <3>1 DEF SaysOf
    <2>5. (pc[v] = "unlock" /\ err[v] = "none" => DoneOf(v, saw[v]))'
      <3>1. pc[v] = "unlock" /\ err[v] = "none" => DoneOf(v, saw'[v])
        BY <2>1, <2>3, DoneGrows DEF Account
      <3> QED BY <3>1 DEF DoneOf
    <2>6. (pc[v] \in {"e_list", "e_resize"} => DiskWas(saw[v], rec[v]))'
      BY <2>1, <2>3 DEF Account, DiskWas
    <2>7. (Named(req[v], disks, atts) \subseteq saw[v])'
      BY <2>3
    <2>8. (pc[v] \in {"c_undo", "a_undo"} => err[v] # "none")'
      BY <2>1 DEF Account
    <2>9. Account(v)'
      BY <2>4, <2>5, <2>6, <2>7, <2>8 DEF Account
    <2> QED BY <1>2, <2>2, <2>9
  <1> QED BY <1>1, <1>2

\* A step of w's handler, for w itself.
LEMMA OwnAnswer ==
    ASSUME TypeInv, TypeInv', AnswerInv, NEW w \in Workers, RpcStep(w), pc'[w] # "idle"
    PROVE  (OwnNames(w) /\ Account(w))'
  <1>0. err \in [Workers -> {"none", "other", "ErrNotFound", "ErrAlreadyExists"}]
    BY DEF AnswerInv, ServerTypes
  <1>1. PICK e \in ErrorsLeft(w) : err' = [err EXCEPT ![w] = e] /\ UNCHANGED call
    BY DEF RpcStep
  <1>2. Handler(w) /\ Watch
    BY DEF RpcStep
  <1>3. OwnNames(w)'
    BY <1>1, <1>2, OwnNamesStep
  <1>4. Fine(w, e) /\ err'[w] = e
    BY <1>0, <1>1, <1>2, StepAccounts
  <1>5. /\ req'[w] = req[w]
        /\ pc'[w] \in {"unlock", "e_list", "e_resize"} => rec'[w] = rec[w]
    BY <1>2, HandlerLocals
  <1>6. req[w] \in Requests
    BY <1>2, HandlerKnows
  <1>7. saw'[w] = After(w)
    BY <1>2, <1>5, <1>6, NoneAssumption DEF Watch, After
  <1>8. OpAt(req[w].op, pc'[w])
    BY <1>5 DEF TypeInv, ShapeOK, Shape
  <1>9. SaysOf(w, err[w], saw[w])'
    BY <1>4, <1>5, <1>7 DEF Fine, SaysOf
  <1>10. (pc[w] = "unlock" /\ err[w] = "none" => DoneOf(w, saw[w]))'
    <2> SUFFICES ASSUME pc'[w] = "unlock", e = "none" PROVE DoneOf(w, saw[w])'
      BY <1>4
    <2>1. DoneOf(w, After(w))
      BY <1>4 DEF Fine
    <2>2. req[w].op \notin {"attach", "detach"}
      BY <1>8 DEF OpAt
    <2> QED BY <1>5, <1>7, <2>1, <2>2 DEF DoneOf
  <1>11. (pc[w] \in {"e_list", "e_resize"} => DiskWas(saw[w], rec[w]))'
    BY <1>4, <1>5, <1>7 DEF Fine
  <1>12. (pc[w] \in {"c_undo", "a_undo"} => err[w] # "none")'
    BY <1>4 DEF Fine
  <1>13. (Named(req[w], disks, atts) \subseteq saw[w])'
    BY <1>5, <1>7 DEF After
  <1> QED BY <1>3, <1>9, <1>10, <1>11, <1>12, <1>13 DEF Account

\* A call that begins has seen what its request names and has no error.
LEMMA CallAnswer ==
    ASSUME TypeInv, TypeInv', AnswerInv, NEW w \in Workers, RpcCreate(w) \/ RpcNamed(w)
    PROVE  (OwnNames(w) /\ Account(w))' /\ pc'[w] # "idle" /\ err'[w] = "none"
  <1>0. /\ pc \in [Workers -> PCs] /\ rec \in [Workers -> DiskRec \cup {None}]
        /\ call \in [Workers -> CreateRequests \cup {None}]
    BY DEF TypeInv, TypeOK, DiskTypeOK, AnswerInv, ServerTypes
  <1>1. Watch /\ pc[w] = "idle" /\ UNCHANGED err
    BY DEF RpcCreate, RpcNamed, Ready, At
  <1>2. err'[w] = "none"
    BY <1>1 DEF AnswerInv
  <1>3. CASE RpcCreate(w)
    <2>1. pc'[w] = "lock"
      BY <1>0, <1>3 DEF RpcCreate, CallCreate, Goto
    <2>2. call'[w] \in CreateRequests /\ rec'[w] = normaliseCreate(CreateInput(call'[w]))
      BY <1>0, <1>3 DEF RpcCreate
    <2>3. req'[w] \in Requests /\ req'[w].op # "detach"
      BY <2>1 DEF TypeInv, ShapeOK, Shape, OpAt
    <2>4. OwnNames(w)'
      BY <2>1, <2>2, <2>3 DEF OwnNames
    <2>5. saw'[w] = saw[w] \cup Named(req'[w], disks', atts')
      BY <1>1, <2>3, NoneAssumption DEF Watch
    <2>6. Account(w)'
      BY <1>2, <2>1, <2>5 DEF Account, SaysOf
    <2> QED BY <1>2, <2>1, <2>4, <2>6
  <1>4. CASE RpcNamed(w)
    <2>1. pc'[w] = "get"
      BY <1>0, <1>4 DEF RpcNamed, CallNamed, Goto
    <2>2. req'[w] \in Requests /\ req'[w].op # "create"
      BY <2>1 DEF TypeInv, ShapeOK, Shape, OpAt
    <2>3. OwnNames(w)'
      BY <2>1, <2>2 DEF OwnNames
    <2>4. saw'[w] = saw[w] \cup Named(req'[w], disks', atts')
      BY <1>1, <2>2, NoneAssumption DEF Watch
    <2>5. Account(w)'
      BY <1>2, <2>1, <2>4 DEF Account, SaysOf
    <2> QED BY <1>2, <2>1, <2>3, <2>5
  <1> QED BY <1>3, <1>4

LEMMA ServerTypesStep ==
    ASSUME TypeInv, AnswerInv, [ServerNext]_svars PROVE ServerTypes'
  <1>0. /\ call \in [Workers -> CreateRequests \cup {None}]
        /\ err \in [Workers -> {"none", "other", "ErrNotFound", "ErrAlreadyExists"}]
        /\ DOMAIN saw = Workers
    BY DEF AnswerInv, ServerTypes
  <1>1. CASE UNCHANGED <<call, err, saw>>
    BY <1>0, <1>1 DEF ServerTypes
  <1>2. CASE UNCHANGED svars
    BY <1>1, <1>2 DEF svars, serverVars
  <1>3. CASE Elsewhere
    BY <1>0, <1>3 DEF Elsewhere, Watch, ServerTypes
  <1>4. ASSUME NEW w \in Workers, RpcCreate(w) PROVE ServerTypes'
    <2>1. /\ \E q \in CreateRequests : call' = [call EXCEPT ![w] = q]
          /\ UNCHANGED err /\ Watch
      BY <1>4 DEF RpcCreate
    <2> QED BY <1>0, <2>1 DEF Watch, ServerTypes
  <1>5. ASSUME NEW w \in Workers, RpcNamed(w) PROVE ServerTypes'
    BY <1>0, <1>5 DEF RpcNamed, Watch, ServerTypes
  <1>6. ASSUME NEW w \in Workers, RpcStep(w) PROVE ServerTypes'
    <2>1. /\ \E e \in ErrorsLeft(w) \cup {"none"} : err' = [err EXCEPT ![w] = e]
          /\ UNCHANGED call \/ call' = [call EXCEPT ![w] = None]
          /\ Handler(w) /\ Watch
      BY <1>6 DEF RpcStep
    <2>2. ErrorsLeft(w) \subseteq {"none", "other", "ErrNotFound", "ErrAlreadyExists"}
      BY <2>1, StepAccounts DEF Fine
    <2> QED BY <1>0, <2>1, <2>2 DEF Watch, ServerTypes
  <1> QED BY <1>1, <1>2, <1>3, <1>4, <1>5, <1>6, ReadsTouchNothing DEF ServerNext

LEMMA AnswerInvStep ==
    ASSUME TypeInv, TypeInv', AnswerInv, [ServerNext]_svars PROVE AnswerInv'
  <1> DEFINE Good(v) == IF pc[v] = "idle" THEN err[v] = "none" ELSE OwnNames(v) /\ Account(v)
  <1>0. ServerTypes' /\ KeyedAtts'
    BY ServerTypesStep, ServerStepIsNext, KeyedStep DEF AnswerInv
  <1>1. SUFFICES \A v \in Workers : Good(v)'
    BY <1>0 DEF AnswerInv
  <1>2. \A v \in Workers : Good(v)
    BY DEF AnswerInv
  <1>3. CASE UNCHANGED <<vars, call, err, saw>>
    <2>1. UNCHANGED <<disks, atts, pc, req, rec, cur, todo, call, err, saw>>
      BY <1>3 DEF vars, diskVars
    <2>2. ASSUME NEW v \in Workers PROVE Good(v)'
      <3>1. OwnNames(v)' = OwnNames(v)
        BY <2>1 DEF OwnNames, Disk
      <3>2. Account(v)' = Account(v)
        BY <2>1 DEF Account, SaysOf, DoneOf
      <3> QED BY <1>2, <2>1, <3>1, <3>2
    <2> QED BY <2>2
  <1>4. CASE Elsewhere
    <2>1. UNCHANGED <<pc, req, rec, cur, todo, call, err>> /\ Watch
      BY <1>4 DEF Elsewhere, CancelCtx, diskVars
    <2> QED BY <2>1, BystanderAnswer
  <1>5. ASSUME NEW w \in Workers, RpcCreate(w) \/ RpcNamed(w) PROVE \A v \in Workers : Good(v)'
    <2>1. /\ Watch /\ UNCHANGED <<err, todo>> /\ OnlyLocal(w)
          /\ \A v \in Workers : v # w => call'[v] = call[v]
      BY <1>5, StepIsLocal DEF RpcCreate, RpcNamed, CallCreate, CallNamed, AnswerInv, ServerTypes
    <2>2. \A v \in Workers : v # w => Good(v)'
      BY <2>1, BystanderAnswer DEF OnlyLocal
    <2>3. Good(w)'
      BY <1>5, CallAnswer
    <2> QED BY <2>2, <2>3
  <1>6. ASSUME NEW w \in Workers, RpcStep(w) PROVE \A v \in Workers : Good(v)'
    <2>1. Handler(w) /\ Watch
      BY <1>6 DEF RpcStep
    <2>2. OnlyLocal(w) /\ \A v \in Workers : v # w => todo'[v] = todo[v]
      BY <2>1, StepIsLocal, HandlerLocals
    <2>3. \A v \in Workers : v # w => call'[v] = call[v] /\ err'[v] = err[v]
      BY <1>6 DEF RpcStep, AnswerInv, ServerTypes
    <2>4. \A v \in Workers : v # w => Good(v)'
      BY <2>1, <2>2, <2>3, BystanderAnswer DEF OnlyLocal
    <2>5. pc'[w] = "idle" => err'[w] = "none"
      BY <1>6 DEF RpcStep, AnswerInv, ServerTypes
    <2>6. Good(w)'
      BY <1>6, <2>5, OwnAnswer
    <2> QED BY <2>4, <2>6
  <1>7. CASE UNCHANGED svars
    BY <1>3, <1>7 DEF svars, serverVars
  <1> QED BY <1>3, <1>4, <1>5, <1>6, <1>7, ReadsTouchNothing DEF ServerNext

\* The answers are judged by exactly what the account holds.
LEMMA SeenIsSeen ==
    ASSUME NEW w, NEW x
    PROVE  /\ DiskWas(After(w), x) => x \in DiskSeen(w)
           /\ Unlocked(req[w].op) /\ AttWas(After(w), x) => x \in AttSeen(w)
  <1>1. DiskWas(saw[w], x) => x \in DiskSeen(w)
    BY DEF DiskWas, DiskSeen
  <1>2. AttWas(saw[w], x) => x \in AttSeen(w)
    BY DEF AttWas, AttSeen
  <1>3. [disk |-> x] \in Named(req[w], disks', atts') => x = disks'[Disk(w)]
    BY DEF Named, Disk
  <1>4. [att |-> x] \in Named(req[w], disks', atts') => x = atts'[<<Disk(w), req[w].vm>>]
    BY DEF Named, Disk
  <1> QED BY <1>1, <1>2, <1>3, <1>4 DEF After, DiskWas, AttWas, DiskSeen, AttSeen

\* normaliseCreate fills gaps, it overrides nothing the client has said.
LEMMA KeepsRequest ==
    ASSUME NEW d, NEW q \in CreateRequests
    PROVE  AsRequested(q, diskToProto(d, normaliseCreate(CreateInput(q))))
  <1>1. q \in [vg : VGs \cup {NoVG}, mode : Modes, size : Nat, virt : Nat]
    BY ServerAssumption
  <1>2. /\ CreateInput(q).vg = q.vg /\ CreateInput(q).size = q.size
        /\ CreateInput(q).virt = q.virt /\ CreateInput(q).mode = modeFromProto(q.mode)
    BY <1>1 DEF CreateInput
  <1>3. PICK in : in = CreateInput(q)
    OBVIOUS
  <1>4. NormVG(in) = IF q.vg = NoVG THEN DefaultVG ELSE q.vg
    BY <1>2, <1>3 DEF NormVG
  <1>5. NormMode(in) = IF q.mode = 2 THEN "thin" ELSE "thick"
    BY <1>1, <1>2, <1>3 DEF NormMode, modeFromProto
  <1>6. q.size # 0 => NormSize(in) = q.size
    BY <1>2, <1>3 DEF NormSize
  <1>7. q.virt # 0 => NormVirt(in) = q.virt
    BY <1>2, <1>3 DEF NormVirt
  <1> QED BY <1>3, <1>4, <1>5, <1>6, <1>7 DEF AsRequested, diskToProto, normaliseCreate, modeToProto

LEMMA AnswerTruthful ==
    ASSUME TypeInv, AnswerInv, NEW w \in Workers, Handler(w), pc'[w] = "idle",
           NEW e \in ErrorsLeft(w), NEW a, a.code = toGRPCError(e),
           a.body = IF e = "none" THEN Body(w) ELSE None
    PROVE  Truthful(w, a)
  <1>1. /\ e \in {"none", "other", "ErrNotFound", "ErrAlreadyExists"}
        /\ SaysOf(w, e, After(w)) /\ (e = "none" => DoneOf(w, After(w)))
    BY StepAccounts DEF Fine
  <1>2. /\ OwnNames(w) /\ OpAt(req[w].op, pc[w]) /\ req[w] \in Requests
    BY HandlerKnows
  <1>3. req[w].op \in {"create", "delete", "extend", "attach", "detach"}
    BY <1>2 DEF Requests
  <1>4. e = "none" => pc[w] \notin {"get", "a_pick"} /\ pc[w] # "idle"
    <2>1. pc[w] # "idle"
      BY HandlerIsBusy
    <2>2. pc[w] \in {"get", "a_pick"} => pc'[w] \in FailsTo[pc[w]]
      BY FailsToFacts
    <2>3. pc[w] \in {"get", "a_pick"} => e # "none"
      BY <2>2 DEF ErrorsLeft, Refusal
    <2> QED BY <2>1, <2>3
  <1>5. CASE e = "none"
    <2>1. a.code = "OK" /\ a.body = Body(w)
      BY <1>5 DEF toGRPCError
    <2>2. CASE req[w].op \in {"create", "extend"}
      <3>1. rec[w] \in DiskSeen(w)
        BY <1>1, <1>5, <2>2, SeenIsSeen DEF DoneOf
      <3>2. rec[w] \in DiskRec
        BY <1>5, <1>4 DEF TypeInv, ShapeOK, Shape
      <3>3. a.body = diskToProto(Disk(w), rec[w])
        BY <2>1, <2>2 DEF Body
      <3>4. \E r \in DiskSeen(w) \ {None} : a.body = diskToProto(Disk(w), r)
        BY <3>1, <3>2, <3>3, NoneAssumption
      <3>5. req[w].op = "create" => AsRequested(call[w], a.body)
        BY <1>2, <3>3, KeepsRequest DEF OwnNames
      <3> QED BY <2>1, <2>2, <3>4, <3>5 DEF Truthful
    <2>3. CASE req[w].op = "delete"
      <3>1. None \in DiskSeen(w)
        BY <1>1, <1>5, <2>3, SeenIsSeen DEF DoneOf
      <3> QED BY <2>1, <2>3, <3>1 DEF Truthful
    <2>4. CASE req[w].op = "attach"
      <3>1. cur[w] \in AttSeen(w)
        BY <1>1, <1>5, <2>4, SeenIsSeen DEF DoneOf, Unlocked
      <3>2. cur[w] \in AttRec
        BY <1>2, <1>5, <1>4, <2>4 DEF TypeInv, ShapeOK, Shape, OpAt
      <3>3. a.body = attachmentToProto(cur[w])
        BY <2>1, <2>4 DEF Body
      <3>4. \E r \in AttSeen(w) \ {None} : a.body = attachmentToProto(r)
        BY <3>1, <3>2, <3>3, NoneAssumption
      <3> QED BY <2>1, <2>4, <3>4 DEF Truthful
    <2>5. CASE req[w].op = "detach"
      <3>1. None \in AttSeen(w)
        BY <1>1, <1>5, <2>5, SeenIsSeen DEF DoneOf, Unlocked
      <3> QED BY <2>1, <2>5, <3>1 DEF Truthful
    <2> QED BY <1>3, <2>2, <2>3, <2>4, <2>5
  <1>6. CASE e = "ErrNotFound"
    <2>1. a.code = "NOT_FOUND"
      BY <1>6 DEF toGRPCError
    <2>2. None \in DiskSeen(w) \/ (req[w].op = "detach" /\ None \in AttSeen(w))
      BY <1>1, <1>6, SeenIsSeen DEF SaysOf, Unlocked
    <2> QED BY <2>1, <2>2 DEF Truthful
  <1>7. CASE e = "ErrAlreadyExists"
    <2>1. a.code = "ALREADY_EXISTS"
      BY <1>7 DEF toGRPCError
    <2>2. CASE req[w].op = "attach"
      <3>1. \E r \in AttRec : r \in AttSeen(w)
        BY <1>1, <1>7, <2>2, SeenIsSeen DEF SaysOf, Unlocked
      <3>2. AttSeen(w) # {None}
        BY <3>1, NoneAssumption
      <3> QED BY <2>1, <2>2, <3>2 DEF Truthful
    <2>3. CASE req[w].op # "attach"
      <3>1. \E r \in DiskRec : r \in DiskSeen(w)
        BY <1>1, <1>7, <2>3, SeenIsSeen DEF SaysOf
      <3>2. DiskSeen(w) # {None}
        BY <3>1, NoneAssumption
      <3> QED BY <2>1, <2>3, <3>2 DEF Truthful
    <2> QED BY <2>2, <2>3
  <1>8. CASE e = "other"
    <2>1. a.code = "INTERNAL"
      BY <1>8 DEF toGRPCError
    <2> QED BY <2>1 DEF Truthful
  <1> QED BY <1>1, <1>5, <1>6, <1>7, <1>8

LEMMA ServerStepTruthful ==
    ASSUME TypeInv, AnswerInv, [ServerNext]_svars, NEW w \in Workers,
           pc[w] # "idle", pc'[w] = "idle"
    PROVE  Truthful(w, answer')
  <1>1. ASSUME UNCHANGED pc PROVE FALSE
    BY <1>1
  <1>2. ~UNCHANGED svars /\ ~Elsewhere
    BY <1>1 DEF svars, vars, diskVars, Elsewhere, CancelCtx
  <1>3. PICK v \in Workers :
            \/ RpcCreate(v) \/ RpcNamed(v) \/ RpcRefused(v) \/ RpcStep(v)
            \/ RpcRead(v) \/ RpcNodeStatus(v)
            \/ RpcClusterStatus(v) \/ RpcClusterStatusEnds(v)
    BY <1>2 DEF ServerNext
  <1>4. RpcCreate(v) \/ RpcNamed(v) \/ RpcStep(v)
    BY <1>1, <1>3, ReadsTouchNothing DEF vars, diskVars
  <1>5. v = w
    BY <1>4, StepIsLocal DEF OnlyLocal, RpcCreate, RpcNamed, RpcStep
  <1>6. RpcStep(w)
    BY <1>4, <1>5 DEF RpcCreate, RpcNamed, Ready, At
  <1>7. PICK e \in ErrorsLeft(w) :
            answer' = [to |-> w, req |-> req[w], code |-> toGRPCError(e),
                       body |-> IF e = "none" THEN Body(w) ELSE None]
    BY <1>6 DEF RpcStep
  <1>8. Handler(w)
    BY <1>6 DEF RpcStep
  <1> QED BY <1>7, <1>8, AnswerTruthful

\* Whatever other clients, daemons, etcd and the tools do, an answer is true of
\* a moment of the call: the disk or attachment of an OK was in the catalog (or
\* gone from it), and NOT_FOUND and ALREADY_EXISTS (toGRPCError) never stand for
\* a failing store.
THEOREM AnswersAreTrue == ServerSpec => AnswersTrue
  <1>1. ServerInit => TypeInv /\ AnswerInv
    <2> SUFFICES ASSUME ServerInit PROVE TypeInv /\ AnswerInv
      OBVIOUS
    <2>1. TypeInv
      BY TypeInvInit DEF ServerInit
    <2>2. ServerTypes /\ KeyedAtts
      BY DEF ServerInit, Init, DiskInit, ServerTypes, KeyedAtts
    <2>3. \A w \in Workers : pc[w] = "idle" /\ err[w] = "none"
      BY DEF ServerInit, Init, DiskInit
    <2> QED BY <2>1, <2>2, <2>3 DEF AnswerInv
  <1>2. TypeInv /\ AnswerInv /\ [ServerNext]_svars => TypeInv' /\ AnswerInv'
    BY ServerStepIsNext, TypeInvStep, AnswerInvStep
  <1>3. TypeInv /\ AnswerInv /\ [ServerNext]_svars =>
          [\A w \in Workers :
              pc[w] # "idle" /\ pc'[w] = "idle" /\ Runs(w) => Truthful(w, answer')]_svars
    BY ServerStepTruthful
  <1> QED BY <1>1, <1>2, <1>3, PTL DEF ServerSpec, AnswersTrue

-----------------------------------------------------------------------------
(* The manager acts on samples that are true.                               *)

\* Each daemon has one manager, and clients leave growing disks to it.
OneManagerPerNode == \A v, w \in Managers : NodeOf[v] = NodeOf[w] => v = w
ManagersExtend == OneManagerPerNode /\ "extend" \notin ClientOps

\* A disk is in use on one host at a time, as an image without a cluster file
\* system must be.
OneHostPerDisk ==
    \A j, k \in Disks \X VMs :
        atts[j] # None /\ atts[k] # None /\ j[1] = k[1] => atts[j].host = atts[k].host

OneUp ==
    \A m, n \in Nodes : up[m] = "up" /\ up[n] = "up" /\ HostOf[m] = HostOf[n] => m = n

\* a is an attachment of w's host
Mine(w, a) == a.host = Host(w) /\ atts[<<a.disk, a.vm>>] = a

\* s is what the guest of disk d has touched, or what it had some time ago, of
\* the volume as it is.
SampleTrue(s, d) ==
    /\ disks[d] # None
    /\ s.phys = lvs[VolumeOf(d)].size
    /\ s.alloc =< alloc[VolumeOf(d)]

\* the attachments of the sampled domain that w has still to look at
Waiting(w) == {a \in left[w] : a.vm = vmOf[w]}

SamplesTrue(w) ==
    \A a \in Waiting(w) : stats[w][a.tgt] # None => SampleTrue(stats[w][a.tgt], a.disk)

\* d is short of space as it is.
ShortNow(d) ==
    /\ disks[d] # None
    /\ BelowThreshold([phys |-> lvs[VolumeOf(d)].size, alloc |-> alloc[VolumeOf(d)]])

\* A manager inside ExtendByPercent: the disk is one of its host's, the tick
\* has no more to do with it, and until lvextend it is still short of space.
Extending(w) ==
    /\ req[w].op = "extend"
    /\ \E k \in Disks \X VMs : atts[k] # None /\ k[1] = Disk(w) /\ atts[k].host = Host(w)
    /\ \A b \in Waiting(w) : b.disk # Disk(w)
    /\ Runs(w) /\ pc[w] \in {"get", "lock", "wait", "e_lv"} => ShortNow(Disk(w))

Managed(w) ==
    /\ up[NodeOf[w]] = "new" => tick[w] = "wait"
    /\ \A a \in left[w] : Mine(w, a)
    /\ Runs(w) /\ tick[w] \in {"inspect", "extend"} => SamplesTrue(w)
    /\ pc[w] # "idle" => Extending(w)

SampleInv ==
    /\ AttachInv /\ PlaceInv /\ KeyedAtts /\ OneUp
    /\ \A w \in Workers \ Managers : pc[w] # "idle" => req[w].op # "extend"
    /\ \A w \in Managers : Managed(w)

\* A volume that was short of space is so when its guest has touched more.
LEMMA BelowMonotone ==
    ASSUME NEW p \in Nat, NEW a \in Nat, NEW b \in Nat, a =< b,
           BelowThreshold([phys |-> p, alloc |-> a])
    PROVE  BelowThreshold([phys |-> p, alloc |-> b])
  <1>1. ASSUME NEW c \in Nat PROVE Min({c, p}) = IF c =< p THEN c ELSE p
    <2>1. PICK m : m = IF c =< p THEN c ELSE p
      OBVIOUS
    <2>2. m \in {c, p} /\ \A y \in {c, p} : m =< y
      BY <2>1
    <2>3. \A x \in {c, p} : (\A y \in {c, p} : x =< y) => x = m
      BY <2>2
    <2>4. Min({c, p}) = m
      BY <2>2, <2>3 DEF Min
    <2> QED BY <2>1, <2>4
  <1>2. Threshold \in Nat
    BY ThinAssumption
  <1>3. p > 0 /\ 100 * (p - Min({a, p})) < Threshold * p
    BY DEF BelowThreshold
  <1>4. Min({b, p}) \in Nat /\ Min({a, p}) \in Nat /\ Min({a, p}) =< Min({b, p})
    BY <1>1
  <1>5. PICK t \in Int : t = Threshold * p
    BY <1>2
  <1>6. 100 * (p - Min({b, p})) < Threshold * p
    BY <1>3, <1>4, <1>5
  <1> QED BY <1>3, <1>6 DEF BelowThreshold

\* A step is one of a worker, or leaves the service's state alone.
LEMMA ThinSteps ==
    ASSUME ThinTypeOK, [ThinNext]_tvars
    PROVE  \/ UNCHANGED diskVars
           \/ \E u \in Workers : CallCreate(u) \/ CallNamed(u) \/ CancelCtx(u) \/ Handler(u)
  BY ThinStepIsNext DEF Next, vars

LEMMA AttsKept ==
    ASSUME OnlyAttaches, TypeInv, ThinTypeOK, AttachInv, PlaceInv, [ThinNext]_tvars,
           NEW k \in Disks \X VMs, atts[k] # None
    PROVE  atts'[k] = atts[k]
  <1>1. CASE UNCHANGED diskVars
    BY <1>1 DEF diskVars
  <1>2. ASSUME NEW u \in Workers, CallCreate(u) \/ CallNamed(u) \/ CancelCtx(u) \/ Handler(u)
        PROVE  atts'[k] = atts[k]
    BY <1>2, StepMoves DEF Moves
  <1> QED BY <1>1, <1>2, ThinSteps

\* A recorded disk keeps its volume, and what the guest has touched of it only
\* grows.
LEMMA DisksKept ==
    ASSUME OnlyAttaches, TypeInv, ThinTypeOK, AttachInv, PlaceInv, [ThinNext]_tvars,
           NEW d \in Disks, disks[d] # None
    PROVE  /\ disks'[d] # None /\ VolumeOf(d)' = VolumeOf(d) /\ VolumeOf(d) \in Volumes
           /\ lvs[VolumeOf(d)] \in LVRec /\ lvs[VolumeOf(d)] # None
           /\ lvs'[VolumeOf(d)] \in LVRec /\ lvs'[VolumeOf(d)] # None
           /\ alloc'[VolumeOf(d)] \in Nat /\ alloc[VolumeOf(d)] =< alloc'[VolumeOf(d)]
  <1>0. TypeInv' /\ PlaceInv' /\ ThinTypeOK'
    BY ThinStepIsNext, TypeInvStep, PlaceInvStep, ThinTypeStep
  <1>1. disks'[d] # None /\ disks'[d].vg = disks[d].vg
    <2>1. CASE UNCHANGED diskVars
      BY <2>1 DEF diskVars
    <2>2. ASSUME NEW u \in Workers, CallCreate(u) \/ CallNamed(u) \/ CancelCtx(u) \/ Handler(u)
          PROVE  disks'[d] # None /\ disks'[d].vg = disks[d].vg
      BY <2>2, StepMoves DEF Moves
    <2> QED BY <2>1, <2>2, ThinSteps
  <1>2. VolumeOf(d)' = VolumeOf(d)
    BY <1>1 DEF VolumeOf
  <1>3. VolumeOf(d) \in Volumes
    BY DEF VolumeOf, Volumes, TypeInv, TypeOK, DiskTypeOK, DiskRec
  <1>4. lvs[VolumeOf(d)] # None /\ lvs'[VolumeOf(d)] # None
    BY <1>0, <1>1, <1>2 DEF PlaceInv
  <1>5. lvs[VolumeOf(d)] \in LVRec /\ lvs'[VolumeOf(d)] \in LVRec
    BY <1>0, <1>3, <1>4 DEF TypeInv, TypeOK, DiskTypeOK, Volumes
  <1>6. alloc[VolumeOf(d)] \in Nat /\ alloc'[VolumeOf(d)] \in Nat
    BY <1>0, <1>3 DEF ThinTypeOK
  <1>7. alloc[VolumeOf(d)] =< alloc'[VolumeOf(d)]
    <2>1. CASE ServiceStep
      <3>1. alloc'[VolumeOf(d)] = alloc[VolumeOf(d)]
        BY <1>3, <1>4, <2>1 DEF ServiceStep, Tracks
      <3> QED BY <1>6, <3>1
    <2>2. CASE UNCHANGED alloc
      BY <1>6, <2>2
    <2>3. ASSUME NEW v \in Volumes, GuestWrite(v) PROVE alloc[VolumeOf(d)] =< alloc'[VolumeOf(d)]
      <3>1. alloc' = [alloc EXCEPT ![v] = @ + 1]
        BY <2>3 DEF GuestWrite
      <3>2. alloc'[VolumeOf(d)] = alloc[VolumeOf(d)] \/ alloc'[VolumeOf(d)] = alloc[VolumeOf(d)] + 1
        BY <1>3, <3>1 DEF ThinTypeOK
      <3> QED BY <1>6, <3>2
    <2> QED BY <2>1, <2>2, <2>3
            DEF ThinNext, ManagerStep, TickList, TickSample, TickInspect, TickExtended, tvars, thinVars
  <1> QED BY <1>1, <1>2, <1>3, <1>4, <1>5, <1>6, <1>7

\* Only a manager's lvextend changes the size of a volume, and the volume is
\* that of the disk it extends.
LEMMA ManagersGrow ==
    ASSUME OnlyAttaches, TypeInv, ThinTypeOK, SampleInv, [ThinNext]_tvars,
           NEW v \in Volumes, lvs[v] # None, lvs'[v] # None, lvs'[v].size # lvs[v].size
    PROVE  \E u \in Managers :
              /\ Handler(u) /\ Runs(u) /\ pc[u] = "e_lv" /\ pc'[u] # "e_lv"
              /\ Disk(u) \in Disks /\ disks[Disk(u)] # None /\ v = VolumeOf(Disk(u))
  <1>1. ~UNCHANGED diskVars
    BY DEF diskVars
  <1>2. PICK u \in Workers : CallCreate(u) \/ CallNamed(u) \/ CancelCtx(u) \/ Handler(u)
    BY <1>1, ThinSteps
  <1>3. pc[u] = "e_lv" /\ pc'[u] # "e_lv" /\ v = LV(u)
    BY <1>2, StepMoves DEF SampleInv, Moves, Volumes
  <1>4. Handler(u) /\ Runs(u)
    BY <1>2, <1>3, WorkerRuns DEF CallCreate, CallNamed, CancelCtx, At
  <1>5. req[u].op = "extend" /\ Disk(u) \in Disks
    BY <1>3, WorkerType DEF TypeInv, ShapeOK, Shape, OpAt
  <1>6. u \in Managers
    BY <1>3, <1>5 DEF SampleInv
  <1>7. disks[Disk(u)] # None /\ disks[Disk(u)].vg = rec[u].vg
    BY <1>3, <1>5 DEF SampleInv, PlaceInv, Placed, HoldsCopy, Recorded
  <1> QED BY <1>3, <1>4, <1>5, <1>6, <1>7 DEF LV, VolumeOf

\* Two managers that run and have a disk in common are one.
LEMMA ManagersApart ==
    ASSUME OneManagerPerNode, OneHostPerDisk, OneUp, NEW u \in Managers, NEW w \in Managers,
           Runs(u), Runs(w), NEW j \in Disks \X VMs, NEW k \in Disks \X VMs, j[1] = k[1],
           atts[j] # None, atts[j].host = Host(u), atts[k] # None, atts[k].host = Host(w)
    PROVE  u = w
  <1>1. NodeOf[u] \in Nodes /\ NodeOf[w] \in Nodes
    BY ThinAssumption, LockAssumption
  <1>2. HostOf[NodeOf[u]] = HostOf[NodeOf[w]]
    BY DEF OneHostPerDisk, Host
  <1>3. NodeOf[u] = NodeOf[w]
    BY <1>1, <1>2 DEF OneUp, Runs
  <1> QED BY <1>3 DEF OneManagerPerNode

\* The volume of a disk in use on w's host keeps its size in every step but
\* w's own lvextend.
LEMMA SizeKept ==
    ASSUME OnlyAttaches, OneManagerPerNode, OneHostPerDisk, TypeInv, ThinTypeOK, SampleInv,
           [ThinNext]_tvars, NEW w \in Managers, Runs(w), NEW k \in Disks \X VMs,
           atts[k] # None, atts[k].host = Host(w), disks[k[1]] # None,
           k[1] = Disk(w) => ~(pc[w] = "e_lv" /\ pc'[w] # "e_lv")
    PROVE  lvs'[VolumeOf(k[1])].size = lvs[VolumeOf(k[1])].size
  <1>1. PICK d \in Disks : d = k[1]
    OBVIOUS
  <1>2. PICK v \in Volumes : v = VolumeOf(d) /\ lvs[v] # None /\ lvs'[v] # None
    BY <1>1, DisksKept DEF SampleInv
  <1> SUFFICES ASSUME lvs'[v].size # lvs[v].size PROVE FALSE
    BY <1>1, <1>2
  <1>3. PICK u \in Managers :
            /\ Runs(u) /\ pc[u] = "e_lv" /\ pc'[u] # "e_lv" /\ Disk(u) \in Disks
            /\ v = VolumeOf(Disk(u))
    BY <1>2, ManagersGrow
  <1>4. Disk(u) = d
    BY <1>2, <1>3 DEF VolumeOf
  <1>5. PICK j \in Disks \X VMs : atts[j] # None /\ j[1] = d /\ atts[j].host = Host(u)
    BY <1>3, <1>4 DEF SampleInv, Managed, Extending
  <1>6. u = w
    BY <1>1, <1>3, <1>5, ManagersApart DEF SampleInv
  <1> QED BY <1>1, <1>3, <1>4, <1>6

LEMMA SampleKept ==
    ASSUME OnlyAttaches, TypeInv, ThinTypeOK, AttachInv, PlaceInv, [ThinNext]_tvars,
           NEW d \in Disks, NEW s \in BlockStats, SampleTrue(s, d),
           lvs'[VolumeOf(d)].size = lvs[VolumeOf(d)].size
    PROVE  SampleTrue(s, d)'
  <1>1. disks[d] # None /\ s.phys = lvs[VolumeOf(d)].size /\ s.alloc =< alloc[VolumeOf(d)]
    BY DEF SampleTrue
  <1>2. /\ disks'[d] # None /\ VolumeOf(d)' = VolumeOf(d) /\ VolumeOf(d) \in Volumes
        /\ alloc'[VolumeOf(d)] \in Nat /\ alloc[VolumeOf(d)] =< alloc'[VolumeOf(d)]
    BY <1>1, DisksKept
  <1>3. s.alloc \in Nat /\ alloc[VolumeOf(d)] \in Nat
    BY <1>2 DEF BlockStats, ThinTypeOK
  <1>4. s.alloc =< alloc'[VolumeOf(d)]
    BY <1>1, <1>2, <1>3
  <1> QED BY <1>1, <1>2, <1>4 DEF SampleTrue

LEMMA ShortKept ==
    ASSUME OnlyAttaches, TypeInv, ThinTypeOK, AttachInv, PlaceInv, [ThinNext]_tvars,
           NEW d \in Disks, ShortNow(d), lvs'[VolumeOf(d)].size = lvs[VolumeOf(d)].size
    PROVE  ShortNow(d)'
  <1>1. disks[d] # None
    BY DEF ShortNow
  <1>2. /\ disks'[d] # None /\ VolumeOf(d)' = VolumeOf(d) /\ VolumeOf(d) \in Volumes
        /\ lvs[VolumeOf(d)] \in LVRec
        /\ alloc'[VolumeOf(d)] \in Nat /\ alloc[VolumeOf(d)] =< alloc'[VolumeOf(d)]
    BY <1>1, DisksKept
  <1>3. PICK p \in Nat, a \in Nat, b \in Nat :
            /\ p = lvs[VolumeOf(d)].size /\ a = alloc[VolumeOf(d)] /\ b = alloc'[VolumeOf(d)]
            /\ a =< b
    BY <1>2 DEF LVRec, ThinTypeOK
  <1>4. BelowThreshold([phys |-> p, alloc |-> b])
    BY <1>3, BelowMonotone DEF ShortNow
  <1>5. BelowThreshold([phys |-> lvs'[VolumeOf(d)].size, alloc |-> alloc'[VolumeOf(d)]])
    BY <1>3, <1>4
  <1> QED BY <1>2, <1>5 DEF ShortNow, BelowThreshold

\* Where a handler can be on its way to lvextend.
LEMMA BeforeGrowth ==
    ASSUME TypeInv, NEW w \in Workers, Handler(w),
           pc'[w] \in {"get", "lock", "wait", "e_lv"}
    PROVE  pc[w] \in {"get", "lock", "wait"} /\ req'[w] = req[w]
  <1> USE DEF At
  <1>0. pc \in [Workers -> PCs]
    BY DEF TypeInv, TypeOK, DiskTypeOK
  <1>1. req'[w] = req[w]
    BY HandlerLocals
  <1>2. \A l : Goto(w, l) => pc'[w] = l
    BY <1>0 DEF Goto
  <1>3. Return(w) => pc'[w] = "idle"
    BY <1>2 DEF Return
  <1>4. CASE ReadDisk(w) \/ Acquire(w) \/ AcquireFails(w) \/ AcquireWaited(w) \/ AcquireGivesUp(w)
    BY <1>1, <1>4 DEF ReadDisk, Acquire, AcquireFails, AcquireWaited, AcquireGivesUp
  <1>5. CASE Release(w) \/ CreateGet(w) \/ CreateLV(w) \/ CreateHeader(w) \/ CreatePersist(w)
             \/ CreateUndo(w)
    BY <1>2, <1>3, <1>5 DEF Release, CreateGet, CreateLV, CreateHeader, CreatePersist, CreateUndo
  <1>6. CASE DeleteList(w) \/ DetachGet(w) \/ DetachLibvirt(w) \/ DetachStore(w)
             \/ DeleteLV(w) \/ DeleteRecord(w)
    BY <1>2, <1>3, <1>6
    DEF DeleteList, DetachGet, DetachLibvirt, DetachStore, DeleteLV, DeleteRecord, Abort
  <1>7. CASE ExtendLV(w) \/ ExtendPersist(w) \/ ExtendList(w) \/ ExtendResize(w)
    BY <1>2, <1>7 DEF ExtendLV, ExtendPersist, ExtendList, ExtendResize
  <1>8. CASE AttachPick(w) \/ AttachLibvirt(w) \/ AttachPersist(w) \/ AttachUndo(w)
    BY <1>2, <1>3, <1>8 DEF AttachPick, AttachLibvirt, AttachPersist, AttachUndo
  <1> QED BY <1>4, <1>5, <1>6, <1>7, <1>8 DEF Handler

\* A manager whose tick does not move keeps its part of the invariant,
\* whatever the service, the guests and the other managers do.
LEMMA ManagedKept ==
    ASSUME OnlyAttaches, OneManagerPerNode, OneHostPerDisk, TypeInv, ThinTypeOK, SampleInv,
           [ThinNext]_tvars, NEW w \in Managers,
           tick'[w] = tick[w], left'[w] = left[w], vmOf'[w] = vmOf[w], stats'[w] = stats[w],
           (pc'[w] = pc[w] /\ req'[w] = req[w]) \/ Handler(w),
           Runs(w)' => Runs(w) \/ up[NodeOf[w]] = "new",
           up'[NodeOf[w]] = "new" => up[NodeOf[w]] = "new"
    PROVE  Managed(w)'
  <1>0. /\ Managed(w) /\ w \in Workers /\ Waiting(w)' = Waiting(w) /\ left[w] \subseteq AttRec
        /\ AttachInv /\ PlaceInv
    BY ThinAssumption DEF SampleInv, Waiting, ThinTypeOK
  <1>1. ASSUME NEW a \in left[w]
        PROVE  /\ a \in AttRec /\ <<a.disk, a.vm>> \in Disks \X VMs
               /\ a.host = Host(w) /\ atts[<<a.disk, a.vm>>] = a /\ a # None
    BY <1>0, NoneAssumption DEF Managed, Mine, AttRec
  <1>2. ASSUME NEW a \in left'[w] PROVE Mine(w, a)'
    <2>1. atts'[<<a.disk, a.vm>>] = a
      BY <1>0, <1>1, <1>2, AttsKept
    <2> QED BY <1>1, <1>2, <2>1 DEF Mine, Host
  <1>3. up[NodeOf[w]] = "new" => tick[w] = "wait" /\ pc[w] = "idle"
    BY <1>0 DEF Managed, ThinTypeOK
  <1>4. pc'[w] # "idle" => pc[w] # "idle" /\ req'[w] = req[w]
    BY <1>0, HandlerIsBusy, HandlerLocals
  <1>5. ASSUME Runs(w)', tick[w] \in {"inspect", "extend"}, NEW a \in Waiting(w),
               stats[w][a.tgt] # None
        PROVE  SampleTrue(stats[w][a.tgt], a.disk)'
    <2>1. Runs(w) /\ a \in left[w]
      BY <1>3, <1>5 DEF Waiting
    <2>2. PICK d \in Disks, k \in Disks \X VMs : d = a.disk /\ k = <<a.disk, a.vm>> /\ d = k[1]
      BY <1>1, <2>1 DEF AttRec
    <2>3. PICK s \in BlockStats : s = stats[w][a.tgt]
      BY <1>1, <1>5, <2>1 DEF ThinTypeOK, AttRec
    <2>4. SampleTrue(s, d)
      BY <1>0, <1>5, <2>1, <2>2, <2>3 DEF Managed, SamplesTrue
    <2>5. d = Disk(w) => pc[w] = "idle"
      BY <1>0, <1>5, <2>2 DEF Managed, Extending
    <2>6. lvs'[VolumeOf(d)].size = lvs[VolumeOf(d)].size
      BY <1>1, <2>1, <2>2, <2>4, <2>5, SizeKept DEF SampleTrue
    <2>7. SampleTrue(s, d)'
      BY <1>0, <2>4, <2>6, SampleKept
    <2> QED BY <2>2, <2>3, <2>7 DEF SampleTrue
  <1>6. (Runs(w) /\ tick[w] \in {"inspect", "extend"} => SamplesTrue(w))'
    BY <1>0, <1>5 DEF SamplesTrue
  <1>7. ASSUME pc'[w] # "idle" PROVE Extending(w)'
    <2>1. /\ pc[w] # "idle" /\ req'[w] = req[w] /\ Extending(w) /\ Disk(w)' = Disk(w)
          /\ Disk(w) \in Disks
      BY <1>0, <1>4, <1>7, WorkerType DEF Managed, Disk
    <2>2. PICK k \in Disks \X VMs : atts[k] # None /\ k[1] = Disk(w) /\ atts[k].host = Host(w)
      BY <2>1 DEF Extending
    <2>3. atts'[k] = atts[k]
      BY <1>0, <2>2, AttsKept
    <2>4. \A b \in Waiting(w)' : b.disk # Disk(w)'
      BY <1>0, <2>1 DEF Extending
    <2>5. ASSUME Runs(w)', pc'[w] \in {"get", "lock", "wait", "e_lv"} PROVE ShortNow(Disk(w))'
      <3>1. Runs(w)
        BY <1>3, <2>1, <2>5
      <3>2. pc[w] \in {"get", "lock", "wait", "e_lv"} /\ ~(pc[w] = "e_lv" /\ pc'[w] # "e_lv")
        BY <1>0, <2>5, BeforeGrowth
      <3>3. PICK d \in Disks : d = Disk(w)
        BY <2>1
      <3>4. ShortNow(d)
        BY <2>1, <3>1, <3>2, <3>3 DEF Extending
      <3>5. lvs'[VolumeOf(d)].size = lvs[VolumeOf(d)].size
        BY <2>2, <3>1, <3>2, <3>3, <3>4, SizeKept DEF ShortNow
      <3>6. ShortNow(d)'
        BY <1>0, <3>4, <3>5, ShortKept
      <3> QED BY <2>1, <3>3, <3>6 DEF ShortNow, VolumeOf
    <2> QED BY <2>1, <2>2, <2>3, <2>4, <2>5 DEF Extending, Host
  <1> QED BY <1>2, <1>3, <1>6, <1>7 DEF Managed

\* What a sample of a domain says of an attachment of w's host.
LEMMA SampleIsTrue ==
    ASSUME TypeInv, ThinTypeOK, SampleInv, NEW w \in Managers, NEW a \in left[w],
           DomainStats(a.vm)[a.tgt] # None
    PROVE  SampleTrue(DomainStats(a.vm)[a.tgt], a.disk)
  <1>1. /\ a \in AttRec /\ a.disk \in Disks /\ a.vm \in VMs /\ a.tgt \in Targets
        /\ a # None /\ atts[<<a.disk, a.vm>>] = a
    BY NoneAssumption DEF ThinTypeOK, SampleInv, Managed, Mine, AttRec
  <1>2. PICK k \in Disks \X VMs, t \in VMs \X Targets : k = <<a.disk, a.vm>> /\ t = <<a.vm, a.tgt>>
    BY <1>1
  <1>3. devs[t] # None /\ devs[t].disk = a.disk
    BY <1>1, <1>2 DEF SampleInv, AttachInv, AttachmentHasDevice
  <1>4. disks[a.disk] # None /\ disks[a.disk].vg = devs[t].vg
    BY <1>3 DEF SampleInv, PlaceInv, Recorded
  <1>5. <<devs[t].vg, devs[t].disk>> = VolumeOf(a.disk) /\ VolumeOf(a.disk) \in Volumes
    BY <1>1, <1>3, <1>4 DEF VolumeOf, Volumes, TypeInv, TypeOK, DiskTypeOK, DiskRec
  <1>6. DomainStats(a.vm)[a.tgt] =
          [phys |-> lvs[VolumeOf(a.disk)].size, alloc |-> alloc[VolumeOf(a.disk)]]
    BY <1>1, <1>2, <1>5 DEF DomainStats
  <1>7. alloc[VolumeOf(a.disk)] \in Nat
    BY <1>5 DEF ThinTypeOK
  <1> QED BY <1>4, <1>6, <1>7 DEF SampleTrue

\* A step of w's own tick.
LEMMA TickManaged ==
    ASSUME TypeInv, ThinTypeOK, SampleInv, NEW w \in Managers, ManagerStep(w)
    PROVE  Managed(w)'
  <1>0. /\ Managed(w) /\ w \in Workers /\ Between(w) /\ left[w] \subseteq AttRec
        /\ pc \in [Workers -> PCs] /\ req \in [Workers -> Requests \cup {None}]
        /\ tick \in [Managers -> {"wait", "sample", "inspect", "extend"}]
        /\ left \in [Managers -> SUBSET AttRec]
        /\ vmOf \in [Managers -> VMs \cup {None}]
        /\ stats \in [Managers -> [Targets -> BlockStats \cup {None}]]
    BY ThinAssumption DEF SampleInv, ThinTypeOK, ManagerStep, TickList, TickSample,
       TickInspect, TickExtended, TypeInv, TypeOK, DiskTypeOK
  <1>1. UNCHANGED <<up, disks, atts, lvs, alloc>>
    BY DEF ManagerStep, TickList, TickSample, TickInspect, TickExtended, vars, lockVars, diskVars
  <1>2. up'[NodeOf[w]] # "new" /\ Runs(w) /\ pc[w] = "idle"
    BY <1>0, <1>1 DEF Between, Runs
  <1>3. ASSUME NEW a, Mine(w, a) PROVE Mine(w, a)'
    BY <1>1, <1>3 DEF Mine, Host
  <1>4. ASSUME NEW s, NEW d, SampleTrue(s, d) PROVE SampleTrue(s, d)'
    BY <1>1, <1>4 DEF SampleTrue, VolumeOf
  <1>5. CASE TickList(w)
    <2>1. /\ UNCHANGED pc /\ tick' = [tick EXCEPT ![w] = "sample"]
          /\ left'[w] = {a \in UNION {AttachmentsOf(d) : d \in Disks} : a.host = Host(w)}
      BY <1>0, <1>5 DEF TickList, vars, diskVars
    <2>2. ASSUME NEW a \in left'[w] PROVE Mine(w, a)
      <3>1. PICK k \in Disks \X VMs : atts[k] # None /\ a = atts[k]
        BY <2>1, <2>2 DEF AttachmentsOf
      <3>2. a.disk = k[1] /\ a.vm = k[2]
        BY <3>1 DEF SampleInv, KeyedAtts
      <3>3. k = <<a.disk, a.vm>>
        BY <3>2
      <3> QED BY <2>1, <2>2, <3>1, <3>3 DEF Mine
    <2>3. \A a \in left'[w] : Mine(w, a)'
      BY <1>3, <2>2
    <2>4. tick'[w] = "sample" /\ pc'[w] = "idle"
      BY <1>0, <1>2, <2>1
    <2> QED BY <1>2, <2>3, <2>4 DEF Managed
  <1>6. CASE TickSample(w)
    <2>1. PICK vm \in {a.vm : a \in left[w]} :
             \/ /\ vmOf' = [vmOf EXCEPT ![w] = vm]
                /\ stats' = [stats EXCEPT ![w] = DomainStats(vm)]
                /\ UNCHANGED left
             \/ /\ left' = [left EXCEPT ![w] = {a \in @ : a.vm # vm}]
                /\ tick' = [tick EXCEPT ![w] = IF left'[w] = {} THEN "wait" ELSE @]
                /\ tick[w] = "sample"
      BY <1>6 DEF TickSample
    <2>2. pc'[w] = "idle"
      BY <1>2, <1>6 DEF TickSample, vars, diskVars
    <2>3. left'[w] \subseteq left[w]
      BY <1>0, <2>1
    <2>4. \A a \in left'[w] : Mine(w, a)'
      BY <1>0, <1>3, <2>3 DEF Managed
    <2>5. CASE tick'[w] \in {"wait", "sample"}
      BY <1>2, <2>2, <2>4, <2>5 DEF Managed
    <2>6. CASE /\ vmOf' = [vmOf EXCEPT ![w] = vm]
               /\ stats' = [stats EXCEPT ![w] = DomainStats(vm)]
               /\ UNCHANGED left
      <3>1. vmOf'[w] = vm /\ stats'[w] = DomainStats(vm) /\ left' = left
        BY <1>0, <2>6
      <3>2. ASSUME NEW a \in left[w], a.vm = vm, DomainStats(vm)[a.tgt] # None
            PROVE  SampleTrue(stats[w][a.tgt], a.disk)'
        <4>1. PICK s : s = DomainStats(vm)[a.tgt]
          OBVIOUS
        <4>2. SampleTrue(s, a.disk)
          BY <3>2, <4>1, SampleIsTrue
        <4>3. SampleTrue(s, a.disk)'
          BY <1>4, <4>2
        <4> QED BY <3>1, <4>1, <4>3 DEF SampleTrue
      <3>3. SamplesTrue(w)'
        BY <3>1, <3>2 DEF SamplesTrue, Waiting
      <3> QED BY <1>2, <2>2, <2>4, <3>3 DEF Managed
    <2> QED BY <1>0, <2>1, <2>5, <2>6
  <1>7. CASE TickInspect(w)
    <2>1. PICK a \in left[w] :
            /\ a.vm = vmOf[w]
            /\ \/ /\ Short(w, a)
                  /\ req' = [req EXCEPT ![w] = [op |-> "extend", disk |-> a.disk, in |-> StepInput]]
                  /\ Goto(w, "get")
                  /\ left' = [left EXCEPT ![w] = @ \ {a}]
               \/ Done(w, a) /\ UNCHANGED vars
      BY <1>7 DEF TickInspect
    <2>2. UNCHANGED <<vmOf, stats>> /\ tick[w] = "inspect"
      BY <1>7 DEF TickInspect
    <2>3. left'[w] = left[w] \ {a}
      BY <1>0, <2>1 DEF Done
    <2>4. \A b \in left'[w] : Mine(w, b)'
      BY <1>0, <1>3, <2>3 DEF Managed
    <2>5. Waiting(w)' = Waiting(w) \ {a} /\ a \in Waiting(w)
      BY <2>1, <2>2, <2>3 DEF Waiting
    <2>6. SamplesTrue(w)
      BY <1>0, <1>2, <2>2 DEF Managed
    <2>7. SamplesTrue(w)'
      <3>1. ASSUME NEW b \in Waiting(w), stats[w][b.tgt] # None
            PROVE  SampleTrue(stats[w][b.tgt], b.disk)'
        <4>1. PICK s : s = stats[w][b.tgt]
          OBVIOUS
        <4>2. SampleTrue(s, b.disk)'
          BY <1>4, <2>6, <3>1, <4>1 DEF SamplesTrue
        <4> QED BY <2>2, <4>1, <4>2 DEF SampleTrue
      <3> QED BY <2>2, <2>5, <3>1 DEF SamplesTrue
    <2>8. CASE Done(w, a) /\ UNCHANGED vars
      <3>1. pc'[w] = "idle"
        BY <1>2, <2>8 DEF vars, diskVars
      <3> QED BY <1>2, <2>4, <2>7, <3>1 DEF Managed
    <2>9. CASE /\ Short(w, a)
               /\ req' = [req EXCEPT ![w] = [op |-> "extend", disk |-> a.disk, in |-> StepInput]]
               /\ Goto(w, "get")
      <3>1. req'[w].op = "extend" /\ Disk(w)' = a.disk
        BY <1>0, <2>9 DEF Disk
      <3>2. /\ a \in AttRec /\ a.disk \in Disks /\ a.vm \in VMs /\ a.tgt \in Targets
            /\ a.host = Host(w) /\ atts[<<a.disk, a.vm>>] = a /\ a # None
        BY <1>0, NoneAssumption DEF Managed, Mine, AttRec
      <3>3. PICK k \in Disks \X VMs : k = <<a.disk, a.vm>> /\ k[1] = a.disk
        BY <3>2
      <3>4. atts'[k] # None /\ atts'[k].host = Host(w)
        BY <1>1, <3>2, <3>3
      <3>5. ASSUME NEW b \in Waiting(w)' PROVE b.disk # a.disk
        <4>1. b \in left[w] /\ b # a /\ b.vm = a.vm
          BY <2>1, <2>5, <3>5 DEF Waiting
        <4>2. atts[<<b.disk, b.vm>>] = b
          BY <1>0, <4>1 DEF Managed, Mine
        <4> QED BY <3>2, <4>1, <4>2
      <3>6. ShortNow(a.disk)
        <4>1. PICK s \in BlockStats : s = stats[w][a.tgt] /\ BelowThreshold(s)
          BY <1>0, <2>9, <3>2 DEF Short
        <4>2. SampleTrue(s, a.disk)
          BY <2>5, <2>6, <2>9, <4>1 DEF SamplesTrue, Short
        <4>3. VolumeOf(a.disk) \in Volumes
          BY <3>2, <4>2 DEF SampleTrue, VolumeOf, Volumes, TypeInv, TypeOK, DiskTypeOK, DiskRec
        <4>4. PICK p \in Nat, x \in Nat, y \in Nat :
                /\ p = s.phys /\ x = s.alloc /\ y = alloc[VolumeOf(a.disk)] /\ x =< y
          BY <4>2, <4>3 DEF BlockStats, SampleTrue, ThinTypeOK
        <4>5. BelowThreshold([phys |-> p, alloc |-> x])
          BY <4>1, <4>4 DEF BelowThreshold
        <4>6. BelowThreshold([phys |-> p, alloc |-> y])
          BY <4>4, <4>5, BelowMonotone
        <4> QED BY <4>2, <4>4, <4>6 DEF ShortNow, SampleTrue
      <3>7. PICK d \in Disks : d = a.disk
        BY <3>2
      <3>8. ShortNow(d)'
        BY <1>1, <3>6, <3>7 DEF ShortNow, VolumeOf, BelowThreshold
      <3>9. ShortNow(Disk(w))'
        BY <3>1, <3>7, <3>8 DEF ShortNow, VolumeOf, BelowThreshold
      <3>10. Extending(w)'
        BY <3>1, <3>3, <3>4, <3>5, <3>9 DEF Extending, Host
      <3> QED BY <1>2, <2>4, <2>7, <3>10 DEF Managed
    <2> QED BY <2>1, <2>8, <2>9
  <1>8. CASE TickExtended(w)
    <2>1. UNCHANGED <<pc, left, vmOf, stats>> /\ tick[w] = "extend"
      BY <1>8 DEF TickExtended, vars, diskVars
    <2>2. SamplesTrue(w)
      BY <1>0, <1>2, <2>1 DEF Managed
    <2>3. SamplesTrue(w)'
      <3>1. ASSUME NEW b \in Waiting(w), stats[w][b.tgt] # None
            PROVE  SampleTrue(stats[w][b.tgt], b.disk)'
        <4>1. PICK s : s = stats[w][b.tgt]
          OBVIOUS
        <4>2. SampleTrue(s, b.disk)'
          BY <1>4, <2>2, <3>1, <4>1 DEF SamplesTrue
        <4> QED BY <2>1, <4>1, <4>2 DEF SampleTrue
      <3> QED BY <2>1, <3>1 DEF SamplesTrue, Waiting
    <2>4. \A a \in left'[w] : Mine(w, a)'
      BY <1>0, <1>3, <2>1 DEF Managed
    <2> QED BY <1>2, <2>1, <2>3, <2>4 DEF Managed
  <1> QED BY <1>5, <1>6, <1>7, <1>8 DEF ManagerStep

\* Daemons come and go, one at a time per host.
LEMMA UpStep ==
    ASSUME TypeInv, ThinTypeOK, [ThinNext]_tvars
    PROVE  \/ UNCHANGED up
           \/ /\ UNCHANGED diskVars /\ ServiceStep
              /\ \E n \in Nodes : StartDaemon(n) \/ Crash(n)
  <1>1. ASSUME NEW u \in Workers, CallCreate(u) \/ CallNamed(u) \/ CancelCtx(u) \/ Handler(u)
        PROVE  UNCHANGED up
    BY <1>1, WorkerRuns
  <1>2. ASSUME NEW u \in Managers, ManagerStep(u) PROVE UNCHANGED up
    BY <1>2 DEF ManagerStep, TickList, TickSample, TickInspect, TickExtended, vars, lockVars
  <1>3. CASE UNCHANGED tvars \/ \E v \in Volumes : GuestWrite(v)
    BY <1>3 DEF tvars, vars, lockVars, GuestWrite
  <1>4. CASE ServiceStep
    BY <1>1, <1>4 DEF ServiceStep, DaemonStep, EndLease
  <1> QED BY <1>2, <1>3, <1>4 DEF ThinNext

LEMMA SampleInvStep ==
    ASSUME OnlyAttaches, ManagersExtend, OneHostPerDisk, TypeInv, ThinTypeOK, SampleInv,
           [ThinNext]_tvars
    PROVE  SampleInv'
  <1>0. /\ OneManagerPerNode /\ Managers \subseteq Workers /\ NodeOf \in [Workers -> Nodes]
        /\ up \in [Nodes -> {"new", "up", "dead"}] /\ [Next]_vars
    BY ThinAssumption, LockAssumption, ThinStepIsNext
    DEF ManagersExtend, TypeInv, TypeOK, LockTypeOK
  <1>1. (AttachInv /\ PlaceInv /\ KeyedAtts)'
    BY <1>0, AttachInvStep, PlaceInvStep, KeyedStep DEF SampleInv
  <1>2. OneUp'
    <2>1. CASE UNCHANGED up
      BY <2>1 DEF SampleInv, OneUp
    <2>2. ASSUME NEW n \in Nodes, StartDaemon(n) PROVE OneUp'
      BY <1>0, <2>2 DEF StartDaemon, SampleInv, OneUp
    <2>3. ASSUME NEW n \in Nodes, Crash(n) PROVE OneUp'
      BY <1>0, <2>3 DEF Crash, SampleInv, OneUp
    <2> QED BY <2>1, <2>2, <2>3, UpStep
  <1>3. \A n \in Nodes : /\ up'[n] = "up" => up[n] \in {"up", "new"}
                         /\ up'[n] = "new" => up[n] = "new"
    <2>1. CASE UNCHANGED up
      BY <2>1
    <2>2. ASSUME NEW m \in Nodes, StartDaemon(m) \/ Crash(m)
          PROVE  \A n \in Nodes : /\ up'[n] = "up" => up[n] \in {"up", "new"}
                                  /\ up'[n] = "new" => up[n] = "new"
      BY <1>0, <2>2 DEF StartDaemon, Crash
    <2> QED BY <2>1, <2>2, UpStep
  <1>4. ASSUME NEW w \in Workers \ Managers, pc'[w] # "idle" PROVE req'[w].op # "extend"
    <2>0. pc[w] # "idle" => req[w].op # "extend"
      BY DEF SampleInv
    <2>1. CASE pc'[w] = pc[w] /\ req'[w] = req[w]
      BY <1>4, <2>0, <2>1
    <2>2. CASE UNCHANGED tvars \/ (\E v \in Volumes : GuestWrite(v)) \/ UNCHANGED diskVars
      BY <2>1, <2>2 DEF tvars, vars, diskVars, GuestWrite
    <2>3. ASSUME NEW u \in Managers, ManagerStep(u) PROVE pc'[w] = pc[w] /\ req'[w] = req[w]
      <3>1. UNCHANGED vars \/ CallNamed(u)
        BY <2>3, InspectIsCall DEF ManagerStep, TickList, TickSample, TickExtended
      <3> QED BY <1>0, <3>1, StepIsLocal DEF OnlyLocal, vars, diskVars
    <2>4. CASE ServiceStep
      <3>1. ASSUME NEW u \in Workers, Handler(u) PROVE req'[w].op # "extend"
        BY <1>4, <2>0, <2>1, <3>1, StepIsLocal, HandlerIsBusy, HandlerLocals DEF OnlyLocal
      <3>2. ASSUME NEW u \in Workers \ Managers,
                   \/ CallCreate(u) /\ "create" \in ClientOps
                   \/ CallNamed(u) /\ req'[u].op \in ClientOps
                   \/ CancelCtx(u)
            PROVE  req'[w].op # "extend"
        <4>1. CASE u # w
          BY <2>1, <3>2, <4>1, StepIsLocal DEF OnlyLocal
        <4>2. CASE u = w /\ CallCreate(w)
          <5>1. \E d \in Disks : req' = [req EXCEPT ![w] = [op |-> "create", disk |-> d]]
            BY <4>2 DEF CallCreate
          <5> QED BY <5>1 DEF TypeInv, TypeOK, DiskTypeOK
        <4>3. CASE u = w /\ CallNamed(w) /\ req'[w].op \in ClientOps
          BY <4>3 DEF ManagersExtend
        <4>4. CASE u = w /\ CancelCtx(w)
          BY <2>1, <4>4 DEF CancelCtx
        <4> QED BY <3>2, <4>1, <4>2, <4>3, <4>4
      <3> QED BY <2>2, <2>4, <3>1, <3>2 DEF ServiceStep
    <2> QED BY <2>1, <2>2, <2>3, <2>4 DEF ThinNext
  <1>5. ASSUME NEW w \in Managers PROVE Managed(w)'
    <2>0. /\ NodeOf[w] \in Nodes
          /\ Runs(w)' => Runs(w) \/ up[NodeOf[w]] = "new"
          /\ up'[NodeOf[w]] = "new" => up[NodeOf[w]] = "new"
      BY <1>0, <1>3 DEF Runs
    <2>1. CASE /\ tick'[w] = tick[w] /\ left'[w] = left[w] /\ vmOf'[w] = vmOf[w]
               /\ stats'[w] = stats[w]
               /\ (pc'[w] = pc[w] /\ req'[w] = req[w]) \/ Handler(w)
      BY <1>0, <2>0, <2>1, ManagedKept
    <2>2. CASE UNCHANGED tvars \/ \E v \in Volumes : GuestWrite(v)
      BY <2>1, <2>2 DEF tvars, thinVars, vars, diskVars, GuestWrite
    <2>3. ASSUME NEW u \in Managers, ManagerStep(u) PROVE Managed(w)'
      <3>1. CASE u = w
        BY <2>3, <3>1, TickManaged
      <3>2. CASE u # w
        <4>1. UNCHANGED vars \/ CallNamed(u)
          BY <2>3, InspectIsCall DEF ManagerStep, TickList, TickSample, TickExtended
        <4>2. pc'[w] = pc[w] /\ req'[w] = req[w]
          BY <1>0, <3>2, <4>1, StepIsLocal DEF OnlyLocal, vars, diskVars
        <4>3. /\ tick'[w] = tick[w] /\ left'[w] = left[w] /\ vmOf'[w] = vmOf[w]
              /\ stats'[w] = stats[w]
          BY <2>3, <3>2
          DEF ManagerStep, TickList, TickSample, TickInspect, TickExtended, Done, ThinTypeOK
        <4> QED BY <2>1, <4>2, <4>3
      <3> QED BY <3>1, <3>2
    <2>4. CASE ServiceStep
      <3>1. UNCHANGED <<tick, left, vmOf, stats>>
        BY <2>4 DEF ServiceStep, Tracks
      <3>2. (pc'[w] = pc[w] /\ req'[w] = req[w]) \/ Handler(w)
        <4>1. ASSUME NEW u \in Workers, Handler(u)
              PROVE  (pc'[w] = pc[w] /\ req'[w] = req[w]) \/ Handler(w)
          BY <1>0, <4>1, StepIsLocal DEF OnlyLocal
        <4>2. ASSUME NEW u \in Workers \ Managers, CallCreate(u) \/ CallNamed(u) \/ CancelCtx(u)
              PROVE  pc'[w] = pc[w] /\ req'[w] = req[w]
          BY <1>0, <4>2, StepIsLocal DEF OnlyLocal
        <4> QED BY <2>4, <4>1, <4>2 DEF ServiceStep, diskVars
      <3> QED BY <2>1, <3>1, <3>2
    <2> QED BY <2>2, <2>3, <2>4 DEF ThinNext
  <1> QED BY <1>1, <1>2, <1>4, <1>5 DEF SampleInv

\* A volume that a manager grows was short of space right then.
LEMMA NoRunawayStep ==
    ASSUME OnlyAttaches, TypeInv, ThinTypeOK, SampleInv, NoRunaway, [ThinNext]_tvars
    PROVE  NoRunaway'
  <1>0. ThinTypeOK' /\ TypeInv'
    BY ThinTypeStep, ThinStepIsNext, TypeInvStep
  <1> SUFFICES ASSUME NEW v \in Volumes, before'[v] > 0
               PROVE  BelowThreshold([phys |-> before'[v], alloc |-> alloc'[v]])
    BY DEF NoRunaway, BelowThreshold
  <1>1. PICK p \in Nat, a \in Nat, b \in Nat : p = before[v] /\ a = alloc[v] /\ b = alloc'[v]
    BY <1>0 DEF ThinTypeOK
  <1>2. CASE before'[v] = before[v] /\ a =< b
    <2>1. BelowThreshold([phys |-> p, alloc |-> a])
      BY <1>1, <1>2 DEF NoRunaway
    <2> QED BY <1>1, <1>2, <2>1, BelowMonotone
  <1>3. CASE ServiceStep
    <2>1. /\ lvs'[v] # None /\ alloc'[v] = alloc[v]
          /\ \/ before'[v] = before[v]
             \/ lvs[v] # None /\ lvs[v].size < lvs'[v].size /\ before'[v] = lvs[v].size
      BY <1>3 DEF ServiceStep, Tracks
    <2>2. CASE lvs[v] # None /\ lvs[v].size < lvs'[v].size /\ before'[v] = lvs[v].size
      <3>1. lvs[v].size \in Nat /\ lvs'[v].size \in Nat
        BY <1>0, <2>1, <2>2 DEF TypeInv, TypeOK, DiskTypeOK, LVRec, Volumes
      <3>2. lvs[v].size # lvs'[v].size
        BY <2>2, <3>1
      <3>3. PICK u \in Managers : Runs(u) /\ pc[u] = "e_lv" /\ v = VolumeOf(Disk(u))
        BY <2>1, <2>2, <3>2, ManagersGrow
      <3>4. ShortNow(Disk(u))
        BY <3>3 DEF SampleInv, Managed, Extending
      <3> QED BY <2>1, <2>2, <3>3, <3>4 DEF ShortNow
    <2> QED BY <1>1, <1>2, <2>1, <2>2
  <1>4. ASSUME NEW x \in Volumes, GuestWrite(x) PROVE before'[v] = before[v] /\ a =< b
    <2>1. before' = before /\ alloc' = [alloc EXCEPT ![x] = @ + 1]
      BY <1>4 DEF GuestWrite
    <2>2. b = a \/ b = a + 1
      BY <1>1, <2>1 DEF ThinTypeOK
    <2> QED BY <2>1, <2>2
  <1>5. CASE UNCHANGED <<alloc, before>>
    BY <1>1, <1>2, <1>5
  <1> QED BY <1>2, <1>3, <1>4, <1>5
          DEF ThinNext, ManagerStep, TickList, TickSample, TickInspect, TickExtended, tvars, thinVars

\* Auto-extension never runs away while clients only create and attach disks,
\* a disk is in use on one host at a time and no call takes effect behind an
\* error: for any number of hosts, restarts, disks and domains, and whatever
\* fails, is cancelled or dies, a volume that a manager has grown had, at the
\* size it had before, less free space than free_threshold_percent.  A sample
\* is acted on once, and no lock is needed for it.
THEOREM NoVolumeRunsAway ==
    ASSUME OnlyAttaches, ManagersExtend PROVE ThinSpec /\ []OneHostPerDisk => []NoRunaway
  <1>1. ThinInit => TypeInv /\ ThinTypeOK
    BY TypeInvInit, ThinAssumption DEF ThinInit, Init, DiskInit, ThinTypeOK
  <1>2. ThinInit => SampleInv /\ NoRunaway
    <2> SUFFICES ASSUME ThinInit PROVE SampleInv /\ NoRunaway
      OBVIOUS
    <2>0. Init /\ Managers \subseteq Workers
      BY ThinAssumption DEF ThinInit
    <2>1. AttachInv /\ KeyedAtts
      BY <2>0 DEF Init, DiskInit, AttachInv, NoDetaches, PluggedIn, Apart, Holding,
           AttachmentHasDevice, KeyedAtts
    <2>2. PlaceInv
      BY <2>0, PlaceInvInit
    <2>3. OneUp
      BY <2>0 DEF Init, LockInit, OneUp
    <2>4. \A w \in Workers : pc[w] = "idle"
      BY <2>0 DEF Init, DiskInit
    <2>5. \A w \in Managers : tick[w] = "wait" /\ left[w] = {}
      BY DEF ThinInit
    <2>6. \A w \in Managers : Managed(w)
      BY <2>0, <2>4, <2>5 DEF Managed
    <2>7. NoRunaway
      BY DEF ThinInit, NoRunaway
    <2> QED BY <2>1, <2>2, <2>3, <2>4, <2>6, <2>7 DEF SampleInv
  <1>3. TypeInv /\ ThinTypeOK /\ [ThinNext]_tvars => TypeInv' /\ ThinTypeOK'
    BY ThinStepIsNext, TypeInvStep, ThinTypeStep
  <1>4. OneHostPerDisk /\ TypeInv /\ ThinTypeOK /\ SampleInv /\ [ThinNext]_tvars => SampleInv'
    BY SampleInvStep
  <1>5. TypeInv /\ ThinTypeOK /\ SampleInv /\ NoRunaway /\ [ThinNext]_tvars => NoRunaway'
    BY NoRunawayStep
  <1> QED BY <1>1, <1>2, <1>3, <1>4, <1>5, PTL DEF ThinSpec
=============================================================================
