------------------------------ MODULE ThinManager ------------------------------
(***************************************************************************)
(* The auto-extend loop (internal/thin) on top of the disk service.  Each  *)
(* daemon runs one manager, a worker that between its ticks serves nobody. *)
(* A tick lists the attachments of its host, samples each domain once and  *)
(* calls ExtendByPercent for the thin disks that are short of free space.  *)
(* The call is the disk service's own, lock and all, and the tick goes on  *)
(* when it has returned.  Guests write meanwhile.                          *)
(***************************************************************************)
EXTENDS DiskService

CONSTANTS
    Managers,       \* the workers that are a daemon's thin manager
    ClientOps,      \* the operations clients call, of Ops
    Threshold,      \* free_threshold_percent
    Step            \* extend_step_percent

\* ExtendByPercent's input
StepInput == [size |-> 0, delta |-> 0, pct |-> Step]

ASSUME ThinAssumption ==
    /\ Managers \subseteq Workers
    /\ ClientOps \subseteq Ops
    /\ Threshold \in 1 .. 99
    /\ Step \in Nat \ {0}
    /\ StepInput \in ExtendInputs
    /\ "extend" \in Ops

VARIABLES
    alloc,      \* alloc[v]: the bytes of volume v its guest has touched
    tick,       \* tick[w]: "wait", "sample", "inspect" or "extend"
    left,       \* left[w]: the attachments the tick has not finished
    vmOf,       \* vmOf[w]: the domain whose statistics w looks at
    stats,      \* stats[w]: those statistics, by target
    before      \* history: before[v]: volume v's size before a manager last grew it

thinVars == <<alloc, tick, left, vmOf, stats, before>>
tvars == <<vars, thinVars>>

Volumes == VGs \X Disks
\* libvirtx.BlockStats
BlockStats == [phys : Nat, alloc : Nat]

ThinInit ==
    /\ Init
    /\ alloc = [v \in Volumes |-> 0]
    /\ tick = [w \in Managers |-> "wait"]
    /\ left = [w \in Managers |-> {}]
    /\ vmOf = [w \in Managers |-> None]
    /\ stats = [w \in Managers |-> [t \in Targets |-> None]]
    /\ before = [v \in Volumes |-> 0]

-----------------------------------------------------------------------------
(* libvirt.                                                                 *)

\* MUTANT of BelowThreshold: the used share is compared instead of the free.
BelowThresholdUsed(s) == 100 * s.alloc < Threshold * s.phys

\* BlockStats.FreePercent < Threshold, over the common denominator
BelowThreshold(s) ==
    /\ s.phys > 0
    /\ 100 * (s.phys - Min({s.alloc, s.phys})) < Threshold * s.phys

\* `virsh domstats --block vm`: the disks of the domain
DomainStats(vm) ==
    [t \in Targets |->
        LET dev == devs[<<vm, t>>] IN
        IF dev = None \/ lvs[<<dev.vg, dev.disk>>] = None THEN None
        ELSE [phys |-> lvs[<<dev.vg, dev.disk>>].size, alloc |-> alloc[<<dev.vg, dev.disk>>]]]

\* The guest of an attached thin disk touches another byte; at the end of
\* the volume its write fails.
GuestWrite(v) ==
    /\ lvs[v] # None /\ lvs[v].fmt = "qcow2"
    /\ \E t \in VMs \X Targets :
          devs[t] # None /\ <<devs[t].vg, devs[t].disk>> = v
    /\ alloc[v] < lvs[v].size
    /\ alloc' = [alloc EXCEPT ![v] = @ + 1]
    /\ UNCHANGED <<vars, tick, left, vmOf, stats, before>>

-----------------------------------------------------------------------------
(* The manager's tick.                                                      *)

\* w's daemon is up and w is not inside a call of the disk service
Between(w) == Runs(w) /\ pc[w] = "idle"

\* MUTANT of TickList: the attachments of the other hosts are kept.
TickListOthers(w) ==
    LET others == {a \in UNION {AttachmentsOf(d) : d \in Disks} : a.host # Host(w)} IN
    /\ Between(w) /\ tick[w] = "wait"
    /\ StoreOk(w)
    /\ others # {}
    /\ left' = [left EXCEPT ![w] = others]
    /\ tick' = [tick EXCEPT ![w] = "sample"]
    /\ UNCHANGED <<vars, alloc, vmOf, stats, before>>

\* The ticker fires: Store.ListAttachments, filtered by host.
TickList(w) ==
    LET mine == {a \in UNION {AttachmentsOf(d) : d \in Disks} : a.host = Host(w)} IN
    /\ Between(w) /\ tick[w] = "wait"
    /\ StoreOk(w)
    /\ mine # {}
    /\ left' = [left EXCEPT ![w] = mine]
    /\ tick' = [tick EXCEPT ![w] = "sample"]
    /\ UNCHANGED <<vars, alloc, vmOf, stats, before>>

\* DomainStats of the next domain; an error skips its attachments.
TickSample(w) ==
    /\ Between(w) /\ tick[w] = "sample"
    /\ \E vm \in {a.vm : a \in left[w]} :
          \/ /\ CallOk(w) /\ VMHost[vm] = Host(w)
             /\ vmOf' = [vmOf EXCEPT ![w] = vm]
             /\ stats' = [stats EXCEPT ![w] = DomainStats(vm)]
             /\ tick' = [tick EXCEPT ![w] = "inspect"]
             /\ UNCHANGED left
          \/ /\ CallErr(w) \/ VMHost[vm] # Host(w)
             /\ left' = [left EXCEPT ![w] = {a \in @ : a.vm # vm}]
             /\ tick' = [tick EXCEPT ![w] = IF left'[w] = {} THEN "wait" ELSE @]
             /\ UNCHANGED <<vmOf, stats>>
    /\ UNCHANGED <<vars, alloc, before>>

\* Where the tick goes once attachment a is done with: to the domain's next
\* attachment, to the next domain, or to sleep.
Done(w, a) ==
    /\ left' = [left EXCEPT ![w] = @ \ {a}]
    /\ tick' = [tick EXCEPT ![w] =
                  IF left'[w] = {} THEN "wait"
                  ELSE IF \E b \in left'[w] : b.vm = vmOf[w] THEN "inspect" ELSE "sample"]

\* a is the attachment of a thin disk whose sample is short of free space
Short(w, a) ==
    /\ disks[a.disk] # None
    /\ disks[a.disk].mode = "thin"
    /\ stats[w][a.tgt] # None
    /\ BelowThreshold(stats[w][a.tgt])

\* MUTANT of TickInspect: ExtendByPercent runs in a goroutine of its own and
\* the tick goes on.
TickInspectAsync(w) ==
    /\ Between(w) /\ tick[w] = "inspect"
    /\ \E a \in {a \in left[w] : a.vm = vmOf[w]} :
          /\ Done(w, a)
          /\ IF Short(w, a)
             THEN /\ req' = [req EXCEPT ![w] =
                               [op |-> "extend", disk |-> a.disk, in |-> StepInput]]
                  /\ Goto(w, "get")
                  /\ UNCHANGED <<lockVars, disks, atts, lvs, devs, rec, todo, cur, ctx, lost, leaked>>
             ELSE UNCHANGED vars
    /\ UNCHANGED <<alloc, vmOf, stats, before>>

\* Store.GetDisk for one attachment, the decision, and the start of
\* ExtendByPercent.
TickInspect(w) ==
    /\ Between(w) /\ tick[w] = "inspect"
    /\ \E a \in {a \in left[w] : a.vm = vmOf[w]} :
          \/ /\ StoreOk(w) /\ Short(w, a)
             /\ req' = [req EXCEPT ![w] = [op |-> "extend", disk |-> a.disk, in |-> StepInput]]
             /\ Goto(w, "get")
             /\ tick' = [tick EXCEPT ![w] = "extend"]
             /\ left' = [left EXCEPT ![w] = @ \ {a}]
             /\ UNCHANGED <<lockVars, disks, atts, lvs, devs, rec, todo, cur, ctx, lost, leaked>>
          \/ /\ StoreErr(w) \/ ~Short(w, a)
             /\ Done(w, a)
             /\ UNCHANGED vars
    /\ UNCHANGED <<alloc, vmOf, stats, before>>

\* ExtendByPercent has returned; its result is only logged.
TickExtended(w) ==
    /\ Between(w) /\ tick[w] = "extend"
    /\ tick' = [tick EXCEPT ![w] =
                  IF left[w] = {} THEN "wait"
                  ELSE IF \E b \in left[w] : b.vm = vmOf[w] THEN "inspect" ELSE "sample"]
    /\ UNCHANGED <<vars, alloc, left, vmOf, stats, before>>

ManagerStep(w) == TickList(w) \/ TickSample(w) \/ TickInspect(w) \/ TickExtended(w)

\* What a step of the disk service means for the volumes: one that is removed
\* takes its allocation with it.
Tracks ==
    /\ alloc' = [v \in Volumes |-> IF lvs'[v] = None THEN 0 ELSE alloc[v]]
    /\ before' = [v \in Volumes |->
                    IF lvs'[v] = None THEN 0
                    ELSE IF /\ lvs[v] # None /\ lvs[v].size < lvs'[v].size
                            /\ \E w \in Managers : pc[w] = "e_lv" /\ pc'[w] # pc[w]
                    THEN lvs[v].size ELSE before[v]]
    /\ UNCHANGED <<tick, left, vmOf, stats>>

\* A step of a handler, also on behalf of a manager, or of a client.
ServiceStep ==
    /\ \/ \E n \in Nodes : DaemonStep(n) /\ UNCHANGED diskVars
       \/ \E w \in Workers : Handler(w)
       \/ \E w \in Workers \ Managers :
             \/ CallCreate(w) /\ "create" \in ClientOps
             \/ CallNamed(w) /\ req'[w].op \in ClientOps
             \/ CancelCtx(w)
    /\ Tracks

ThinNext ==
    \/ ServiceStep
    \/ \E w \in Managers : ManagerStep(w)
    \/ \E v \in Volumes : GuestWrite(v)

ThinSpec == ThinInit /\ [][ThinNext]_tvars

(***************************************************************************)
(* Fairness: the ticker fires again and again, a tick and a handler go on  *)
(* while their daemon lives, etcd ends the lease of a dead daemon.  Guests *)
(* and clients need not do anything.                                       *)
(***************************************************************************)
ThinFairSpec ==
    /\ ThinSpec
    /\ \A w \in Workers : WF_tvars(Handler(w) /\ Tracks)
    /\ \A w \in Managers : WF_tvars(ManagerStep(w))
    /\ \A n \in Nodes :
          WF_tvars(up[n] = "dead" /\ EndLease(n) /\ UNCHANGED diskVars /\ Tracks)

-----------------------------------------------------------------------------
(* What auto-extension promises.                                            *)

\* Type invariant; a manager is inside a call of the disk service exactly in
\* the middle of an extend.
ThinTypeOK ==
    /\ alloc \in [Volumes -> Nat]
    /\ tick \in [Managers -> {"wait", "sample", "inspect", "extend"}]
    /\ left \in [Managers -> SUBSET AttRec]
    /\ vmOf \in [Managers -> VMs \cup {None}]
    /\ stats \in [Managers -> [Targets -> BlockStats \cup {None}]]
    /\ before \in [Volumes -> Nat]
    /\ \A w \in Managers : pc[w] # "idle" => tick[w] = "extend"

\* No runaway growth: whenever a manager has grown a volume, the guest has
\* touched so much that the size it had before was below the threshold.
\* In particular a sample is not acted on twice, also when the daemon dies
\* between lvextend and the catalog and the next one starts over.
NoRunaway ==
    \A v \in Volumes :
        before[v] > 0 => BelowThreshold([phys |-> before[v], alloc |-> alloc[v]])

\* A disk in the catalog whose guest runs out of space
Needy(d) ==
    /\ disks[d] # None /\ disks[d].mode = "thin"
    /\ \E a \in AttachmentsOf(d) :
          /\ VMHost[a.vm] = a.host
          /\ DomainStats(a.vm)[a.tgt] # None
          /\ BelowThreshold(DomainStats(a.vm)[a.tgt])

\* The manager of d's host can do its work: its daemon is up and its session
\* alive (it is never opened anew), the volume group has space.
Serviced(d) ==
    /\ \A a \in AttachmentsOf(d) : \E w \in Managers :
          Runs(w) /\ Host(w) = a.host /\ (Locker = "etcd" => lease[NodeOf[w]])
    /\ Percent(lvs[<<disks[d].vg, d>>], Step) =< Free(disks[d].vg)

\* A thin disk that is short of space grows until it is not, as long as the
\* manager of its host can do its work, whatever clients and other daemons
\* do.
NeedyGrows ==
    \A d \in Disks : Needy(d) /\ Serviced(d) ~> ~(Needy(d) /\ Serviced(d))
=============================================================================
