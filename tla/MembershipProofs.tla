--------------------------- MODULE MembershipProofs ---------------------------
(***************************************************************************)
(* Proofs about the life of cluster.Manager for any number of daemons,     *)
(* node ids, workers and volume groups, and any set of faults.             *)
(***************************************************************************)
EXTENDS Membership, VGLockProofs

-----------------------------------------------------------------------------
(* Type correctness.                                                        *)

LEMMA MemberTypeInit == MemberInit => MemberTypeOK
  BY LockTypeInit, MembershipAssumption DEF MemberInit, MemberTypeOK, LockInit

LEMMA PutNodeType ==
    ASSUME MemberTypeOK, NEW n \in Nodes, PutNode(n)
    PROVE  reg' \in [Ids -> Nodes \cup {NoNode}]
  BY MembershipAssumption DEF MemberTypeOK, PutNode

\* Ending a lease keeps the types of the lock and of the registry.
LEMMA DropLeaseType ==
    ASSUME MemberTypeOK, NEW n \in Nodes, DropLease(n)
    PROVE  /\ lease' \in [Nodes -> BOOLEAN]
           /\ keys' \in [VGs -> SUBSET Nodes]
           /\ pred' \in [VGs -> [Nodes -> SUBSET Nodes]]
           /\ ahead' \in [Workers -> SUBSET Nodes]
           /\ reg' \in [Ids -> Nodes \cup {NoNode}]
  <1>1. LockTypeOK /\ DropKeys(n, VGs)
    BY DEF MemberTypeOK, DropLease
  <1> QED BY <1>1, DropKeysType DEF MemberTypeOK, LockTypeOK, DropLease

LEMMA LeaveType ==
    ASSUME MemberTypeOK, NEW n \in Nodes, up[n] = "up", Leave(n)
    PROVE  MemberTypeOK'
  <1>1. /\ lease' \in [Nodes -> BOOLEAN]
        /\ keys' \in [VGs -> SUBSET Nodes]
        /\ pred' \in [VGs -> [Nodes -> SUBSET Nodes]]
        /\ ahead' \in [Workers -> SUBSET Nodes]
        /\ reg' \in [Ids -> Nodes \cup {NoNode}]
    BY DropLeaseType DEF Leave, MemberTypeOK, LockTypeOK
  <1>2. /\ up' = [up EXCEPT ![n] = "dead"]
        /\ mgr' = [mgr EXCEPT ![n] = "closed"]
        /\ cancelled' = [cancelled EXCEPT ![n] = FALSE]
        /\ UNCHANGED <<lst, lvg, sent>>
    BY DEF Leave, Forget
  <1> QED BY <1>1, <1>2 DEF MemberTypeOK, LockTypeOK

\* A caller's step, seen by the lock: one of its steps, or a wait that is
\* given up under a cancelled context.
LEMMA CallerLockStep ==
    ASSUME NEW w \in Workers, Caller(w)
    PROVE  LockStep(w) \/ WaitFailsCancelled(w)
  BY DEF Caller, LockStep

LEMMA MemberTypeStep ==
    ASSUME MemberTypeOK, [MemberNext]_memberVars
    PROVE  MemberTypeOK'
  <1> USE LockAssumption, MembershipAssumption
  <1>0. LockTypeOK
    BY DEF MemberTypeOK
  <1>1. CASE UNCHANGED memberVars
    BY <1>1 DEF MemberTypeOK, LockTypeOK, memberVars, lockVars
  <1>2. ASSUME NEW n \in Nodes, ManagerStep(n) PROVE MemberTypeOK'
    <2>1. CASE OpenSession(n)
      BY <2>1 DEF OpenSession, StartDaemon, MemberTypeOK, LockTypeOK
    <2>2. CASE Register(n)
      BY <2>2, PutNodeType DEF Register, lockVars, MemberTypeOK, LockTypeOK
    <2>3. CASE RegisterFails(n) \/ Close(n)
      BY <2>3, LeaveType DEF RegisterFails, Close
    <2>4. CASE Beat(n) \/ PutArrives(n)
      BY <2>4, PutNodeType DEF Beat, PutArrives, lockVars, MemberTypeOK, LockTypeOK
    <2>5. CASE BeatUnanswered(n) \/ StopBeat(n) \/ Signal(n)
      BY <2>5 DEF BeatUnanswered, StopBeat, Signal, Beating, lockVars, MemberTypeOK,
           LockTypeOK
    <2>6. CASE MemberCrash(n)
      BY <2>6 DEF MemberCrash, Crash, Forget, MemberTypeOK, LockTypeOK
    <2>7. CASE LeaseExpires(n)
      BY <2>7, DropLeaseType DEF LeaseExpires, MemberTypeOK, LockTypeOK
    <2> QED
      BY <1>2, <2>1, <2>2, <2>3, <2>4, <2>5, <2>6, <2>7 DEF ManagerStep
  <1>3. ASSUME NEW w \in Workers, Runs(w), Caller(w) PROVE MemberTypeOK'
    <2>1. LockTypeOK'
      <3>1. CASE LockStep(w)
        BY <1>0, <1>3, <3>1, LockTypeStep DEF LockNext
      <3>2. CASE WaitFailsCancelled(w)
        BY <1>0, <3>2 DEF WaitFailsCancelled, SetFree, LockTypeOK
      <3> QED BY <1>3, <3>1, <3>2, CallerLockStep
    <2>2. UNCHANGED <<up, mgr, cancelled, reg, sent>>
      BY <1>3 DEF Caller, TryAcquire, TryAcquireLate, LockWaitOver, LockWaitFails,
           WaitFailsCancelled, Unlock, UnlockFails
    <2> QED BY <2>1, <2>2 DEF MemberTypeOK
  <1> QED BY <1>1, <1>2, <1>3 DEF MemberNext

\* The manager's variables keep their types, and a process has a manager
\* exactly from its start to its end (internal/cluster).
THEOREM MemberTypeCorrect == MemberSpec => []MemberTypeOK
  BY MemberTypeInit, MemberTypeStep, PTL DEF MemberSpec

-----------------------------------------------------------------------------
(* The registry.                                                            *)

\* Whoever puts the key of an id, and in whatever order late puts, restarts
\* and expiries come, the entry is bound to a live lease of that id.
LEMMA ListedStep ==
    ASSUME MemberTypeOK, ListedIsLeased, [MemberNext]_memberVars
    PROVE  ListedIsLeased'
  <1> USE LockAssumption, MembershipAssumption
  <1>1. ASSUME UNCHANGED <<lease, reg>> PROVE ListedIsLeased'
    BY <1>1 DEF ListedIsLeased
  <1>2. ASSUME NEW n \in Nodes, PutNode(n), UNCHANGED lease PROVE ListedIsLeased'
    BY <1>2 DEF ListedIsLeased, PutNode, MemberTypeOK
  <1>3. ASSUME NEW n \in Nodes, DropLease(n) PROVE ListedIsLeased'
    BY <1>3 DEF ListedIsLeased, DropLease, MemberTypeOK, LockTypeOK
  <1>4. ASSUME NEW n \in Nodes, ManagerStep(n) PROVE ListedIsLeased'
    <2>1. CASE OpenSession(n)
      <3>1. reg' = reg /\ \A m \in Nodes : lease[m] => lease'[m]
        BY <2>1 DEF OpenSession, StartDaemon, MemberTypeOK, LockTypeOK
      <3> QED BY <3>1 DEF ListedIsLeased, MemberTypeOK
    <2>2. CASE Register(n) \/ Beat(n) \/ PutArrives(n)
      BY <1>2, <2>2 DEF Register, Beat, PutArrives, lockVars
    <2>3. CASE RegisterFails(n) \/ Close(n)
      BY <1>1, <1>3, <2>3 DEF RegisterFails, Close, Leave
    <2>4. CASE LeaseExpires(n)
      BY <1>3, <2>4 DEF LeaseExpires
    <2>5. CASE BeatUnanswered(n) \/ StopBeat(n) \/ Signal(n) \/ MemberCrash(n)
      BY <1>1, <2>5 DEF BeatUnanswered, StopBeat, Signal, MemberCrash, Crash, lockVars
    <2> QED BY <1>4, <2>1, <2>2, <2>3, <2>4, <2>5 DEF ManagerStep
  <1>5. ASSUME NEW w \in Workers, Caller(w) PROVE ListedIsLeased'
    BY <1>1, <1>5 DEF Caller, TryAcquire, TryAcquireLate, LockWaitOver, LockWaitFails,
         WaitFailsCancelled, Unlock, UnlockFails
  <1>6. CASE UNCHANGED memberVars
    BY <1>1, <1>6 DEF memberVars, lockVars
  <1> QED BY <1>4, <1>5, <1>6 DEF MemberNext

\* An entry of the registry is bound to a live lease of a daemon with that
\* id, also after a late put of a predecessor (registerNode, heartbeat).
THEOREM ListedAreLeased == MemberSpec => []ListedIsLeased
  <1>1. MemberInit => MemberTypeOK /\ ListedIsLeased
    BY MemberTypeInit, MembershipAssumption DEF MemberInit, ListedIsLeased
  <1>2. MemberTypeOK /\ ListedIsLeased /\ [MemberNext]_memberVars
          => (MemberTypeOK /\ ListedIsLeased)'
    BY MemberTypeStep, ListedStep
  <1> QED BY <1>1, <1>2, PTL DEF MemberSpec

-----------------------------------------------------------------------------
(* Keys and exclusion through the manager's life.                           *)

\* The keys stay ordered by age: a caller puts and deletes them as the lock
\* does, and a lease that ends takes its keys along.
LEMMA MemberKeyStep ==
    ASSUME MemberTypeOK, KeyInv, [MemberNext]_memberVars
    PROVE  KeyInv'
  <1>0. LockTypeOK
    BY DEF MemberTypeOK
  <1>1. ASSUME UNCHANGED <<keys, pred>> PROVE KeyInv'
    BY <1>1 DEF KeyInv, OlderKeysExist, KeyOrder
  <1>2. ASSUME NEW n \in Nodes, DropLease(n) PROVE KeyInv'
    BY <1>0, <1>2, DropKeysOrder DEF DropLease
  <1>3. ASSUME NEW n \in Nodes, ManagerStep(n) PROVE KeyInv'
    BY <1>1, <1>2, <1>3
    DEF ManagerStep, OpenSession, StartDaemon, Register, RegisterFails, Leave, Beat,
        BeatUnanswered, StopBeat, Close, Signal, MemberCrash, Crash, LeaseExpires,
        PutArrives, lockVars
  <1>4. ASSUME NEW w \in Workers, Runs(w), Caller(w) PROVE KeyInv'
    <2>1. CASE LockStep(w)
      BY <1>0, <1>4, <2>1, KeyStep DEF LockNext
    <2>2. CASE WaitFailsCancelled(w)
      BY <1>1, <2>2 DEF WaitFailsCancelled
    <2> QED BY <1>4, <2>1, <2>2, CallerLockStep
  <1>5. CASE UNCHANGED memberVars
    BY <1>1, <1>5 DEF memberVars, lockVars
  <1> QED BY <1>3, <1>4, <1>5 DEF MemberNext

\* The lock keys of a volume group stay totally ordered by age while
\* managers start, close, crash and lose their leases.
THEOREM MemberKeysOrdered == MemberSpec => []KeyOrder
  <1>1. MemberInit => MemberTypeOK /\ KeyInv
    BY MemberTypeInit, KeyInit DEF MemberInit
  <1>2. MemberTypeOK /\ KeyInv /\ [MemberNext]_memberVars => (MemberTypeOK /\ KeyInv)'
    BY MemberTypeStep, MemberKeyStep
  <1>3. KeyInv => KeyOrder
    BY DEF KeyInv
  <1> QED BY <1>1, <1>2, <1>3, PTL DEF MemberSpec

\* A lease that ends takes the keys of its daemon's workers, whose claims
\* the invariant then says nothing of.
LEMMA LeaseEndsInv ==
    ASSUME MemberTypeOK, LockInv, NEW n \in Nodes, DropLease(n), UNCHANGED <<lst, lvg>>
    PROVE  HeldByKey' /\ WaitsByKey'
  <1> USE LockAssumption
  <1>1. HeldByKey'
    BY DEF LockTypeOK, LockInv, HeldByKey, DropLease, DropKeys
  <1>2. WaitsByKey'
    BY DEF LockTypeOK, LockInv, WaitsByKey, DropLease, DropKeys
  <1> QED BY <1>1, <1>2

LEMMA MemberLockInvStep ==
    ASSUME OneWorkerPerNode, MemberTypeOK, LockInv, [MemberNext]_memberVars
    PROVE  LockInv'
  <1> USE LockAssumption
  <1>0. LockTypeOK' /\ KeyInv' /\ Locker = "etcd"
    BY MemberTypeStep, MemberKeyStep, MembershipAssumption DEF MemberTypeOK, LockInv
  <1>1. ASSUME UNCHANGED lockVars PROVE LockInv'
    BY <1>1, LockInvStep, <1>0
  <1>2. ASSUME NEW n \in Nodes, ManagerStep(n) PROVE LockInv'
    <2>1. CASE OpenSession(n) \/ MemberCrash(n)
      BY <1>0, <2>1, LockInvStep DEF OpenSession, MemberCrash, LockNext, DaemonStep
    <2>2. CASE Register(n) \/ Beat(n) \/ BeatUnanswered(n) \/ StopBeat(n) \/ Signal(n)
               \/ PutArrives(n)
      BY <1>1, <2>2 DEF Register, Beat, BeatUnanswered, StopBeat, Signal, PutArrives
    <2>3. CASE RegisterFails(n) \/ Close(n)
      <3>1. /\ up[n] = "up" /\ up' = [up EXCEPT ![n] = "dead"]
            /\ UNCHANGED <<lst, lvg>>
            /\ DropLease(n) \/ UNCHANGED <<lease, keys, pred, ahead>>
        BY <2>3 DEF RegisterFails, Close, Leave
      <3>2. NewIsIdle'
        BY <3>1 DEF LockInv, NewIsIdle, LockTypeOK
      <3>3. HeldByKey' /\ WaitsByKey'
        BY <3>1, LeaseEndsInv DEF LockInv, HeldByKey, WaitsByKey
      <3> QED BY <1>0, <3>2, <3>3 DEF LockInv
    <2>4. CASE LeaseExpires(n)
      <3>1. NewIsIdle'
        BY <2>4 DEF LeaseExpires, LockInv, NewIsIdle
      <3> QED BY <1>0, <2>4, <3>1, LeaseEndsInv DEF LeaseExpires, LockInv
    <2> QED BY <1>2, <2>1, <2>2, <2>3, <2>4 DEF ManagerStep
  <1>3. ASSUME NEW w \in Workers, Runs(w), Caller(w) PROVE LockInv'
    <2>1. CASE LockStep(w)
      BY <1>0, <1>3, <2>1, LockInvStep DEF LockNext
    <2>2. CASE WaitFailsCancelled(w)
      BY <1>0, <2>2
      DEF WaitFailsCancelled, SetFree, LockInv, LockTypeOK, HeldByKey, WaitsByKey, NewIsIdle
    <2> QED BY <1>3, <2>1, <2>2, CallerLockStep
  <1>4. CASE UNCHANGED memberVars
    BY <1>1, <1>4 DEF memberVars
  <1> QED BY <1>2, <1>3, <1>4 DEF MemberNext

\* With at most one call in flight per daemon, two workers whose leases live
\* are never both inside the lock of one volume group, also while daemons
\* start, are signalled, close, crash and restart under the same id.
THEOREM MemberExcludes ==
    ASSUME OneWorkerPerNode
    PROVE  MemberSpec => []MutualExclusion
  <1>1. MemberInit => MemberTypeOK /\ LockInv
    BY MemberTypeInit, LockInvInit DEF MemberInit
  <1>2. MemberTypeOK /\ LockInv /\ [MemberNext]_memberVars => (MemberTypeOK /\ LockInv)'
    BY MemberTypeStep, MemberLockInvStep
  <1>3. LockInv => MutualExclusion
    BY LockInvExcludes, MembershipAssumption
  <1> QED BY <1>1, <1>2, <1>3, PTL DEF MemberSpec
=============================================================================
