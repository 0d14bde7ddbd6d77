----------------------------- MODULE VGLockProofs -----------------------------
(***************************************************************************)
(* Proofs about the per-VG lock for any number of daemons, workers and     *)
(* volume groups and any set of faults, and that callers are served in     *)
(* order while etcd answers them.                                          *)
(***************************************************************************)
EXTENDS VGLock, TLAPS

-----------------------------------------------------------------------------
(* Type correctness.                                                        *)

\* What DropKeys does to keys and pred keeps their types.
LEMMA DropKeysType ==
    ASSUME LockTypeOK, NEW n \in Nodes, NEW G, DropKeys(n, G)
    PROVE  /\ keys' \in [VGs -> SUBSET Nodes]
           /\ pred' \in [VGs -> [Nodes -> SUBSET Nodes]]
  BY DEF LockTypeOK, DropKeys

LEMMA PutKeyType ==
    ASSUME LockTypeOK, NEW n \in Nodes, NEW g \in VGs, PutKey(n, g)
    PROVE  /\ keys' \in [VGs -> SUBSET Nodes]
           /\ pred' \in [VGs -> [Nodes -> SUBSET Nodes]]
  BY DEF LockTypeOK, PutKey

LEMMA AheadType ==
    ASSUME LockTypeOK, NEW n \in Nodes, NEW G, NEW w \in Workers
    PROVE  AheadWithout(n, G, w) \in [Workers -> SUBSET Nodes]
  BY DEF LockTypeOK, AheadWithout

\* Every step of the lock keeps the type invariant.
LEMMA LockTypeStep ==
    ASSUME LockTypeOK, [LockNext]_lockVars
    PROVE  LockTypeOK'
  <1> USE LockAssumption
  <1>1. CASE UNCHANGED lockVars
    BY <1>1 DEF LockTypeOK, lockVars
  <1>2. ASSUME NEW n \in Nodes, DaemonStep(n) PROVE LockTypeOK'
    <2>1. CASE StartDaemon(n)
      BY <2>1 DEF LockTypeOK, StartDaemon
    <2>2. CASE Crash(n)
      BY <2>2 DEF LockTypeOK, Crash
    <2>3. CASE EndLease(n)
      BY <2>3, DropKeysType DEF LockTypeOK, EndLease
    <2> QED BY <1>2, <2>1, <2>2, <2>3 DEF DaemonStep
  <1>3. ASSUME NEW w \in Workers, LockStep(w) PROVE LockTypeOK'
    <2>0. NodeOf[w] \in Nodes
      OBVIOUS
    <2>1. ASSUME NEW g \in VGs, NoopAcquire(w, g) PROVE LockTypeOK'
      BY <2>1 DEF LockTypeOK, NoopAcquire
    <2>2. ASSUME NEW g \in VGs, TryAcquire(w, g) PROVE LockTypeOK'
      BY <2>0, <2>2, PutKeyType DEF LockTypeOK, TryAcquire
    <2>3. ASSUME NEW g \in VGs, TryAcquireLate(w, g) PROVE LockTypeOK'
      BY <2>0, <2>3, PutKeyType DEF LockTypeOK, TryAcquireLate
    <2>4. CASE LockWaitOver(w)
      BY <2>4 DEF LockTypeOK, LockWaitOver, SetFree
    <2>5. CASE LockWaitFails(w)
      BY <2>0, <2>5, DropKeysType, AheadType DEF LockTypeOK, LockWaitFails, SetFree
    <2>6. CASE Unlock(w)
      BY <2>0, <2>6, DropKeysType, AheadType DEF LockTypeOK, Unlock, SetFree
    <2>7. CASE UnlockFails(w)
      BY <2>7 DEF LockTypeOK, UnlockFails, SetFree
    <2> QED
      BY <1>3, <2>1, <2>2, <2>3, <2>4, <2>5, <2>6, <2>7 DEF LockStep
  <1> QED
    BY <1>1, <1>2, <1>3 DEF LockNext

LEMMA LockTypeInit == LockInit => LockTypeOK
  BY LockAssumption DEF LockInit, LockTypeOK

\* The lock's variables keep their types (internal/cluster).
THEOREM LockTypeCorrect == LockSpec => []LockTypeOK
  BY LockTypeInit, LockTypeStep, PTL DEF LockSpec

-----------------------------------------------------------------------------
(* Keys are ordered by age, however many workers share a process.           *)

\* The keys older than a key exist and do not include the key.
OlderKeysExist ==
    \A g \in VGs : \A n \in keys[g] : pred[g][n] \subseteq keys[g] \ {n}

KeyInv == OlderKeysExist /\ KeyOrder

\* Deleting a daemon's keys keeps the order of the others.
LEMMA DropKeysOrder ==
    ASSUME LockTypeOK, KeyInv, NEW n \in Nodes, NEW G, DropKeys(n, G)
    PROVE  KeyInv'
  BY DEF LockTypeOK, KeyInv, OlderKeysExist, KeyOrder, DropKeys

\* A new key is younger than all others; putting an existing one is a no-op.
LEMMA PutKeyOrder ==
    ASSUME LockTypeOK, KeyInv, NEW n \in Nodes, NEW g \in VGs, PutKey(n, g)
    PROVE  KeyInv'
  BY DEF LockTypeOK, KeyInv, OlderKeysExist, KeyOrder, PutKey

LEMMA KeyStep ==
    ASSUME LockTypeOK, KeyInv, [LockNext]_lockVars
    PROVE  KeyInv'
  <1>1. ASSUME UNCHANGED <<keys, pred>> PROVE KeyInv'
    BY <1>1 DEF KeyInv, OlderKeysExist, KeyOrder
  <1>2. CASE UNCHANGED lockVars
    BY <1>1, <1>2 DEF lockVars
  <1>3. ASSUME NEW n \in Nodes, DaemonStep(n) PROVE KeyInv'
    BY <1>1, <1>3, DropKeysOrder DEF DaemonStep, StartDaemon, Crash, EndLease
  <1>4. ASSUME NEW w \in Workers, LockStep(w) PROVE KeyInv'
    <2>0. NodeOf[w] \in Nodes
      BY LockAssumption
    <2>1. ASSUME NEW g \in VGs,
                 NoopAcquire(w, g) \/ TryAcquire(w, g) \/ TryAcquireLate(w, g)
          PROVE  KeyInv'
      BY <1>1, <2>0, <2>1, PutKeyOrder DEF NoopAcquire, TryAcquire, TryAcquireLate
    <2>2. CASE LockWaitOver(w) \/ UnlockFails(w)
      BY <1>1, <2>2 DEF LockWaitOver, UnlockFails
    <2>3. CASE LockWaitFails(w) \/ Unlock(w)
      BY <1>1, <2>0, <2>3, DropKeysOrder DEF LockWaitFails, Unlock
    <2> QED BY <1>4, <2>1, <2>2, <2>3 DEF LockStep
  <1> QED BY <1>2, <1>3, <1>4 DEF LockNext

LEMMA KeyInit == LockInit => KeyInv
  BY DEF LockInit, KeyInv, OlderKeysExist, KeyOrder

\* The lock keys of a volume group are totally ordered by age, whatever
\* fails and however many workers use the session of one daemon.
THEOREM KeysOrdered == LockSpec => []KeyOrder
  <1>1. LockTypeOK /\ KeyInv /\ [LockNext]_lockVars => (LockTypeOK /\ KeyInv)'
    BY LockTypeStep, KeyStep
  <1>2. LockInit => LockTypeOK /\ KeyInv
    BY LockTypeInit, KeyInit
  <1>3. KeyInv => KeyOrder
    BY DEF KeyInv
  <1> QED BY <1>1, <1>2, <1>3, PTL DEF LockSpec

-----------------------------------------------------------------------------
(* Mutual exclusion.                                                        *)

(***************************************************************************)
(* What being inside the lock, or waiting for it, means while the lease    *)
(* lives: the session's key exists, and the worker knows exactly the older *)
(* ones.  With two workers in a process this is not inductive: the first   *)
(* to unlock deletes the key of both.                                      *)
(***************************************************************************)
HeldByKey ==
    \A w \in Workers : lease[NodeOf[w]] /\ lst[w] = "held" =>
        NodeOf[w] \in keys[lvg[w]] /\ pred[lvg[w]][NodeOf[w]] = {}

WaitsByKey ==
    \A w \in Workers : lease[NodeOf[w]] /\ lst[w] = "wait" =>
        NodeOf[w] \in keys[lvg[w]] /\ pred[lvg[w]][NodeOf[w]] = ahead[w]

\* Nobody is in the lock for a daemon that has not started.
NewIsIdle ==
    \A w \in Workers : up[NodeOf[w]] = "new" => lst[w] = "free"

LockInv == LockTypeOK /\ KeyInv /\ HeldByKey /\ WaitsByKey /\ NewIsIdle

LEMMA LockInvInit == LockInit => LockInv
  BY LockAssumption, LockTypeInit, KeyInit
  DEF LockInit, LockInv, HeldByKey, WaitsByKey, NewIsIdle

LEMMA LockInvStep ==
    ASSUME OneWorkerPerNode, Locker = "etcd", LockInv, [LockNext]_lockVars
    PROVE  LockInv'
  <1> USE LockAssumption
  <1>0. LockTypeOK /\ LockTypeOK' /\ KeyInv /\ KeyInv'
    BY LockTypeStep, KeyStep DEF LockInv
  <1> USE <1>0
  <1>1. CASE UNCHANGED lockVars
    BY <1>1 DEF LockInv, HeldByKey, WaitsByKey, NewIsIdle, lockVars
  <1>2. ASSUME NEW n \in Nodes, DaemonStep(n) PROVE LockInv'
    <2>1. CASE StartDaemon(n)
      BY <2>1 DEF LockTypeOK, LockInv, HeldByKey, WaitsByKey, NewIsIdle, StartDaemon
    <2>2. CASE Crash(n)
      BY <2>2 DEF LockTypeOK, LockInv, HeldByKey, WaitsByKey, NewIsIdle, Crash
    <2>3. CASE EndLease(n)
      <3>1. HeldByKey'
        BY <2>3 DEF LockTypeOK, LockInv, HeldByKey, EndLease, DropKeys
      <3>2. WaitsByKey'
        BY <2>3 DEF LockTypeOK, LockInv, WaitsByKey, EndLease, DropKeys
      <3>3. NewIsIdle'
        BY <2>3 DEF LockInv, NewIsIdle, EndLease
      <3> QED BY <3>1, <3>2, <3>3 DEF LockInv
    <2> QED BY <1>2, <2>1, <2>2, <2>3 DEF DaemonStep
  <1>3. ASSUME NEW w \in Workers, Runs(w), LockStep(w) PROVE LockInv'
    <2>0. /\ NodeOf[w] \in Nodes
          /\ up' = up
          /\ \A v \in Workers : v # w => NodeOf[v] # NodeOf[w] /\ lst'[v] = lst[v]
          /\ NewIsIdle'
      BY <1>3 DEF OneWorkerPerNode, LockTypeOK, LockInv, NewIsIdle, Runs, LockStep,
           NoopAcquire, TryAcquire, TryAcquireLate, LockWaitOver, LockWaitFails,
           Unlock, UnlockFails, SetFree
    <2>1. ASSUME NEW g \in VGs, TryAcquire(w, g) PROVE LockInv'
      BY <2>0, <2>1
      DEF LockTypeOK, LockInv, HeldByKey, WaitsByKey, TryAcquire, PutKey
    <2>2. ASSUME NEW g \in VGs, TryAcquireLate(w, g) PROVE LockInv'
      BY <2>0, <2>2
      DEF LockTypeOK, LockInv, HeldByKey, WaitsByKey, TryAcquireLate, PutKey
    <2>3. CASE LockWaitOver(w)
      <3>1. /\ UNCHANGED <<lease, keys, pred, ahead>>
            /\ \A v \in Workers : v # w => lvg'[v] = lvg[v]
            /\ lst'[w] \in {"held", "free"}
        BY <2>3 DEF LockWaitOver, SetFree, LockTypeOK
      <3>2. lst'[w] = "held" => /\ lst[w] = "wait" /\ ahead[w] = {}
                                /\ lvg'[w] = lvg[w]
        BY <2>3 DEF LockWaitOver, SetFree, LockTypeOK
      <3>3. HeldByKey'
        BY <2>0, <3>1, <3>2 DEF LockInv, HeldByKey, WaitsByKey
      <3>4. WaitsByKey'
        BY <2>0, <3>1 DEF LockInv, WaitsByKey
      <3> QED BY <2>0, <3>3, <3>4 DEF LockInv
    <2>4. CASE LockWaitFails(w) \/ Unlock(w)
      <3>1. /\ DropKeys(NodeOf[w], {lvg[w]})
            /\ ahead' = AheadWithout(NodeOf[w], {lvg[w]}, w)
            /\ SetFree(w)
            /\ lease' = lease
        BY <2>4 DEF LockWaitFails, Unlock
      <3>2. lst'[w] = "free" /\ \A v \in Workers : v # w => lvg'[v] = lvg[v]
        BY <3>1 DEF SetFree, LockTypeOK
      <3>3. HeldByKey'
        BY <2>0, <3>1, <3>2 DEF LockTypeOK, LockInv, HeldByKey, DropKeys
      <3>4. WaitsByKey'
        <4> SUFFICES ASSUME NEW v \in Workers, v # w, lease[NodeOf[v]], lst[v] = "wait"
                     PROVE  /\ NodeOf[v] \in keys'[lvg[v]]
                            /\ pred'[lvg[v]][NodeOf[v]] = ahead'[v]
          BY <2>0, <3>1, <3>2 DEF WaitsByKey
        <4>1. /\ NodeOf[v] \in keys[lvg[v]] /\ pred[lvg[v]][NodeOf[v]] = ahead[v]
              /\ NodeOf[v] \in Nodes /\ NodeOf[v] # NodeOf[w] /\ lvg[v] \in VGs
          BY <2>0 DEF LockInv, WaitsByKey, LockTypeOK
        <4>2. ahead'[v] = IF lvg[v] = lvg[w] THEN ahead[v] \ {NodeOf[w]} ELSE ahead[v]
          BY <3>1 DEF AheadWithout
        <4>3. pred'[lvg[v]][NodeOf[v]] =
                IF lvg[v] = lvg[w] THEN pred[lvg[v]][NodeOf[v]] \ {NodeOf[w]}
                                   ELSE pred[lvg[v]][NodeOf[v]]
          BY <3>1, <4>1 DEF DropKeys
        <4>4. NodeOf[v] \in keys'[lvg[v]]
          BY <3>1, <4>1 DEF DropKeys
        <4> QED BY <4>1, <4>2, <4>3, <4>4
      <3> QED BY <2>0, <3>3, <3>4 DEF LockInv
    <2>5. CASE UnlockFails(w)
      BY <2>0, <2>5
      DEF LockTypeOK, LockInv, HeldByKey, WaitsByKey, UnlockFails, SetFree
    <2> QED
      BY <1>3, <2>1, <2>2, <2>3, <2>4, <2>5 DEF LockStep, NoopAcquire
  <1> QED BY <1>1, <1>2, <1>3 DEF LockNext

\* Of two holders the one with the younger key would not hold.
LEMMA LockInvExcludes ==
    ASSUME OneWorkerPerNode, Locker = "etcd", LockInv
    PROVE  MutualExclusion
  <1> SUFFICES ASSUME NEW v \in Workers, NEW w \in Workers,
                      Guarded(v), Guarded(w), lvg[v] = lvg[w], v # w
               PROVE  FALSE
    BY DEF MutualExclusion
  <1>1. NodeOf[v] # NodeOf[w] /\ NodeOf[v] \in Nodes /\ NodeOf[w] \in Nodes
    BY LockAssumption DEF OneWorkerPerNode
  <1>2. /\ NodeOf[v] \in keys[lvg[v]] /\ pred[lvg[v]][NodeOf[v]] = {}
        /\ NodeOf[w] \in keys[lvg[v]] /\ pred[lvg[v]][NodeOf[w]] = {}
    BY DEF LockInv, HeldByKey, Guarded, Holds
  <1>3. lvg[v] \in VGs
    BY LockAssumption DEF LockInv, LockTypeOK, Guarded, Holds
  <1> QED BY <1>1, <1>2, <1>3 DEF LockInv, KeyInv, KeyOrder

\* In cluster mode, with at most one call in flight per daemon, two workers
\* whose leases live are never both inside the lock of one volume group,
\* whatever crashes, expires, is lost or is cancelled.
THEOREM LockExcludes ==
    ASSUME OneWorkerPerNode, Locker = "etcd"
    PROVE  LockSpec => []MutualExclusion
  <1>1. LockInv /\ [LockNext]_lockVars => LockInv'
    BY LockInvStep
  <1>2. LockInv => MutualExclusion
    BY LockInvExcludes
  <1> QED BY <1>1, <1>2, LockInvInit, PTL DEF LockSpec

-----------------------------------------------------------------------------
(* First come, first served.                                                *)

\* The transaction that puts the key and the call that deletes it are
\* answered: no key is left of a call that is over.
EtcdAnswers == {"late", "fail"} \cap Faults = {}

\* Every key is that of a call in the lock or waiting for it.
KeysUsed ==
    \A g \in VGs : \A n \in keys[g] :
        \E w \in Workers : NodeOf[w] = n /\ lvg[w] = g /\ Queued(w)

OrderInv == LockInv /\ KeysUsed

\* The queue that FirstCome sees
wantsBar == [w \in Workers |-> IF Queued(w) THEN lvg[w] ELSE NoVG]
insideBar == {w \in Workers : Queued(w) /\ lst[w] = "held"}
beforeBar == [w \in Workers |-> IF Queued(w) THEN Earlier(w) ELSE {}]

\* Who is queued has its key, and the others have none.
LEMMA KeysAreQueue ==
    ASSUME OneWorkerPerNode, OrderInv, NEW w \in Workers, NEW g \in VGs
    PROVE  /\ NodeOf[w] \in keys[g] <=> Queued(w) /\ lvg[w] = g
           /\ Queued(w) => lvg[w] \in VGs
           /\ Queued(w) /\ lst[w] = "held" => pred[lvg[w]][NodeOf[w]] = {}
           /\ Queued(w) /\ lst[w] = "wait" => pred[lvg[w]][NodeOf[w]] = ahead[w]
           /\ Queued(w) => pred[lvg[w]][NodeOf[w]] \subseteq keys[lvg[w]] \ {NodeOf[w]}
  <1>0. lst[w] \in {"free", "wait", "held"} /\ (lst[w] = "free" <=> lvg[w] = NoVG)
        /\ lvg[w] \in VGs \cup {NoVG}
    BY DEF OrderInv, LockInv, LockTypeOK
  <1>1. ASSUME NodeOf[w] \in keys[g] PROVE Queued(w) /\ lvg[w] = g
    BY <1>1 DEF OrderInv, KeysUsed, OneWorkerPerNode
  <1>2. Queued(w) => lvg[w] \in VGs /\ NodeOf[w] \in keys[lvg[w]]
    BY <1>0 DEF OrderInv, LockInv, HeldByKey, WaitsByKey, Queued
  <1>3. Queued(w) /\ lst[w] = "held" => pred[lvg[w]][NodeOf[w]] = {}
    BY DEF OrderInv, LockInv, HeldByKey, Queued
  <1>4. Queued(w) /\ lst[w] = "wait" => pred[lvg[w]][NodeOf[w]] = ahead[w]
    BY DEF OrderInv, LockInv, WaitsByKey, Queued
  <1>5. Queued(w) => pred[lvg[w]][NodeOf[w]] \subseteq keys[lvg[w]] \ {NodeOf[w]}
    BY <1>2 DEF OrderInv, LockInv, KeyInv, OlderKeysExist
  <1> QED BY <1>1, <1>2, <1>3, <1>4, <1>5

\* Acquire puts a new key, behind all others.
LEMMA AcquireAsks ==
    ASSUME OneWorkerPerNode, OrderInv, NEW w \in Workers, NEW g \in VGs, TryAcquire(w, g)
    PROVE  KeysUsed' /\ FC!Ask(w, g)
  <1> USE LockAssumption
  <1>0. LockTypeOK /\ NodeOf[w] \in Nodes /\ lst[w] = "free" /\ ~Queued(w) /\ lease[NodeOf[w]]
    BY DEF OrderInv, LockInv, TryAcquire, Queued
  <1>1. NodeOf[w] \notin keys[g] /\ \A v \in Workers : v # w => NodeOf[v] # NodeOf[w]
    BY <1>0, KeysAreQueue DEF OneWorkerPerNode
  <1>2. /\ keys' = [keys EXCEPT ![g] = @ \cup {NodeOf[w]}]
        /\ pred' = [pred EXCEPT ![g][NodeOf[w]] = keys[g]]
        /\ lease' = lease /\ lvg' = [lvg EXCEPT ![w] = g]
        /\ lst' = [lst EXCEPT ![w] = IF keys[g] = {} THEN "held" ELSE "wait"]
    BY <1>0, <1>1 DEF TryAcquire, PutKey, LockTypeOK
  <1>3. /\ Queued(w)' /\ lvg'[w] = g /\ pred'[g][NodeOf[w]] = keys[g]
        /\ lst'[w] = "held" <=> keys[g] = {}
    BY <1>0, <1>2 DEF LockTypeOK, Queued
  <1>4. ASSUME NEW v \in Workers, v # w
        PROVE  /\ Queued(v)' <=> Queued(v)
               /\ lvg'[v] = lvg[v] /\ lst'[v] = lst[v] /\ NodeOf[v] \in Nodes
               /\ \A h \in VGs : pred'[h][NodeOf[v]] = pred[h][NodeOf[v]]
    BY <1>0, <1>1, <1>2, <1>4 DEF LockTypeOK, Queued
  <1>5. KeysUsed'
    <2> SUFFICES ASSUME NEW h \in VGs, NEW n \in keys'[h]
                 PROVE  \E v \in Workers : NodeOf[v] = n /\ lvg'[v] = h /\ Queued(v)'
      BY DEF KeysUsed
    <2>1. CASE n \in keys[h]
      <3>1. PICK v \in Workers : NodeOf[v] = n /\ lvg[v] = h /\ Queued(v)
        BY <2>1 DEF OrderInv, KeysUsed
      <3>2. v # w
        BY <1>0, <3>1
      <3> QED BY <1>4, <3>1, <3>2
    <2>2. CASE n \notin keys[h]
      <3>1. h = g /\ n = NodeOf[w]
        BY <1>0, <1>2, <2>2 DEF LockTypeOK
      <3> QED BY <1>3, <3>1
    <2> QED BY <2>1, <2>2
  <1>6. \A v \in Workers : wantsBar[v] = g <=> NodeOf[v] \in keys[g]
    BY KeysAreQueue DEF wantsBar
  <1>7. {v \in Workers : wantsBar[v] = g} = {} <=> keys[g] = {}
    <2>1. keys[g] # {} => \E v \in Workers : NodeOf[v] \in keys[g]
      BY DEF OrderInv, KeysUsed
    <2> QED BY <1>6, <2>1
  <1>8. wantsBar[w] = NoVG /\ wantsBar' = [wantsBar EXCEPT ![w] = g]
    BY <1>0, <1>3, <1>4 DEF wantsBar
  <1>9. insideBar' = IF keys[g] = {} THEN insideBar \cup {w} ELSE insideBar
    BY <1>0, <1>3, <1>4 DEF insideBar
  <1>10. beforeBar' = [beforeBar EXCEPT ![w] = {v \in Workers : wantsBar[v] = g}]
    <2>1. Earlier(w)' = {v \in Workers : wantsBar[v] = g}
      <3>1. Earlier(w)' = {v \in Workers : Queued(v)' /\ lvg'[v] = g /\ NodeOf[v] \in keys[g]}
        BY <1>3 DEF Earlier
      <3>2. \A v \in Workers : NodeOf[v] \in keys[g] => Queued(v)' /\ lvg'[v] = g
        BY <1>1, <1>4, KeysAreQueue
      <3> QED BY <1>6, <3>1, <3>2
    <2>2. ASSUME NEW v \in Workers, v # w, Queued(v) PROVE Earlier(v)' = Earlier(v)
      <3>1. lvg[v] \in VGs /\ pred[lvg[v]][NodeOf[v]] \subseteq keys[lvg[v]]
        BY <2>2, KeysAreQueue
      <3>2. NodeOf[w] \notin pred[lvg[v]][NodeOf[v]]
        BY <1>0, <3>1, KeysAreQueue
      <3>3. lvg'[v] = lvg[v] /\ pred'[lvg[v]][NodeOf[v]] = pred[lvg[v]][NodeOf[v]]
        BY <1>4, <2>2, <3>1
      <3> QED BY <1>4, <3>2, <3>3 DEF Earlier
    <2>3. \A v \in Workers : v # w => beforeBar'[v] = beforeBar[v]
      BY <1>4, <2>2 DEF beforeBar
    <2>4. beforeBar'[w] = {v \in Workers : wantsBar[v] = g}
      BY <1>3, <2>1 DEF beforeBar
    <2> QED BY <2>3, <2>4 DEF beforeBar
  <1> QED BY <1>5, <1>7, <1>8, <1>9, <1>10 DEF FC!Ask, wantsBar, insideBar, beforeBar

\* A wait that is over lets the first of the queue in, or is that of a call
\* whose lease has ended.
LEMMA WaitOverEnters ==
    ASSUME OneWorkerPerNode, OrderInv, NEW w \in Workers, LockWaitOver(w)
    PROVE  KeysUsed' /\ (FC!Enter(w) \/ UNCHANGED FC!vars)
  <1> USE LockAssumption
  <1>0. LockTypeOK /\ lst[w] = "wait" /\ ahead[w] = {} /\ lvg[w] \in VGs
        /\ UNCHANGED <<lease, keys, pred>>
    BY DEF OrderInv, LockInv, LockTypeOK, LockWaitOver
  <1>1. ASSUME NEW v \in Workers, v # w
        PROVE  (Queued(v)' <=> Queued(v)) /\ lvg'[v] = lvg[v] /\ lst'[v] = lst[v]
    BY <1>0, <1>1 DEF LockWaitOver, SetFree, LockTypeOK, Queued
  <1>2. Queued(w) <=> NodeOf[w] \in keys[lvg[w]]
    BY <1>0, KeysAreQueue
  <1>3. /\ Queued(w)' <=> Queued(w)
        /\ Queued(w) => lvg'[w] = lvg[w] /\ lst'[w] = "held"
    BY <1>0, <1>2 DEF LockWaitOver, SetFree, LockTypeOK, Queued
  <1>4. \A v \in Workers : (Queued(v)' <=> Queued(v)) /\ (Queued(v) => lvg'[v] = lvg[v])
    BY <1>1, <1>3
  <1>5. KeysUsed'
    BY <1>0, <1>4 DEF OrderInv, KeysUsed
  <1>6. wantsBar' = wantsBar
    BY <1>4 DEF wantsBar
  <1>7. \A v \in Workers : Queued(v) => Earlier(v)' = Earlier(v)
    BY <1>0, <1>4 DEF Earlier
  <1>8. beforeBar' = beforeBar
    BY <1>4, <1>7 DEF beforeBar
  <1>9. CASE Queued(w)
    <2>1. insideBar' = insideBar \cup {w}
      BY <1>1, <1>3, <1>9 DEF insideBar
    <2>2. wantsBar[w] # NoVG /\ beforeBar[w] = {}
      BY <1>0, <1>9, KeysAreQueue DEF wantsBar, beforeBar, Earlier
    <2> QED BY <1>5, <1>6, <1>8, <2>1, <2>2 DEF FC!Enter, wantsBar, insideBar, beforeBar
  <1>10. CASE ~Queued(w)
    <2>1. insideBar' = insideBar
      BY <1>1, <1>3, <1>10 DEF insideBar
    <2> QED BY <1>5, <1>6, <1>8, <2>1 DEF FC!vars, wantsBar, insideBar, beforeBar
  <1> QED BY <1>9, <1>10

\* A call leaves and its key is deleted; of a call whose lease has ended there
\* was none.
LEMMA DropLeaves ==
    ASSUME OneWorkerPerNode, OrderInv, NEW w \in Workers, NEW G \in SUBSET VGs,
           DropKeys(NodeOf[w], G), ~Queued(w)', Queued(w) => lvg[w] \in G,
           \A v \in Workers : v # w =>
               (Queued(v)' <=> Queued(v)) /\ lvg'[v] = lvg[v] /\ lst'[v] = lst[v]
    PROVE  KeysUsed' /\ (FC!Leave(w) \/ UNCHANGED FC!vars)
  <1> USE LockAssumption
  <1>0. LockTypeOK /\ NodeOf[w] \in Nodes
    BY DEF OrderInv, LockInv
  <1>1. ASSUME NEW v \in Workers, v # w PROVE NodeOf[v] # NodeOf[w] /\ NodeOf[v] \in Nodes
    BY <1>1 DEF OneWorkerPerNode
  <1>2. \A h \in VGs : keys'[h] = keys[h] \ {NodeOf[w]}
    <2>1. ASSUME NEW h \in VGs, h \notin G PROVE NodeOf[w] \notin keys[h]
      BY <2>1, KeysAreQueue
    <2> QED BY <2>1 DEF DropKeys
  <1>3. KeysUsed'
    <2> SUFFICES ASSUME NEW h \in VGs, NEW n \in keys'[h]
                 PROVE  \E v \in Workers : NodeOf[v] = n /\ lvg'[v] = h /\ Queued(v)'
      BY DEF KeysUsed
    <2>1. n \in keys[h] /\ n # NodeOf[w]
      BY <1>2
    <2>2. PICK v \in Workers : NodeOf[v] = n /\ lvg[v] = h /\ Queued(v)
      BY <2>1 DEF OrderInv, KeysUsed
    <2> QED BY <2>1, <2>2
  <1>4. ASSUME NEW v \in Workers, v # w, Queued(v) PROVE Earlier(v)' = Earlier(v) \ {w}
    <2>1. lvg[v] \in VGs /\ pred[lvg[v]][NodeOf[v]] \in SUBSET Nodes
      BY <1>0, <1>1, <1>4 DEF LockTypeOK, Queued
    <2>2. ASSUME NEW u \in Workers, u # w
          PROVE  NodeOf[u] \in pred'[lvg[v]][NodeOf[v]] <=> NodeOf[u] \in pred[lvg[v]][NodeOf[v]]
      BY <1>1, <1>4, <2>1, <2>2 DEF DropKeys
    <2>3. lvg'[v] = lvg[v]
      BY <1>4
    <2> QED BY <2>2, <2>3 DEF Earlier
  <1>5. CASE Queued(w)
    <2>1. wantsBar[w] # NoVG /\ wantsBar' = [wantsBar EXCEPT ![w] = NoVG]
      <3>1. lvg[w] # NoVG
        BY <1>0, <1>5
      <3> QED BY <1>5, <3>1 DEF wantsBar
    <2>2. insideBar' = insideBar \ {w}
      BY DEF insideBar
    <2>3. \A v \in Workers : beforeBar'[v] = IF v = w THEN {} ELSE beforeBar[v] \ {w}
      BY <1>4 DEF beforeBar
    <2>4. beforeBar' = [v \in Workers |-> IF v = w THEN {} ELSE beforeBar[v] \ {w}]
      BY <2>3 DEF beforeBar
    <2> QED BY <1>3, <2>1, <2>2, <2>4 DEF FC!Leave, wantsBar, insideBar, beforeBar
  <1>6. CASE ~Queued(w)
    <2>1. wantsBar' = wantsBar
      BY <1>6 DEF wantsBar
    <2>2. insideBar' = insideBar
      BY <1>6 DEF insideBar
    <2>3. \A v \in Workers : Queued(v) => w \notin Earlier(v)
      BY <1>6 DEF Earlier
    <2>4. \A v \in Workers : beforeBar'[v] = beforeBar[v]
      BY <1>4, <1>6, <2>3 DEF beforeBar
    <2>5. beforeBar' = beforeBar
      BY <2>4 DEF beforeBar
    <2> QED BY <1>3, <2>1, <2>2, <2>5 DEF FC!vars, wantsBar, insideBar, beforeBar
  <1> QED BY <1>5, <1>6

\* A step that changes neither keys nor who is queued.
LEMMA QueueKept ==
    ASSUME OrderInv, UNCHANGED <<keys, pred, lst, lvg>>,
           \A w \in Workers : Queued(w)' <=> Queued(w)
    PROVE  KeysUsed' /\ UNCHANGED FC!vars
  <1>1. KeysUsed'
    BY DEF OrderInv, KeysUsed
  <1>2. \A w \in Workers : Earlier(w)' = Earlier(w)
    BY DEF Earlier
  <1>3. wantsBar' = wantsBar
    BY DEF wantsBar
  <1>4. insideBar' = insideBar
    BY DEF insideBar
  <1>5. beforeBar' = beforeBar
    BY <1>2 DEF beforeBar
  <1> QED BY <1>1, <1>3, <1>4, <1>5 DEF FC!vars, wantsBar, insideBar, beforeBar

LEMMA OrderStep ==
    ASSUME OneWorkerPerNode, Locker = "etcd", EtcdAnswers, OrderInv, [LockNext]_lockVars
    PROVE  OrderInv' /\ [FC!Next]_FC!vars
  <1> USE LockAssumption
  <1>0. LockInv' /\ LockTypeOK /\ LockTypeOK' /\ LockInv
    BY LockInvStep DEF OrderInv, LockInv
  <1> SUFFICES KeysUsed' /\ [FC!Next]_FC!vars
    BY <1>0 DEF OrderInv
  <1>1. CASE UNCHANGED lockVars
    <2>1. \A w \in Workers : Queued(w)' <=> Queued(w)
      BY <1>1 DEF Queued, lockVars
    <2> QED BY <1>1, <2>1, QueueKept DEF lockVars
  <1>2. ASSUME NEW n \in Nodes, DaemonStep(n) PROVE KeysUsed' /\ [FC!Next]_FC!vars
    <2>1. CASE StartDaemon(n)
      <3>1. \A w \in Workers : Queued(w)' <=> Queued(w)
        BY <1>0, <2>1 DEF StartDaemon, Queued, LockInv, NewIsIdle, LockTypeOK
      <3> QED BY <2>1, <3>1, QueueKept DEF StartDaemon
    <2>2. CASE Crash(n)
      <3>1. \A w \in Workers : Queued(w)' <=> Queued(w)
        BY <2>2 DEF Crash, Queued
      <3> QED BY <2>2, <3>1, QueueKept DEF Crash
    <2>3. CASE EndLease(n)
      <3>1. /\ DropKeys(n, VGs) /\ UNCHANGED <<lst, lvg>> /\ ~lease'[n]
            /\ \A m \in Nodes : m # n => lease'[m] = lease[m]
        BY <1>0, <2>3 DEF EndLease, LockTypeOK
      <3>2. CASE \E w \in Workers : NodeOf[w] = n
        <4>1. PICK w \in Workers : NodeOf[w] = n
          BY <3>2
        <4>2. ~Queued(w)' /\ (Queued(w) => lvg[w] \in VGs)
          BY <1>0, <3>1, <4>1 DEF Queued, LockTypeOK
        <4>3. \A v \in Workers : v # w =>
                (Queued(v)' <=> Queued(v)) /\ lvg'[v] = lvg[v] /\ lst'[v] = lst[v]
          BY <3>1, <4>1 DEF Queued, OneWorkerPerNode
        <4>4. KeysUsed' /\ (FC!Leave(w) \/ UNCHANGED FC!vars)
          BY <3>1, <4>1, <4>2, <4>3, DropLeaves
        <4> QED BY <4>4 DEF FC!Next
      <3>3. CASE ~\E w \in Workers : NodeOf[w] = n
        <4>1. \A h \in VGs : n \notin keys[h]
          BY <3>3 DEF OrderInv, KeysUsed
        <4>2. keys' = keys
          BY <1>0, <3>1, <4>1 DEF DropKeys, LockTypeOK
        <4>3. \A w \in Workers : Queued(w)' <=> Queued(w)
          BY <3>1, <3>3 DEF Queued
        <4>4. KeysUsed'
          BY <3>1, <4>2, <4>3 DEF OrderInv, KeysUsed
        <4>5. \A w \in Workers : Queued(w) => Earlier(w)' = Earlier(w)
          <5> SUFFICES ASSUME NEW w \in Workers, Queued(w) PROVE Earlier(w)' = Earlier(w)
            OBVIOUS
          <5>1. lvg[w] \in VGs /\ NodeOf[w] \in Nodes /\ NodeOf[w] # n
            BY <1>0, <3>3 DEF Queued, LockTypeOK
          <5>2. pred'[lvg[w]][NodeOf[w]] = pred[lvg[w]][NodeOf[w]] \ {n}
            BY <3>1, <5>1 DEF DropKeys
          <5>3. lvg'[w] = lvg[w] /\ \A v \in Workers : lvg'[v] = lvg[v] /\ NodeOf[v] # n
            BY <3>1, <3>3
          <5> QED BY <4>3, <5>2, <5>3 DEF Earlier
        <4>6. wantsBar' = wantsBar /\ insideBar' = insideBar
          BY <3>1, <4>3 DEF wantsBar, insideBar
        <4>7. beforeBar' = beforeBar
          BY <4>3, <4>5 DEF beforeBar
        <4> QED BY <4>4, <4>6, <4>7 DEF FC!vars, wantsBar, insideBar, beforeBar
      <3> QED BY <3>2, <3>3
    <2> QED BY <1>2, <2>1, <2>2, <2>3 DEF DaemonStep
  <1>3. ASSUME NEW w \in Workers, LockStep(w) PROVE KeysUsed' /\ [FC!Next]_FC!vars
    <2>1. ASSUME NEW g \in VGs, TryAcquire(w, g) PROVE KeysUsed' /\ [FC!Next]_FC!vars
      BY <2>1, AcquireAsks DEF FC!Next
    <2>2. CASE LockWaitOver(w)
      BY <2>2, WaitOverEnters DEF FC!Next
    <2>3. CASE LockWaitFails(w) \/ Unlock(w)
      <3>1. DropKeys(NodeOf[w], {lvg[w]}) /\ SetFree(w) /\ lease' = lease /\ lvg[w] \in VGs
        BY <1>0, <2>3 DEF LockWaitFails, Unlock, LockTypeOK
      <3>2. ~Queued(w)'
        BY <1>0, <3>1 DEF SetFree, Queued, LockTypeOK
      <3>3. \A v \in Workers : v # w =>
              (Queued(v)' <=> Queued(v)) /\ lvg'[v] = lvg[v] /\ lst'[v] = lst[v]
        BY <1>0, <3>1 DEF SetFree, Queued, LockTypeOK
      <3>4. KeysUsed' /\ (FC!Leave(w) \/ UNCHANGED FC!vars)
        BY <3>1, <3>2, <3>3, DropLeaves
      <3> QED BY <3>4 DEF FC!Next
    <2> QED BY <1>3, <2>1, <2>2, <2>3
            DEF LockStep, NoopAcquire, TryAcquireLate, UnlockFails, EtcdAnswers, MayBeLate, MayFail
  <1> QED BY <1>1, <1>2, <1>3 DEF LockNext

\* With at most one call in flight per daemon and an etcd that answers, the
\* lock of a volume group is granted in the order in which Acquire was called,
\* to one call at a time and at once when nobody has it, for any number of
\* daemons, whoever dies, gives up waiting or loses its lease.
THEOREM LockIsFirstCome ==
    ASSUME OneWorkerPerNode, Locker = "etcd", EtcdAnswers
    PROVE  LockSpec => ImplementsFirstCome
  <1>1. LockInit => OrderInv /\ FC!Init
    <2> SUFFICES ASSUME LockInit PROVE OrderInv /\ FC!Init
      OBVIOUS
    <2>1. OrderInv
      BY LockInvInit DEF LockInit, OrderInv, KeysUsed
    <2>2. \A w \in Workers : ~Queued(w)
      BY DEF LockInit, Queued
    <2> QED BY <2>1, <2>2 DEF FC!Init
  <1>2. OrderInv /\ [LockNext]_lockVars => OrderInv' /\ [FC!Next]_FC!vars
    BY OrderStep
  <1> QED BY <1>1, <1>2, PTL DEF LockSpec, ImplementsFirstCome, FC!Spec
=============================================================================
