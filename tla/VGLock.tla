-------------------------------- MODULE VGLock --------------------------------
(***************************************************************************)
(* The per-VG lock every disk operation takes (internal/cluster).          *)
(*                                                                         *)
(* In standalone mode the locker is NoopLocker, which grants at once.  In  *)
(* cluster mode it is etcdLocker: Acquire makes a fresh concurrency.Mutex  *)
(* on the ONE etcd session of the daemon process, so the key a caller puts *)
(* under /locks/vg/<vg> is named by the session's lease and is shared by   *)
(* every goroutine (here: worker) of that process.  A member of Nodes is   *)
(* one life of a daemon process, that is one session; a daemon that        *)
(* restarts is another member of Nodes on the same host.                   *)
(*                                                                         *)
(* etcd orders keys by create revision.  All the mutex looks at is which   *)
(* keys were created before one's own, so revisions are represented by     *)
(* predecessor sets: pred[g][n] holds the nodes whose key for g is older   *)
(* than n's and still exists.                                              *)
(***************************************************************************)
EXTENDS Naturals

CONSTANTS
    Nodes,      \* lives of daemon processes; each owns one etcd session
    Hosts,      \* machines
    HostOf,     \* HostOf[n]: the machine daemon n runs on
    Workers,    \* goroutines serving calls
    NodeOf,     \* NodeOf[w]: the daemon worker w belongs to
    VGs,        \* LVM volume groups
    NoVG,       \* "no volume group"
    Locker,     \* "noop" (standalone) or "etcd" (cluster)
    Faults      \* the kinds of fault that may happen, see FaultKinds

(***************************************************************************)
(* "fail":   an external call returns an error and has no effect           *)
(* "late":   an external call takes effect and yet returns an error        *)
(* "cancel": the caller's context is cancelled or times out                *)
(* "crash":  a daemon process dies                                         *)
(* "expire": the lease of a live daemon runs out, or its session is closed *)
(*           at shutdown while handlers are still running                  *)
(***************************************************************************)
FaultKinds == {"fail", "late", "cancel", "crash", "expire"}

ASSUME LockAssumption ==
    /\ HostOf \in [Nodes -> Hosts]
    /\ NodeOf \in [Workers -> Nodes]
    /\ NoVG \notin VGs
    /\ Locker \in {"noop", "etcd"}
    /\ Faults \subseteq FaultKinds

VARIABLES
    up,         \* up[n]: "new", "up" or "dead"
    lease,      \* lease[n]: the lease of n's session is alive
    keys,       \* keys[g]: the nodes whose lock key for g exists
    pred,       \* pred[g][n]: the existing keys for g older than n's
    lst,        \* lst[w]: "free", "wait" (inside Mutex.Lock) or "held"
    lvg,        \* lvg[w]: the volume group w waits for or holds
    ahead       \* ahead[w]: the keys w still waits to see deleted

lockVars == <<up, lease, keys, pred, lst, lvg, ahead>>

\* Type invariant; a worker names a volume group exactly while it waits for
\* its lock or holds it.
LockTypeOK ==
    /\ up \in [Nodes -> {"new", "up", "dead"}]
    /\ lease \in [Nodes -> BOOLEAN]
    /\ keys \in [VGs -> SUBSET Nodes]
    /\ pred \in [VGs -> [Nodes -> SUBSET Nodes]]
    /\ lst \in [Workers -> {"free", "wait", "held"}]
    /\ lvg \in [Workers -> VGs \cup {NoVG}]
    /\ ahead \in [Workers -> SUBSET Nodes]
    /\ \A w \in Workers : lst[w] = "free" <=> lvg[w] = NoVG

LockInit ==
    /\ up = [n \in Nodes |-> "new"]
    /\ lease = [n \in Nodes |-> FALSE]
    /\ keys = [g \in VGs |-> {}]
    /\ pred = [g \in VGs |-> [n \in Nodes |-> {}]]
    /\ lst = [w \in Workers |-> "free"]
    /\ lvg = [w \in Workers |-> NoVG]
    /\ ahead = [w \in Workers |-> {}]

\* w's daemon process is running
Runs(w) == up[NodeOf[w]] = "up"

\* a call may return an error without having had an effect
MayFail == "fail" \in Faults
\* a call may return an error although it took effect
MayBeLate == "late" \in Faults

-----------------------------------------------------------------------------
(* Keys.                                                                    *)

\* etcd deletes n's lock keys of the volume groups in G: nobody waits for
\* them any longer.
DropKeys(n, G) ==
    /\ keys' = [g \in VGs |-> IF g \in G THEN keys[g] \ {n} ELSE keys[g]]
    /\ pred' = [g \in VGs |->
                  IF g \in G
                  THEN [m \in Nodes |-> IF m = n THEN {} ELSE pred[g][m] \ {n}]
                  ELSE pred[g]]

\* The waits of the workers once n's keys of G are gone; w itself stops.
AheadWithout(n, G, w) ==
    [v \in Workers |-> IF v = w THEN {}
                       ELSE IF lvg[v] \in G THEN ahead[v] \ {n} ELSE ahead[v]]

\* MUTANT of PutKey: the transaction puts the key again although it exists.
PutKeyAgain(n, g) ==
    /\ keys' = [keys EXCEPT ![g] = @ \cup {n}]
    /\ pred' = [pred EXCEPT ![g][n] = keys[g] \ {n}]

\* Mutex.tryAcquire's transaction: put the session's key unless it exists.
PutKey(n, g) ==
    /\ keys' = [keys EXCEPT ![g] = @ \cup {n}]
    /\ pred' = [pred EXCEPT ![g][n] = IF n \in keys[g] THEN @ ELSE keys[g]]

\* MUTANT of SetFree: the volume group is not forgotten.
SetFreeKeepsVG(w) ==
    /\ lst' = [lst EXCEPT ![w] = "free"]
    /\ UNCHANGED lvg

\* w is back outside the lock
SetFree(w) ==
    /\ lst' = [lst EXCEPT ![w] = "free"]
    /\ lvg' = [lvg EXCEPT ![w] = NoVG]

-----------------------------------------------------------------------------
(* Locker.Acquire and the release function it returns.                      *)

\* NoopLocker.Acquire
NoopAcquire(w, g) ==
    /\ Locker = "noop"
    /\ lst[w] = "free"
    /\ lst' = [lst EXCEPT ![w] = "held"]
    /\ lvg' = [lvg EXCEPT ![w] = g]
    /\ UNCHANGED <<up, lease, keys, pred, ahead>>

\* etcdLocker.Acquire: the transaction goes through.  The caller holds the
\* lock at once when its key is the oldest, else it waits for the older ones.
TryAcquire(w, g) ==
    LET n == NodeOf[w] IN
    /\ Locker = "etcd"
    /\ lst[w] = "free"
    /\ lease[n]
    /\ PutKey(n, g)
    /\ lst' = [lst EXCEPT ![w] = IF pred'[g][n] = {} THEN "held" ELSE "wait"]
    /\ lvg' = [lvg EXCEPT ![w] = g]
    /\ ahead' = [ahead EXCEPT ![w] = pred'[g][n]]
    /\ UNCHANGED <<up, lease>>

\* The transaction is committed but its answer is lost: Acquire returns an
\* error and nobody deletes the key.
TryAcquireLate(w, g) ==
    /\ Locker = "etcd"
    /\ MayBeLate
    /\ lst[w] = "free"
    /\ lease[NodeOf[w]]
    /\ PutKey(NodeOf[w], g)
    /\ UNCHANGED <<up, lease, lst, lvg, ahead>>

\* MUTANT of LockWaitOver: Lock returns although older keys exist.
LockWaitOverEarly(w) ==
    /\ lst[w] = "wait"
    /\ NodeOf[w] \in keys[lvg[w]]
    /\ lst' = [lst EXCEPT ![w] = "held"]
    /\ UNCHANGED <<up, lease, keys, pred, lvg, ahead>>

\* waitDeletes returned: Lock checks that the session's key still exists.
LockWaitOver(w) ==
    LET mine == NodeOf[w] \in keys[lvg[w]] IN
    /\ lst[w] = "wait"
    /\ ahead[w] = {}
    /\ \/ /\ mine
          /\ lst' = [lst EXCEPT ![w] = "held"]
          /\ UNCHANGED lvg
       \/ /\ ~mine          \* ErrSessionExpired
          /\ SetFree(w)
    /\ UNCHANGED <<up, lease, keys, pred, ahead>>

\* The wait fails (context cancelled, watch broken): Lock deletes the key.
LockWaitFails(w) ==
    /\ lst[w] = "wait"
    /\ DropKeys(NodeOf[w], {lvg[w]})
    /\ ahead' = AheadWithout(NodeOf[w], {lvg[w]}, w)
    /\ SetFree(w)
    /\ UNCHANGED <<up, lease>>

\* MUTANT of Unlock: the release function does not call Mutex.Unlock.
UnlockKeepsKey(w) ==
    /\ lst[w] = "held"
    /\ SetFree(w)
    /\ UNCHANGED <<up, lease, keys, pred, ahead>>

\* The release function: Mutex.Unlock deletes the session's key.
Unlock(w) ==
    /\ lst[w] = "held"
    /\ SetFree(w)
    /\ \/ /\ Locker = "etcd"
          /\ DropKeys(NodeOf[w], {lvg[w]})
          /\ ahead' = AheadWithout(NodeOf[w], {lvg[w]}, w)
       \/ /\ Locker = "noop"
          /\ UNCHANGED <<keys, pred, ahead>>
    /\ UNCHANGED <<up, lease>>

\* Unlock's five-second context runs out; the error is dropped.
UnlockFails(w) ==
    /\ Locker = "etcd"
    /\ MayFail
    /\ lst[w] = "held"
    /\ SetFree(w)
    /\ UNCHANGED <<up, lease, keys, pred, ahead>>

-----------------------------------------------------------------------------
(* Daemon processes and their sessions.                                     *)

\* The daemon starts; in cluster mode NewManager opens its session.
StartDaemon(n) ==
    /\ up[n] = "new"
    /\ \A m \in Nodes : HostOf[m] = HostOf[n] => up[m] # "up"
    /\ up' = [up EXCEPT ![n] = "up"]
    /\ lease' = [lease EXCEPT ![n] = Locker = "etcd"]
    /\ UNCHANGED <<keys, pred, lst, lvg, ahead>>

\* The process dies.  Its workers stop where they are; etcd still has its
\* lease.
Crash(n) ==
    /\ "crash" \in Faults
    /\ up[n] = "up"
    /\ up' = [up EXCEPT ![n] = "dead"]
    /\ UNCHANGED <<lease, keys, pred, lst, lvg, ahead>>

\* MUTANT of EndLease: the lock keys are not bound to the session's lease.
EndLeaseKeepsKeys(n) ==
    /\ lease[n]
    /\ up[n] = "dead" \/ "expire" \in Faults
    /\ lease' = [lease EXCEPT ![n] = FALSE]
    /\ UNCHANGED <<up, keys, pred, lst, lvg, ahead>>

\* The lease ends: LockTTL after a crash, or under a live daemon.  etcd
\* deletes all keys bound to it.
EndLease(n) ==
    /\ lease[n]
    /\ up[n] = "dead" \/ "expire" \in Faults
    /\ lease' = [lease EXCEPT ![n] = FALSE]
    /\ DropKeys(n, VGs)
    /\ ahead' = [v \in Workers |-> ahead[v] \ {n}]
    /\ UNCHANGED <<up, lst, lvg>>

DaemonStep(n) == StartDaemon(n) \/ Crash(n) \/ EndLease(n)

-----------------------------------------------------------------------------
(* The lock on its own, used by workers that acquire and release it.        *)

LockStep(w) ==
    \/ \E g \in VGs : \/ NoopAcquire(w, g)
                      \/ TryAcquire(w, g)
                      \/ TryAcquireLate(w, g)
    \/ LockWaitOver(w)
    \/ LockWaitFails(w)
    \/ Unlock(w)
    \/ UnlockFails(w)

LockNext ==
    \/ \E n \in Nodes : DaemonStep(n)
    \/ \E w \in Workers : Runs(w) /\ LockStep(w)

LockSpec == LockInit /\ [][LockNext]_lockVars

-----------------------------------------------------------------------------
(* What the lock promises.                                                  *)

\* w is inside the locked section of its volume group with its process
\* running and its lease alive.
Holds(w) == lst[w] = "held" /\ Runs(w)
Guarded(w) == Holds(w) /\ (Locker = "etcd" => lease[NodeOf[w]])

\* At most one call in flight in each daemon process: what Acquire needs to
\* exclude two workers, because all calls of a process share one mutex key.
OneWorkerPerNode ==
    \A v, w \in Workers : NodeOf[v] = NodeOf[w] => v = w

\* "All write operations on a Volume Group are serialised": two workers
\* whose leases live are never both inside the lock of one volume group.
MutualExclusion ==
    \A v, w \in Workers :
        Guarded(v) /\ Guarded(w) /\ lvg[v] = lvg[w] => v = w

\* The same between processes only: workers of one process may share a
\* lock, workers of two never do.
NodeExclusion ==
    \A v, w \in Workers :
        Guarded(v) /\ Guarded(w) /\ lvg[v] = lvg[w] => NodeOf[v] = NodeOf[w]

\* The keys of a volume group are totally ordered by age.
KeyOrder ==
    \A g \in VGs : \A m, n \in keys[g] :
        m # n => (m \in pred[g][n] <=> n \notin pred[g][m])

\* w is in the lock or waits for it, and its lease lives.
Queued(w) == lease[NodeOf[w]] /\ lst[w] # "free"

\* The queued workers of w's volume group whose key is older than w's
Earlier(w) ==
    {v \in Workers : Queued(v) /\ lvg[v] = lvg[w] /\ NodeOf[v] \in pred[lvg[w]][NodeOf[w]]}

\* The lock lets its callers in one by one, in the order in which they called
\* Acquire, whoever crashes, gives up waiting or loses its lease.
FC == INSTANCE FirstCome WITH
        Callers <- Workers,
        wants <- [w \in Workers |-> IF Queued(w) THEN lvg[w] ELSE NoVG],
        inside <- {w \in Workers : Queued(w) /\ lst[w] = "held"},
        before <- [w \in Workers |-> IF Queued(w) THEN Earlier(w) ELSE {}]

ImplementsFirstCome == FC!Spec
=============================================================================
