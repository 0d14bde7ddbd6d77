------------------------------ MODULE Membership ------------------------------
(***************************************************************************)
(* The life of cluster.Manager (internal/cluster): NewManager opens the    *)
(* session and registers the node under /nodes/<id> with the session's     *)
(* lease, a heartbeat repeats the put, Close ends them.  The same lease    *)
(* carries the lock keys of VGLock, so this module extends it.             *)
(*                                                                         *)
(* An id outlives a process: several members of Nodes may have one id, a   *)
(* daemon and its successor on the host, or two daemons that were given    *)
(* the same node_id.  The etcd client is made with the root context of the *)
(* daemon, which the signal cancels; the keep-alive and the revocation of  *)
(* the session, and the clean-up of an interrupted Mutex.Lock, run under   *)
(* that context.                                                           *)
(***************************************************************************)
EXTENDS VGLock

CONSTANTS
    Ids,        \* node ids
    IdOf,       \* IdOf[n]: the node id daemon n was configured with
    NoNode      \* "no daemon"

ASSUME MembershipAssumption ==
    /\ IdOf \in [Nodes -> Ids]
    /\ NoNode \notin Nodes
    /\ Locker = "etcd"

VARIABLES
    mgr,        \* mgr[n]: "none", "session", "beating", "stopping",
                \* "closed" (it ended in good order) or "lost" (it crashed)
    cancelled,  \* cancelled[n]: n's root context is cancelled
    reg,        \* reg[i]: the daemon whose lease the key of id i is bound to
    sent        \* sent[n]: a put of the heartbeat that etcd has yet to apply

memberVars == <<lockVars, mgr, cancelled, reg, sent>>

\* Type invariant; a process that has started has a manager, and ends with
\* it.
MemberTypeOK ==
    /\ LockTypeOK
    /\ mgr \in [Nodes -> {"none", "session", "beating", "stopping",
                      "closed", "lost"}]
    /\ cancelled \in [Nodes -> BOOLEAN]
    /\ reg \in [Ids -> Nodes \cup {NoNode}]
    /\ sent \in [Nodes -> BOOLEAN]
    /\ \A n \in Nodes : up[n] = "new" <=> mgr[n] = "none"
    /\ \A n \in Nodes : up[n] = "dead" <=> mgr[n] \in {"closed", "lost"}

MemberInit ==
    /\ LockInit
    /\ mgr = [n \in Nodes |-> "none"]
    /\ cancelled = [n \in Nodes |-> FALSE]
    /\ reg = [i \in Ids |-> NoNode]
    /\ sent = [n \in Nodes |-> FALSE]

-----------------------------------------------------------------------------
(* etcd.                                                                    *)

\* MUTANT of PutNode: the key is put without the lease of the session.
PutNodeNoLease(n) == reg' = [reg EXCEPT ![IdOf[n]] = n]

\* Put(nodeKey, WithLease(lease)): binds the key to n's lease, whatever it
\* was bound to; refused when that lease does not exist.
PutNode(n) ==
    reg' = IF lease[n] THEN [reg EXCEPT ![IdOf[n]] = n] ELSE reg

\* MUTANT of DropLease: the mutex keys are not bound to the lease.
DropLeaseKeepsKeys(n) ==
    /\ lease' = [lease EXCEPT ![n] = FALSE]
    /\ UNCHANGED <<keys, pred, ahead>>
    /\ reg' = [i \in Ids |-> IF reg[i] = n THEN NoNode ELSE reg[i]]

\* etcd ends n's lease: its lock keys and, if the key is still bound to it,
\* its registration go.
DropLease(n) ==
    /\ lease' = [lease EXCEPT ![n] = FALSE]
    /\ DropKeys(n, VGs)
    /\ ahead' = [v \in Workers |-> ahead[v] \ {n}]
    /\ reg' = [i \in Ids |-> IF reg[i] = n THEN NoNode ELSE reg[i]]

\* The lease runs out.  Nobody keeps it alive once the process is dead or
\* its root context cancelled; an etcd outage does it under a live daemon.
LeaseExpires(n) ==
    /\ lease[n]
    /\ up[n] = "dead" \/ cancelled[n] \/ "expire" \in Faults
    /\ DropLease(n)
    /\ UNCHANGED <<up, lst, lvg, mgr, cancelled, sent>>

\* etcd applies a put that its sender no longer waits for.
PutArrives(n) ==
    /\ sent[n]
    /\ sent' = [sent EXCEPT ![n] = FALSE]
    /\ PutNode(n)
    /\ UNCHANGED <<lockVars, mgr, cancelled>>

-----------------------------------------------------------------------------
(* The manager.                                                             *)

\* NewManager: dial and NewSession.  A failure leaves nothing behind.
OpenSession(n) ==
    /\ StartDaemon(n)
    /\ mgr' = [mgr EXCEPT ![n] = "session"]
    /\ UNCHANGED <<cancelled, reg, sent>>

\* registerNode in NewManager; then the heartbeat is started.
Register(n) ==
    /\ up[n] = "up"
    /\ mgr[n] = "session"
    /\ lease[n]
    /\ ~cancelled[n]
    /\ PutNode(n)
    /\ mgr' = [mgr EXCEPT ![n] = "beating"]
    /\ UNCHANGED <<lockVars, cancelled, sent>>

\* nothing of the process is left
Forget(n, end) ==
    /\ mgr' = [mgr EXCEPT ![n] = end]
    /\ cancelled' = [cancelled EXCEPT ![n] = FALSE]

\* The process ends: the lease is revoked, unless the context the session
\* lives under is cancelled.
Leave(n) ==
    /\ up' = [up EXCEPT ![n] = "dead"]
    /\ Forget(n, "closed")
    /\ IF lease[n] /\ ~cancelled[n]
       THEN DropLease(n)
       ELSE UNCHANGED <<lease, keys, pred, ahead, reg>>
    /\ UNCHANGED <<lst, lvg, sent>>

\* registerNode fails: NewManager closes the session and run() returns.
RegisterFails(n) ==
    /\ up[n] = "up"
    /\ mgr[n] = "session"
    /\ ~lease[n] \/ cancelled[n] \/ MayFail
    /\ Leave(n)

\* n's heartbeat runs
Beating(n) == up[n] = "up" /\ mgr[n] = "beating"

\* MUTANT of Beat: the ticker's put is left out.
BeatIdle(n) == Beating(n) /\ UNCHANGED memberVars

\* The heartbeat's ticker fires: the put is answered, whether etcd refused
\* it or not; the error is dropped.
Beat(n) ==
    /\ Beating(n)
    /\ PutNode(n)
    /\ UNCHANGED <<lockVars, mgr, cancelled, sent>>

\* The answer does not come: the put is on its way when the heartbeat goes
\* on or is cancelled.
BeatUnanswered(n) ==
    /\ MayBeLate
    /\ Beating(n)
    /\ sent' = [sent EXCEPT ![n] = TRUE]
    /\ UNCHANGED <<lockVars, mgr, cancelled, reg>>

\* SIGINT or SIGTERM cancels the root context.
Signal(n) ==
    /\ up[n] = "up"
    /\ ~cancelled[n]
    /\ cancelled' = [cancelled EXCEPT ![n] = TRUE]
    /\ UNCHANGED <<lockVars, mgr, reg, sent>>

\* Close, called when run() returns (a signal or a listener that failed):
\* the heartbeat is cancelled and has returned.
StopBeat(n) ==
    /\ Beating(n)
    /\ mgr' = [mgr EXCEPT ![n] = "stopping"]
    /\ UNCHANGED <<lockVars, cancelled, reg, sent>>

\* Close goes on: session.Close, cli.Close; the process exits.
Close(n) ==
    /\ up[n] = "up"
    /\ mgr[n] = "stopping"
    /\ Leave(n)

MemberCrash(n) == Crash(n) /\ Forget(n, "lost") /\ UNCHANGED <<reg, sent>>

-----------------------------------------------------------------------------
(* Callers of the lock.                                                     *)

\* Mutex.Lock gives up after the signal: it deletes its key under the
\* cancelled context of the client, so the key stays.
WaitFailsCancelled(w) ==
    /\ cancelled[NodeOf[w]]
    /\ lst[w] = "wait"
    /\ SetFree(w)
    /\ ahead' = [ahead EXCEPT ![w] = {}]
    /\ UNCHANGED <<up, lease, keys, pred>>

Caller(w) ==
    /\ mgr[NodeOf[w]] \in {"beating", "stopping"}
    /\ \/ \E g \in VGs : TryAcquire(w, g) \/ TryAcquireLate(w, g)
       \/ LockWaitOver(w)
       \/ ~cancelled[NodeOf[w]] /\ LockWaitFails(w)
       \/ WaitFailsCancelled(w)
       \/ Unlock(w)
       \/ UnlockFails(w)
    /\ UNCHANGED <<mgr, cancelled, reg, sent>>

ManagerStep(n) ==
    \/ OpenSession(n) \/ Register(n) \/ RegisterFails(n)
    \/ Beat(n) \/ BeatUnanswered(n) \/ StopBeat(n) \/ Close(n)
    \/ Signal(n) \/ MemberCrash(n)
    \/ LeaseExpires(n) \/ PutArrives(n)

MemberNext ==
    \/ \E n \in Nodes : ManagerStep(n)
    \/ \E w \in Workers : Runs(w) /\ Caller(w)

\* The ticker fires again and again, etcd ends a lease nobody keeps alive
\* and applies what it was sent, and a manager that began to close goes on.
MemberFairness ==
    \A n \in Nodes :
        /\ WF_memberVars(Beat(n))
        /\ WF_memberVars(Close(n))
        /\ WF_memberVars(PutArrives(n))
        /\ WF_memberVars(up[n] = "dead" /\ LeaseExpires(n))

MemberSpec == MemberInit /\ [][MemberNext]_memberVars /\ MemberFairness

-----------------------------------------------------------------------------
(* What membership promises.                                                *)

\* "If a node crashes the lease eventually expires, freeing both": an entry
\* of the registry is bound to a lease that is alive, whatever order puts,
\* restarts under the same id and expiries come in.
ListedIsLeased ==
    \A i \in Ids : reg[i] # NoNode => lease[reg[i]] /\ IdOf[reg[i]] = i

\* "Maintain a node membership lease so peers can discover each other": a
\* daemon whose lease lives is registered again, also after a late put of its
\* predecessor, or a daemon of the same id, has taken the key over.
BeatingIsListed ==
    \A n \in Nodes :
        Beating(n) /\ lease[n] ~>
            ~ (Beating(n) /\ lease[n]) \/ reg[IdOf[n]] = n

\* Once a daemon is gone, so is its registration, and its locks with it.
DeadIsForgotten ==
    \A n \in Nodes :
        up[n] = "dead" ~>
            /\ \A i \in Ids : reg[i] # n
            /\ \A g \in VGs : n \notin keys[g]
=============================================================================
