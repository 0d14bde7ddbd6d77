-------------------------------- MODULE Daemon --------------------------------
(***************************************************************************)
(* One daemon process (cmd/sltvd/main.go): main and run() from loading the *)
(* configuration to the exit, step by step with the step that fails, the   *)
(* deferred calls in last-in first-out order, the thin manager's goroutine *)
(* (Run and Stop of internal/thin), one gRPC server per listener, the calls *)
(* in flight, the signal and the ten seconds run() grants them.            *)
(***************************************************************************)
EXTENDS Config, FiniteSets

CONSTANTS
    Files,      \* what may be at the path of the configuration file
    Envs,       \* environments
    Hostnames,  \* what os.Hostname returns, "" if it fails
    Calls       \* RPCs clients may have in flight

\* The YAML decoder makes the lock TTL a duration, and applyEnv looks at these
\* settings only.
ASSUME DaemonAssumption ==
    /\ \A file \in Files :
          "ttl" \in DOMAIN file.settings => file.settings["ttl"] \in Int
    /\ \A env \in Envs :
          DOMAIN env \subseteq {"unix", "tcp", "stateDir", "defaultVG", "nodeID",
                               "enabled", "endpoints"}

Networks == {"unix", "tcp"}

VARIABLES
    pc,         \* the step of main or run() that comes next
    cfg,        \* the configuration in force
    id,         \* EffectiveNodeID
    defers,     \* run()'s deferred calls, the last one at the end
    code,       \* the exit status run()'s result stands for
    root,       \* rootCtx is cancelled
    store,      \* "none", "open" or "closed"
    session,    \* etcd session: "none", "open", "revoked", "abandoned"
    thin,       \* thin's goroutine: "none", "spawned", "half" (m.cancel is
                \* set, m.doneCh is not), "tick", "idle", "done"
    stop,       \* thin.Stop: "no", "signalled", "waits", "returned" or
                \* "early" (it returned without having waited)
    loopDone,   \* m.cancel has been called
    specs,      \* the listeners still to open
    lns,        \* open listeners
    servers,    \* servers[x]: "none", "serving", "failed", "draining"
    calls       \* calls[x]: the calls server x is serving

thinVars == <<thin, stop, loopDone>>
grpcVars == <<lns, servers, calls>>
vars == <<pc, cfg, id, defers, code, root, store, session,
          thinVars, specs, grpcVars>>

Steps == {"main", "mkdir", "backend", "services", "server", "tls", "listen",
          "select", "wait", "unwind", "exited"}

\* the deferred calls that have not run yet
Owed == {defers[i] : i \in DOMAIN defers}

\* Type invariant; what is open has its deferred call, whichever step of the
\* start failed.
DaemonTypeOK ==
    /\ pc \in Steps
    /\ DOMAIN cfg = DOMAIN Default
    /\ defers \in Seq({"root", "store", "cluster", "thin", "listeners"})
    /\ code \in {0, 1}
    /\ root \in BOOLEAN
    /\ store \in {"none", "open", "closed"}
    /\ session \in {"none", "open", "revoked", "abandoned"}
    /\ thin \in {"none", "spawned", "half", "idle", "tick", "done"}
    /\ stop \in {"no", "signalled", "waits", "returned", "early"}
    /\ loopDone \in BOOLEAN
    /\ specs \in Seq(Networks)
    /\ lns \subseteq Networks
    /\ servers \in [Networks -> {"none", "serving", "failed", "draining"}]
    /\ calls \in [Networks -> SUBSET Calls]
    /\ store = "open" => "store" \in Owed
    /\ session = "open" => "cluster" \in Owed
    /\ stop = "no" /\ thin # "none" => "thin" \in Owed
    /\ pc \in {"select", "wait"} => "listeners" \in Owed

Init ==
    /\ pc = "main"
    /\ cfg = Default
    /\ id = Unset
    /\ defers = <<>>
    /\ code = 0
    /\ root = FALSE
    /\ store = "none"
    /\ session = "none"
    /\ thin = "none"
    /\ stop = "no"
    /\ loopDone = FALSE
    /\ specs = <<>>
    /\ lns = {}
    /\ servers = [x \in Networks |-> "none"]
    /\ calls = [x \in Networks |-> {}]

-----------------------------------------------------------------------------
(* main and run() up to the select.                                         *)

\* run() returns an error: its deferred calls follow.
Fails ==
    /\ pc' = "unwind"
    /\ code' = 1

\* main: config.Load and the effective node id; fatal() if it is refused.
LoadConfig ==
    /\ pc = "main"
    /\ \E file \in Files, env \in Envs, host \in Hostnames :
         LET loaded == LoadOrDefaults(file, env) IN
         \/ /\ loaded.ok
            /\ cfg' = loaded.cfg
            /\ id' = EffectiveNodeID(loaded.cfg, host)
            /\ pc' = "mkdir"
            /\ defers' = <<"root">>
            /\ UNCHANGED code
         \/ /\ ~loaded.ok
            /\ pc' = "exited"
            /\ code' = 1
            /\ UNCHANGED <<cfg, id, defers>>
    /\ UNCHANGED <<root, store, session, thinVars, specs, grpcVars>>

\* os.MkdirAll(StateDir)
MkStateDir ==
    /\ pc = "mkdir"
    /\ \/ pc' = "backend" /\ UNCHANGED code
       \/ Fails
    /\ UNCHANGED <<cfg, id, defers, root, store, session, thinVars, specs,
                   grpcVars>>

\* Cluster mode: NewManager opens the session and registers the node, under
\* rootCtx; on a failure it closes what it opened.  The store needs no
\* closing.
OpenCluster ==
    /\ pc = "backend"
    /\ cfg.enabled
    /\ \/ /\ AcceptsManager(cfg, id)
          /\ KeyPairComplete(cfg.etcdCert, cfg.etcdKey)
          /\ ~root
          /\ session' = "open"
          /\ store' = "open"
          /\ defers' = defers \o <<"store", "cluster">>
          /\ pc' = "services"
          /\ UNCHANGED code
       \/ Fails /\ UNCHANGED <<session, store, defers>>
    /\ UNCHANGED <<cfg, id, root, thinVars, specs, grpcVars>>

\* MUTANT of OpenBolt: nothing closes the store.
OpenBoltNoDefer ==
    /\ pc = "backend"
    /\ ~cfg.enabled
    /\ \/ /\ store' = "open"
          /\ defers' = Append(defers, "cluster")
          /\ pc' = "services"
          /\ UNCHANGED code
       \/ Fails /\ UNCHANGED <<store, defers>>
    /\ UNCHANGED <<cfg, id, root, session, thinVars, specs, grpcVars>>

\* Standalone mode: OpenBoltStore, which may time out on the file's lock.
OpenBolt ==
    /\ pc = "backend"
    /\ ~cfg.enabled
    /\ \/ /\ store' = "open"
          /\ defers' = defers \o <<"store", "cluster">>
          /\ pc' = "services"
          /\ UNCHANGED code
       \/ Fails /\ UNCHANGED <<store, defers>>
    /\ UNCHANGED <<cfg, id, root, session, thinVars, specs, grpcVars>>

\* MUTANT of NewServices: Stop is deferred before the thin manager exists, and
\* before the store's Close.
NewServicesStopLast ==
    /\ pc = "services"
    /\ \/ /\ AcceptsDisk(id) /\ AcceptsThin(cfg, id)
          /\ thin' = "spawned"
          /\ defers' = <<"thin">> \o defers
          /\ pc' = "server"
          /\ UNCHANGED code
       \/ /\ ~ (AcceptsDisk(id) /\ AcceptsThin(cfg, id))
          /\ Fails
          /\ UNCHANGED <<thin, defers>>
    /\ UNCHANGED <<cfg, id, root, store, session, stop, loopDone, specs,
                   grpcVars>>

\* disk.New and thin.New; then the thin manager is started and its Stop
\* deferred.
NewServices ==
    /\ pc = "services"
    /\ \/ /\ AcceptsDisk(id) /\ AcceptsThin(cfg, id)
          /\ thin' = "spawned"
          /\ defers' = Append(defers, "thin")
          /\ pc' = "server"
          /\ UNCHANGED code
       \/ /\ ~ (AcceptsDisk(id) /\ AcceptsThin(cfg, id))
          /\ Fails
          /\ UNCHANGED <<thin, defers>>
    /\ UNCHANGED <<cfg, id, root, store, session, stop, loopDone, specs,
                   grpcVars>>

\* server.New, and the listeners to open
NewServer ==
    /\ pc = "server"
    /\ \/ /\ AcceptsServer(id)
          /\ specs' = (IF cfg.unix # Unset THEN <<"unix">> ELSE <<>>)
                      \o (IF cfg.tcp # Unset THEN <<"tcp">> ELSE <<>>)
          /\ pc' = "tls"
          /\ UNCHANGED code
       \/ ~AcceptsServer(id) /\ Fails /\ UNCHANGED specs
    /\ UNCHANGED <<cfg, id, defers, root, store, session, thinVars, grpcVars>>

\* LoadServerTLS for a TCP listener: both files are needed, and may not be
\* readable.
LoadTLS ==
    /\ pc = "tls"
    /\ \/ /\ cfg.tcp # Unset => cfg.cert # Unset /\ KeyPairComplete(cfg.cert, cfg.key)
          /\ pc' = "listen"
          /\ UNCHANGED code
       \/ cfg.tcp # Unset /\ Fails
    /\ UNCHANGED <<cfg, id, defers, root, store, session, thinVars, specs,
                   grpcVars>>

\* BuildListeners, one listener.  When one fails the ones opened before are
\* not returned, so nothing closes them before the process exits.
Listen ==
    /\ pc = "listen"
    /\ specs # <<>>
    /\ \/ /\ lns' = lns \cup {Head(specs)}
          /\ specs' = Tail(specs)
          /\ UNCHANGED <<pc, code>>
       \/ Fails /\ UNCHANGED <<lns, specs>>
    /\ UNCHANGED <<cfg, id, defers, root, store, session, thinVars,
                   servers, calls>>

\* A gRPC server is started on every listener; run() comes to its select.
Serve ==
    /\ pc = "listen"
    /\ specs = <<>>
    /\ servers' = [x \in Networks |-> IF x \in lns THEN "serving" ELSE "none"]
    /\ defers' = Append(defers, "listeners")
    /\ pc' = "select"
    /\ UNCHANGED <<cfg, id, code, root, store, session, thinVars, specs,
                   lns, calls>>

-----------------------------------------------------------------------------
(* Serving and shutting down.                                               *)

\* SIGINT or SIGTERM, caught from the start of run() on
Signal ==
    /\ pc \notin {"main", "exited"}
    /\ ~root
    /\ root' = TRUE
    /\ UNCHANGED <<pc, cfg, id, defers, code, store, session, thinVars,
                   specs, grpcVars>>

\* grpc.Server.Serve returns an error, which is sent to errCh.
ListenerFails(x) ==
    /\ pc # "exited"
    /\ servers[x] = "serving"
    /\ servers' = [servers EXCEPT ![x] = "failed"]
    /\ UNCHANGED <<pc, cfg, id, defers, code, root, store, session,
                   thinVars, specs, lns, calls>>

\* A server takes a call; what the call does is DiskService.
CallBegins(x, h) ==
    /\ pc # "exited"
    /\ servers[x] = "serving"
    /\ \A y \in Networks : h \notin calls[y]
    /\ calls' = [calls EXCEPT ![x] = @ \cup {h}]
    /\ UNCHANGED <<pc, cfg, id, defers, code, root, store, session,
                   thinVars, specs, lns, servers>>

CallEnds(x, h) ==
    /\ pc # "exited"
    /\ h \in calls[x]
    /\ calls' = [calls EXCEPT ![x] = @ \ {h}]
    /\ UNCHANGED <<pc, cfg, id, defers, code, root, store, session,
                   thinVars, specs, lns, servers>>

\* The select: a signal or the error of a listener.  Every server is told to
\* stop gracefully, in a goroutine nobody waits for.
Shutdown ==
    /\ pc = "select"
    /\ root \/ \E x \in Networks : servers[x] = "failed"
    /\ servers' = [x \in Networks |->
                     IF servers[x] = "serving" THEN "draining" ELSE servers[x]]
    /\ pc' = "wait"
    /\ UNCHANGED <<cfg, id, defers, code, root, store, session, thinVars,
                   specs, lns, calls>>

\* <-stopCtx.Done(): ten seconds, whatever happens meanwhile; run() returns nil.
GraceOver ==
    /\ pc = "wait"
    /\ pc' = "unwind"
    /\ UNCHANGED <<cfg, id, defers, code, root, store, session, thinVars,
                   specs, grpcVars>>

-----------------------------------------------------------------------------
(* The deferred calls.                                                      *)

\* the deferred call whose turn it is
Deferred(name) ==
    /\ pc = "unwind"
    /\ defers # <<>>
    /\ defers[Len(defers)] = name
Pop == defers' = SubSeq(defers, 1, Len(defers) - 1)

CloseListeners ==
    /\ Deferred("listeners")
    /\ lns' = {}
    /\ Pop
    /\ UNCHANGED <<pc, cfg, id, code, root, store, session, thinVars,
                   specs, servers, calls>>

\* Run has set m.cancel; Run has set m.doneCh
CancelSet == thin \in {"half", "idle", "tick", "done"}
DoneChSet == thin \in {"idle", "tick", "done"}

\* MUTANT of StopThin: Stop does not cancel the loop.
StopThinNoCancel ==
    /\ Deferred("thin")
    /\ stop = "no"
    /\ stop' = "signalled"
    /\ UNCHANGED <<pc, cfg, id, defers, code, root, store, session, thin,
                   loopDone, specs, grpcVars>>

\* thin.Stop cancels the loop, if m.cancel is set.  It reads the two fields
\* Run sets one after the other, and neither side takes a lock.
StopThin ==
    /\ Deferred("thin")
    /\ stop = "no"
    /\ loopDone' = CancelSet
    /\ stop' = "signalled"
    /\ UNCHANGED <<pc, cfg, id, defers, code, root, store, session, thin,
                   specs, grpcVars>>

\* Stop goes on to wait for the loop, if m.doneCh is set.
AwaitThin ==
    /\ Deferred("thin")
    /\ stop = "signalled"
    /\ \/ DoneChSet /\ stop' = "waits" /\ UNCHANGED defers
       \/ ~DoneChSet /\ stop' = "early" /\ Pop
    /\ UNCHANGED <<pc, cfg, id, code, root, store, session, thin,
                   loopDone, specs, grpcVars>>

\* Run has closed doneCh: Stop returns.
ThinStopped ==
    /\ Deferred("thin")
    /\ stop = "waits"
    /\ thin = "done"
    /\ stop' = "returned"
    /\ Pop
    /\ UNCHANGED <<pc, cfg, id, code, root, store, session, thin,
                   loopDone, specs, grpcVars>>

\* cluster.Manager.Close: the session is revoked under the context of the
\* etcd client, which is rootCtx.
CloseCluster ==
    /\ Deferred("cluster")
    /\ session' = CASE session # "open" -> session
                    [] session = "open" /\ root -> "abandoned"
                    [] OTHER -> "revoked"
    /\ Pop
    /\ UNCHANGED <<pc, cfg, id, code, root, store, thinVars, specs,
                   grpcVars>>

\* BoltStore.Close; in cluster mode the store is unusable since the client
\* was closed.
CloseStore ==
    /\ Deferred("store")
    /\ store' = "closed"
    /\ Pop
    /\ UNCHANGED <<pc, cfg, id, code, root, session, thinVars, specs,
                   grpcVars>>

\* The last deferred call cancels rootCtx.
CancelRoot ==
    /\ Deferred("root")
    /\ root' = TRUE
    /\ Pop
    /\ UNCHANGED <<pc, cfg, id, code, store, session, thinVars, specs,
                   grpcVars>>

\* main returns or calls os.Exit: whatever still runs is cut off.
Exit ==
    /\ pc = "unwind"
    /\ defers = <<>>
    /\ pc' = "exited"
    /\ UNCHANGED <<cfg, id, defers, code, root, store, session, thinVars,
                   specs, grpcVars>>

-----------------------------------------------------------------------------
(* The thin manager's goroutine.                                            *)

ThinMoves(from, to) ==
    /\ pc # "exited"
    /\ thin = from
    /\ thin' = to
    /\ UNCHANGED <<pc, cfg, id, defers, code, root, store, session,
                   stop, loopDone, specs, grpcVars>>

\* the context of the loop is cancelled
ThinCancelled == root \/ loopDone

\* Run sets m.cancel, then m.doneCh, and sweeps once, cancelled or not; later
\* it sweeps whenever the ticker fires; what a sweep does is ThinManager.
ThinSetCancel == ThinMoves("spawned", "half")
ThinSetDoneCh == ThinMoves("half", "tick")
ThinTick == ThinMoves("idle", "tick")
ThinTickEnds == ThinMoves("tick", "idle")
ThinReturns == ThinCancelled /\ ThinMoves("idle", "done")

-----------------------------------------------------------------------------
Unwind ==
    \/ CloseListeners \/ StopThin \/ AwaitThin \/ ThinStopped \/ CloseCluster
    \/ CloseStore \/ CancelRoot \/ Exit

Main ==
    \/ LoadConfig \/ MkStateDir \/ OpenCluster \/ OpenBolt \/ NewServices
    \/ NewServer \/ LoadTLS \/ Listen \/ Serve \/ Shutdown \/ GraceOver
    \/ Unwind

Thin == ThinSetCancel \/ ThinSetDoneCh \/ ThinTick \/ ThinTickEnds \/ ThinReturns

Next ==
    \/ Main
    \/ Thin
    \/ Signal
    \/ \E x \in Networks : ListenerFails(x)
    \/ \E x \in Networks, h \in Calls : CallBegins(x, h) \/ CallEnds(x, h)

\* main goes on; the thin goroutine is scheduled, its sweep ends, and its
\* select, offered a cancelled context again and again, takes it.  A call
\* need not end and a signal need not come.
Spec ==
    /\ Init /\ [][Next]_vars
    /\ WF_vars(Main)
    /\ WF_vars(ThinSetCancel \/ ThinSetDoneCh)
    /\ WF_vars(ThinTickEnds)
    /\ SF_vars(ThinReturns)

-----------------------------------------------------------------------------
(* What the daemon promises.                                                *)

\* "Validate enforces invariants": a configuration Load accepts is refused
\* by no constructor, and its lock TTL is at least a second.
NeverRefused ==
    pc \in {"backend", "services", "server", "tls"} =>
        /\ cfg.enabled => AcceptsManager(cfg, id) /\ SessionTTL(cfg) >= 1
        /\ AcceptsDisk(id) /\ AcceptsThin(cfg, id) /\ AcceptsServer(id)
        /\ cfg.tcp # Unset => cfg.cert # Unset /\ KeyPairComplete(cfg.cert, cfg.key)

\* The parts are closed after the ones that use them, however far the start
\* came: while the session or the store is closed no listener run() knows of
\* is open and the thin loop is at rest, unless Stop found it not yet begun.
UsersGone ==
    store = "closed" \/ session \in {"revoked", "abandoned"} =>
        /\ "listeners" \notin Owed
        /\ stop # "early" => thin \in {"none", "done"}

\* Run has got past its two assignments, or was never started
ThinBegun == thin \notin {"spawned", "half"}

\* A signal ends in the exit of the process, and so do a listener that fails
\* and a start that fails once the thin loop has begun: Stop and Close never
\* wait for what cannot come.
ShutdownEnds ==
    /\ root ~> pc = "exited"
    /\ ThinBegun /\ pc = "wait" ~> pc = "exited"
    /\ ThinBegun /\ code = 1 /\ stop = "no" ~> pc = "exited"
=============================================================================
