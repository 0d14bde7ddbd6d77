------------------------------ MODULE DaemonProofs ------------------------------
(***************************************************************************)
(* Proofs about the daemon's life cycle, for any configuration file and    *)
(* environment: what is opened is owed a close, the parts are closed after *)
(* the ones that use them, and a configuration that was loaded is refused  *)
(* by none of them.                                                        *)
(***************************************************************************)
EXTENDS Daemon, SequenceTheorems, TLAPS

-----------------------------------------------------------------------------
(* The configuration.                                                       *)

LEMMA OverlayAt ==
    ASSUME NEW base, NEW over
    PROVE  /\ DOMAIN Overlay(base, over) = DOMAIN base
           /\ \A f \in DOMAIN base :
                 Overlay(base, over)[f] = IF f \in DOMAIN over THEN over[f] ELSE base[f]
  BY DEF Overlay

\* What a successful Load returns passed Validate.
LEMMA LoadedIsValid ==
    ASSUME NEW file \in Files, NEW env \in Envs, LoadOrDefaults(file, env).ok
    PROVE  LET c == LoadOrDefaults(file, env).cfg IN
           /\ DOMAIN c = DOMAIN Default
           /\ c["ttl"] \in Int
           /\ Validate(c)
  <1>1. PICK from : /\ "ttl" \in DOMAIN from.settings => from.settings["ttl"] \in Int
                    /\ LoadOrDefaults(file, env) = Load(from, env)
    <2>1. CASE file.state = "absent"
      BY <2>1 DEF LoadOrDefaults, NoFile
    <2>2. CASE file.state # "absent"
      BY <2>2, DaemonAssumption DEF LoadOrDefaults
    <2> QED BY <2>1, <2>2
  <1>2. PICK c : c = Overlay(Overlay(Default, from.settings), FromEnv(env))
    OBVIOUS
  <1>3. Load(from, env) = [ok |-> TRUE, cfg |-> c] /\ Validate(c)
    BY <1>1, <1>2 DEF Load
  <1>4. "ttl" \in DOMAIN Default /\ Default["ttl"] \in Int
    BY DEF Default
  <1>5. "ttl" \notin DOMAIN FromEnv(env)
    BY DaemonAssumption DEF FromEnv
  <1>6. DOMAIN c = DOMAIN Default /\ c["ttl"] \in Int
    BY <1>1, <1>2, <1>4, <1>5, OverlayAt
  <1> QED BY <1>1, <1>3, <1>6

LEMMA NodeHasID ==
    ASSUME NEW c, NEW host PROVE EffectiveNodeID(c, host) # Unset
  BY Zenon DEF EffectiveNodeID, Unset

LEMMA WholeSeconds == ASSUME NEW t \in Int, t >= 1000 PROVE ~(t <= 0) /\ t \div 1000 >= 1
  OBVIOUS

\* A TTL of a second or more is a whole number of seconds, at least one.
LEMMA SecondOrMore ==
    ASSUME NEW c, c.ttl \in Int, c.ttl >= 1000
    PROVE  SessionTTL(c) >= 1
  BY WholeSeconds DEF SessionTTL

\* From the load on, the configuration is the validated one.
Loaded ==
    pc \notin {"main", "exited"} => cfg["ttl"] \in Int /\ Validate(cfg) /\ id # Unset

\* A configuration Validate accepts is refused by no constructor.
LEMMA ValidIsAccepted ==
    ASSUME cfg["ttl"] \in Int, Validate(cfg), id # Unset
    PROVE  /\ cfg.enabled => AcceptsManager(cfg, id) /\ SessionTTL(cfg) >= 1
           /\ AcceptsDisk(id) /\ AcceptsThin(cfg, id) /\ AcceptsServer(id)
           /\ cfg.tcp # Unset => cfg.cert # Unset /\ KeyPairComplete(cfg.cert, cfg.key)
  <1>1. cfg.enabled => SessionTTL(cfg) >= 1
    BY SecondOrMore DEF Validate
  <1> QED BY <1>1 DEF Validate, AcceptsManager, AcceptsDisk, AcceptsThin, AcceptsServer,
                      KeyPairComplete

-----------------------------------------------------------------------------
(* The deferred calls.                                                      *)

\* The deferred calls from the first to the last.
Names == {"root", "store", "cluster", "thin", "listeners"}
Order == <<"root", "store", "cluster", "thin", "listeners">>

\* How many of them are owed, by the step of main and run(), unless run() is
\* on its way out.
Depth ==
    /\ pc \in {"main", "exited"} => Len(defers) = 0
    /\ pc \in {"mkdir", "backend"} => Len(defers) = 1
    /\ pc = "services" => Len(defers) = 3
    /\ pc \in {"server", "tls", "listen"} => Len(defers) = 4
    /\ pc \in {"select", "wait"} => Len(defers) = 5

Ordered ==
    /\ defers \in Seq(Names)
    /\ Len(defers) <= 5
    /\ \A i \in 1 .. Len(defers) : defers[i] = Order[i]

\* What is open, and what was closed, by the number of calls owed.
Parts ==
    /\ store = "open" => Len(defers) >= 2
    /\ session = "open" => Len(defers) >= 3
    /\ store = "closed" => Len(defers) <= 1 /\ pc \in {"unwind", "exited"}
    /\ session \in {"revoked", "abandoned"} =>
          Len(defers) <= 2 /\ pc \in {"unwind", "exited"}

\* The thin manager is stopped when its turn comes, and Stop has waited for
\* the loop unless it returned early.
ThinOwed ==
    /\ pc \notin {"unwind", "exited"} => stop = "no"
    /\ pc \in {"main", "mkdir", "backend", "services"} => thin = "none"
    /\ Len(defers) >= 4 => stop \in {"no", "signalled", "waits"}
    /\ Len(defers) <= 3 => thin = "none" \/ stop \in {"returned", "early"}
    /\ stop = "returned" => thin = "done"

DaemonTypes ==
    /\ pc \in Steps
    /\ DOMAIN cfg = DOMAIN Default
    /\ code \in {0, 1}
    /\ root \in BOOLEAN
    /\ store \in {"none", "open", "closed"}
    /\ session \in {"none", "open", "revoked", "abandoned"}
    /\ thin \in {"none", "spawned", "half", "idle", "tick", "done"}
    /\ stop \in {"no", "signalled", "waits", "returned", "early"}
    /\ loopDone \in BOOLEAN
    /\ specs \in Seq(Networks)
    /\ lns \subseteq Networks
    /\ servers \in [Networks -> {"none", "serving", "failed", "draining"}]
    /\ calls \in [Networks -> SUBSET Calls]

DaemonInv == DaemonTypes /\ Ordered /\ Depth /\ Parts /\ ThinOwed /\ Loaded

LEMMA OrderIs ==
    /\ Order[1] = "root" /\ Order[2] = "store" /\ Order[3] = "cluster"
    /\ Order[4] = "thin" /\ Order[5] = "listeners"
  BY DEF Order

LEMMA OrderInjective ==
    ASSUME NEW m \in 1 .. 5, NEW n \in 1 .. 5, Order[m] = Order[n] PROVE m = n
  <1>1. m = 1 \/ m = 2 \/ m = 3 \/ m = 4 \/ m = 5
    OBVIOUS
  <1>2. n = 1 \/ n = 2 \/ n = 3 \/ n = 4 \/ n = 5
    OBVIOUS
  <1> QED BY <1>1, <1>2, OrderIs

LEMMA Appended ==
    ASSUME NEW S, NEW s \in Seq(S), NEW x \in S
    PROVE  /\ Append(s, x) \in Seq(S)
           /\ Len(Append(s, x)) = Len(s) + 1
           /\ \A i \in 1 .. Len(s) : Append(s, x)[i] = s[i]
           /\ Append(s, x)[Len(s) + 1] = x
  BY AppendProperties

LEMMA AppendedTwo ==
    ASSUME NEW S, NEW s \in Seq(S), NEW x \in S, NEW y \in S
    PROVE  s \o <<x, y>> = Append(Append(s, x), y)
  OBVIOUS

LEMMA Shortened ==
    ASSUME NEW S, NEW s \in Seq(S), s # <<>>
    PROVE  /\ Len(s) \in Nat /\ Len(s) >= 1
           /\ SubSeq(s, 1, Len(s) - 1) \in Seq(S)
           /\ Len(SubSeq(s, 1, Len(s) - 1)) = Len(s) - 1
           /\ \A i \in 1 .. Len(s) - 1 : SubSeq(s, 1, Len(s) - 1)[i] = s[i]
  <1>1. Len(s) \in Nat /\ Len(s) >= 1
    BY EmptySeq, LenProperties
  <1>2. PICK m \in Nat : m = Len(s) - 1 /\ Len(s) = m + 1
    BY <1>1
  <1>3. \A i \in 1 .. m : s[i] \in S
    BY <1>2
  <1>4. /\ SubSeq(s, 1, m) \in Seq(S)
        /\ Len(SubSeq(s, 1, m)) = IF 1 <= m THEN m - 1 + 1 ELSE 0
        /\ \A i \in 1 .. m - 1 + 1 : SubSeq(s, 1, m)[i] = s[1 + i - 1]
    BY <1>3, SubSeqProperties
  <1>5. Len(SubSeq(s, 1, m)) = m /\ \A i \in 1 .. m : SubSeq(s, 1, m)[i] = s[i]
    BY <1>4
  <1> QED BY <1>1, <1>2, <1>4, <1>5

LEMMA PushRoot ==
    ASSUME defers' = <<"root">> PROVE Ordered' /\ Len(defers') = 1
  <1>1. <<"root">> \in Seq(Names) /\ Len(<<"root">>) = 1 /\ <<"root">>[1] = "root"
    BY DEF Names
  <1> QED BY <1>1, OrderIs DEF Ordered

\* The call whose turn in the order it is, is deferred.
LEMMA Pushed ==
    ASSUME NEW s, NEW n \in 0 .. 4, s \in Seq(Names), Len(s) = n,
           \A i \in 1 .. n : s[i] = Order[i]
    PROVE  LET t == Append(s, Order[n + 1]) IN
           t \in Seq(Names) /\ Len(t) = n + 1 /\ \A i \in 1 .. n + 1 : t[i] = Order[i]
  <1>1. Order[n + 1] \in Names
    BY OrderIs DEF Names
  <1>2. PICK x \in Names : x = Order[n + 1]
    BY <1>1
  <1>3. PICK t : t = Append(s, x)
    OBVIOUS
  <1>4. /\ t \in Seq(Names) /\ Len(t) = n + 1 /\ t[n + 1] = x
        /\ \A i \in 1 .. n : t[i] = s[i]
    BY <1>3, Appended
  <1>5. \A i \in 1 .. n + 1 : t[i] = Order[i]
    BY <1>2, <1>4
  <1> QED BY <1>2, <1>3, <1>4, <1>5

LEMMA PushBackend ==
    ASSUME Ordered, Len(defers) = 1, defers' = defers \o <<"store", "cluster">>
    PROVE  Ordered' /\ Len(defers') = 3
  <1>1. PICK t : t = Append(defers, "store")
    OBVIOUS
  <1>2. t \in Seq(Names) /\ Len(t) = 2 /\ \A i \in 1 .. 2 : t[i] = Order[i]
    BY <1>1, OrderIs, Pushed DEF Ordered
  <1>3. PICK u : u = Append(t, "cluster")
    OBVIOUS
  <1>4. u \in Seq(Names) /\ Len(u) = 3 /\ \A i \in 1 .. 3 : u[i] = Order[i]
    BY <1>2, <1>3, OrderIs, Pushed
  <1>5. defers' = u
    BY <1>1, <1>3, AppendedTwo DEF Ordered, Names
  <1>6. Len(u) <= 5 /\ \A i \in 1 .. Len(u) : u[i] = Order[i]
    BY <1>4
  <1> QED BY <1>4, <1>5, <1>6 DEF Ordered

LEMMA PushThin ==
    ASSUME Ordered, Len(defers) = 3, defers' = Append(defers, "thin")
    PROVE  Ordered' /\ Len(defers') = 4
  <1>1. PICK t : t = Append(defers, "thin")
    OBVIOUS
  <1>2. t \in Seq(Names) /\ Len(t) = 4 /\ \A i \in 1 .. 4 : t[i] = Order[i]
    BY <1>1, OrderIs, Pushed DEF Ordered
  <1> QED BY <1>1, <1>2 DEF Ordered

LEMMA PushListeners ==
    ASSUME Ordered, Len(defers) = 4, defers' = Append(defers, "listeners")
    PROVE  Ordered' /\ Len(defers') = 5
  <1>1. PICK t : t = Append(defers, "listeners")
    OBVIOUS
  <1>2. t \in Seq(Names) /\ Len(t) = 5 /\ \A i \in 1 .. 5 : t[i] = Order[i]
    BY <1>1, OrderIs, Pushed DEF Ordered
  <1> QED BY <1>1, <1>2 DEF Ordered

LEMMA Popped ==
    ASSUME Ordered, defers # <<>>, Pop
    PROVE  Ordered' /\ Len(defers') = Len(defers) - 1
  <1>1. PICK s \in Seq(Names) : s = defers
    BY DEF Ordered
  <1>2. PICK t : t = SubSeq(s, 1, Len(s) - 1)
    OBVIOUS
  <1>3. /\ Len(s) \in Nat /\ Len(s) >= 1
        /\ t \in Seq(Names) /\ Len(t) = Len(s) - 1
        /\ \A i \in 1 .. Len(s) - 1 : t[i] = s[i]
    BY <1>1, <1>2, Shortened
  <1>4. Len(s) <= 5 /\ \A i \in 1 .. Len(s) : s[i] = Order[i]
    BY <1>1 DEF Ordered
  <1>5. Len(t) <= 5 /\ \A i \in 1 .. Len(t) : t[i] = Order[i]
    BY <1>3, <1>4
  <1>6. defers' = t
    BY <1>1, <1>2 DEF Pop
  <1> QED BY <1>1, <1>3, <1>5, <1>6 DEF Ordered

\* Whose turn it is follows from how many are left.
LEMMA Turn ==
    ASSUME Ordered, NEW name, Deferred(name)
    PROVE  /\ pc = "unwind" /\ defers # <<>>
           /\ Len(defers) \in 1 .. 5
           /\ name = "root" => Len(defers) = 1
           /\ name = "store" => Len(defers) = 2
           /\ name = "cluster" => Len(defers) = 3
           /\ name = "thin" => Len(defers) = 4
           /\ name = "listeners" => Len(defers) = 5
  <1>1. pc = "unwind" /\ defers # <<>> /\ defers[Len(defers)] = name
    BY DEF Deferred
  <1>2. PICK n \in 1 .. 5 : n = Len(defers)
    <2>1. PICK s \in Seq(Names) : s = defers /\ Len(s) <= 5
      BY DEF Ordered
    <2>2. Len(s) \in Nat /\ Len(s) >= 1
      BY <1>1, <2>1, Shortened
    <2>3. PICK n \in Nat : n = Len(s)
      BY <2>2
    <2>4. n <= 5 /\ n >= 1
      BY <2>1, <2>2, <2>3
    <2>5. n \in 1 .. 5
      BY <2>4
    <2> QED BY <2>1, <2>3, <2>5
  <1>3. name = Order[n]
    BY <1>1, <1>2 DEF Ordered
  <1>4. \/ n = 1 /\ name = "root"
        \/ n = 2 /\ name = "store"
        \/ n = 3 /\ name = "cluster"
        \/ n = 4 /\ name = "thin"
        \/ n = 5 /\ name = "listeners"
    BY <1>2, <1>3, OrderIs
  <1> QED BY <1>1, <1>2, <1>4

-----------------------------------------------------------------------------
(* Every step keeps the invariant.                                          *)

LEMMA DepthType == ASSUME Ordered PROVE Len(defers) \in 0 .. 5
  <1>1. PICK s \in Seq(Names) : s = defers
    BY DEF Ordered
  <1>2. PICK n \in Nat : n = Len(s)
    BY <1>1, LenProperties
  <1>3. n <= 5
    BY <1>1, <1>2 DEF Ordered
  <1>4. n \in 0 .. 5
    BY <1>2, <1>3
  <1> QED BY <1>1, <1>2, <1>4

LEMMA MkStateDirInv == ASSUME DaemonInv, MkStateDir PROVE DaemonInv'
  <1> USE DEF Fails, thinVars, grpcVars
  <1>1. Ordered /\ Depth /\ Parts /\ ThinOwed /\ Loaded /\ DaemonTypes
    BY DEF DaemonInv
  <1>2. DaemonTypes'
    BY <1>1 DEF MkStateDir, DaemonTypes, Steps
  <1>3. Ordered' /\ Depth' /\ Parts' /\ ThinOwed' /\ Loaded'
    BY <1>1 DEF MkStateDir, Ordered, Depth, Parts, ThinOwed, Loaded
  <1> QED BY <1>2, <1>3 DEF DaemonInv

LEMMA BackendInv == ASSUME DaemonInv, OpenCluster \/ OpenBolt PROVE DaemonInv'
  <1> USE DEF Fails, thinVars, grpcVars
  <1>1. Ordered /\ Depth /\ Parts /\ ThinOwed /\ Loaded /\ DaemonTypes
    BY DEF DaemonInv
  <1>2. DaemonTypes' /\ Loaded'
    BY <1>1 DEF OpenCluster, OpenBolt, DaemonTypes, Steps, Loaded
  <1>3. /\ Len(defers) = 1 /\ stop = "no" /\ thin = "none"
        /\ store \notin {"open", "closed"}
        /\ session \notin {"open", "revoked", "abandoned"}
    <2>1. pc = "backend"
      BY DEF OpenCluster, OpenBolt
    <2>2. Len(defers) = 1 /\ stop = "no" /\ thin = "none"
      BY <1>1, <2>1 DEF Depth, ThinOwed
    <2>3. store # "closed" /\ session \notin {"revoked", "abandoned"}
      BY <1>1, <2>1 DEF Parts
    <2>4. store # "open" /\ session # "open"
      BY <1>1, <2>2 DEF Parts
    <2> QED BY <2>2, <2>3, <2>4
  <1>4. CASE defers' = defers /\ pc' = "unwind"
    <2>1. Ordered' /\ store' = store /\ session' = session /\ thin' = thin /\ stop' = stop
      BY <1>1, <1>4 DEF OpenCluster, OpenBolt, Ordered
    <2>2. Depth' /\ Parts' /\ ThinOwed'
      BY <1>3, <1>4, <2>1 DEF Depth, Parts, ThinOwed
    <2> QED BY <1>2, <2>1, <2>2 DEF DaemonInv
  <1>5. CASE defers' = defers \o <<"store", "cluster">> /\ pc' = "services"
    <2>1. Ordered' /\ Len(defers') = 3
      BY <1>1, <1>3, <1>5, PushBackend
    <2>2. store' # "closed" /\ session' \notin {"revoked", "abandoned"}
      BY <1>3, <1>5 DEF OpenCluster, OpenBolt
    <2>3. Depth' /\ Parts' /\ ThinOwed'
      BY <1>3, <1>5, <2>1, <2>2 DEF OpenCluster, OpenBolt, Depth, Parts, ThinOwed
    <2> QED BY <1>2, <2>1, <2>3 DEF DaemonInv
  <1> QED BY <1>4, <1>5 DEF OpenCluster, OpenBolt

LEMMA ServicesInv == ASSUME DaemonInv, NewServices PROVE DaemonInv'
  <1> USE DEF Fails, thinVars, grpcVars
  <1>1. Ordered /\ Depth /\ Parts /\ ThinOwed /\ Loaded /\ DaemonTypes
    BY DEF DaemonInv
  <1>2. DaemonTypes' /\ Loaded'
    BY <1>1 DEF NewServices, DaemonTypes, Steps, Loaded
  <1>3. /\ Len(defers) = 3 /\ stop = "no" /\ thin = "none"
        /\ store # "closed" /\ session \notin {"revoked", "abandoned"}
    BY <1>1 DEF NewServices, Depth, Parts, ThinOwed
  <1>4. store' = store /\ session' = session /\ stop' = stop
    BY DEF NewServices
  <1>5. CASE defers' = defers /\ pc' = "unwind" /\ thin' = thin
    <2>1. Ordered'
      BY <1>1, <1>5 DEF Ordered
    <2>2. Depth' /\ Parts' /\ ThinOwed'
      <3>1. Len(defers') = 3
        BY <1>3, <1>5
      <3>2. Depth'
        BY <1>5 DEF Depth
      <3>3. Parts'
        BY <1>3, <1>4, <3>1 DEF Parts
      <3>4. ThinOwed'
        BY <1>3, <1>4, <1>5, <3>1 DEF ThinOwed
      <3> QED BY <3>2, <3>3, <3>4
    <2> QED BY <1>2, <2>1, <2>2 DEF DaemonInv
  <1>6. CASE defers' = Append(defers, "thin") /\ pc' = "server"
    <2>1. Ordered' /\ Len(defers') = 4
      BY <1>1, <1>3, <1>6, PushThin
    <2>2. Depth' /\ Parts' /\ ThinOwed'
      BY <1>3, <1>4, <1>6, <2>1 DEF Depth, Parts, ThinOwed
    <2> QED BY <1>2, <2>1, <2>2 DEF DaemonInv
  <1> QED BY <1>5, <1>6 DEF NewServices

\* A step that goes on to the listeners, or gives up, with four calls owed.
LEMMA ListenSteps ==
    ASSUME DaemonInv, pc \in {"server", "tls", "listen"},
           pc' \in {"tls", "listen", "unwind"}, code' \in {0, 1},
           UNCHANGED <<cfg, id, defers, root, store, session, thinVars, servers, calls>>,
           specs' \in Seq(Networks), lns' \subseteq Networks
    PROVE  DaemonInv'
  <1> USE DEF Fails, thinVars, grpcVars
  <1>1. Ordered /\ Depth /\ Parts /\ ThinOwed /\ Loaded /\ DaemonTypes
    BY DEF DaemonInv
  <1>2. DaemonTypes' /\ Loaded'
    BY <1>1 DEF DaemonTypes, Steps, Loaded
  <1>3. Len(defers) = 4
    BY <1>1 DEF Depth
  <1>4. Ordered'
    BY <1>1 DEF Ordered
  <1>5. Depth' /\ Parts' /\ ThinOwed'
    BY <1>1, <1>3 DEF Depth, Parts, ThinOwed
  <1> QED BY <1>2, <1>4, <1>5 DEF DaemonInv

LEMMA NewServerInv == ASSUME DaemonInv, NewServer PROVE DaemonInv'
  <1> USE DEF Fails, thinVars, grpcVars
  <1>1. specs' \in Seq(Networks)
    <2>1. /\ (IF cfg.unix # Unset THEN <<"unix">> ELSE <<>>) \in Seq(Networks)
          /\ (IF cfg.tcp # Unset THEN <<"tcp">> ELSE <<>>) \in Seq(Networks)
      <3>1. "unix" \in Networks /\ "tcp" \in Networks
        BY DEF Networks
      <3>2. <<"unix">> \in Seq(Networks) /\ <<"tcp">> \in Seq(Networks) /\ <<>> \in Seq(Networks)
        BY <3>1
      <3> QED BY <3>2
    <2>2. \A s, t \in Seq(Networks) : s \o t \in Seq(Networks)
      OBVIOUS
    <2>3. specs \in Seq(Networks)
      BY DEF DaemonInv, DaemonTypes
    <2> QED BY <2>1, <2>2, <2>3 DEF NewServer
  <1>2. code' \in {0, 1} /\ lns' \subseteq Networks
    BY DEF DaemonInv, DaemonTypes, NewServer
  <1> QED BY <1>1, <1>2, ListenSteps DEF NewServer

LEMMA LoadTLSInv == ASSUME DaemonInv, LoadTLS PROVE DaemonInv'
  <1> USE DEF Fails, thinVars, grpcVars
  <1>1. code' \in {0, 1} /\ specs' \in Seq(Networks) /\ lns' \subseteq Networks
    BY DEF DaemonInv, DaemonTypes, LoadTLS
  <1> QED BY <1>1, ListenSteps DEF LoadTLS

LEMMA ListenInv == ASSUME DaemonInv, Listen PROVE DaemonInv'
  <1> USE DEF Fails, thinVars, grpcVars
  <1>1. specs \in Seq(Networks) /\ lns \subseteq Networks /\ code \in {0, 1} /\ specs # <<>>
    BY DEF DaemonInv, DaemonTypes, Listen
  <1>2. Head(specs) \in Networks /\ Tail(specs) \in Seq(Networks)
    BY <1>1, HeadTailProperties
  <1>3. code' \in {0, 1} /\ specs' \in Seq(Networks) /\ lns' \subseteq Networks
    BY <1>1, <1>2 DEF Listen
  <1> QED BY <1>3, ListenSteps DEF Listen

LEMMA ServeInv == ASSUME DaemonInv, Serve PROVE DaemonInv'
  <1> USE DEF Fails, thinVars, grpcVars
  <1>1. Ordered /\ Depth /\ Parts /\ ThinOwed /\ Loaded /\ DaemonTypes
    BY DEF DaemonInv
  <1>2. DaemonTypes' /\ Loaded'
    BY <1>1 DEF Serve, DaemonTypes, Steps, Loaded
  <1>3. /\ Len(defers) = 4 /\ stop = "no"
        /\ store # "closed" /\ session \notin {"revoked", "abandoned"}
    BY <1>1 DEF Serve, Depth, Parts, ThinOwed
  <1>4. Ordered' /\ Len(defers') = 5
    BY <1>1, <1>3, PushListeners DEF Serve
  <1>5. Depth' /\ Parts' /\ ThinOwed'
    BY <1>3, <1>4 DEF Serve, Depth, Parts, ThinOwed
  <1> QED BY <1>2, <1>4, <1>5 DEF DaemonInv

LEMMA LoadInv == ASSUME DaemonInv, LoadConfig PROVE DaemonInv'
  <1> USE DEF thinVars, grpcVars
  <1>1. Ordered /\ Depth /\ Parts /\ ThinOwed /\ DaemonTypes
    BY DEF DaemonInv
  <1>2. Len(defers) = 0
    BY <1>1 DEF LoadConfig, Depth
  <1>3. PICK file \in Files, env \in Envs, host \in Hostnames :
          LET loaded == LoadOrDefaults(file, env) IN
          \/ /\ loaded.ok
             /\ cfg' = loaded.cfg
             /\ id' = EffectiveNodeID(loaded.cfg, host)
             /\ pc' = "mkdir"
             /\ defers' = <<"root">>
             /\ UNCHANGED code
          \/ /\ ~loaded.ok
             /\ pc' = "exited"
             /\ code' = 1
             /\ UNCHANGED <<cfg, id, defers>>
    BY DEF LoadConfig
  <1>4. CASE LoadOrDefaults(file, env).ok
    <2>1. DOMAIN cfg' = DOMAIN Default /\ cfg'["ttl"] \in Int /\ Validate(cfg')
      BY <1>3, <1>4, LoadedIsValid
    <2>2. id' # Unset
      BY <1>3, <1>4, NodeHasID
    <2>3. Ordered' /\ Len(defers') = 1
      BY <1>3, <1>4, PushRoot
    <2>4. Loaded' /\ pc' = "mkdir" /\ code' = code
      BY <1>3, <1>4, <2>1, <2>2 DEF Loaded, Validate
    <2>5. DaemonTypes'
      BY <1>1, <2>1, <2>4 DEF LoadConfig, DaemonTypes, Steps
    <2>6. Depth' /\ Parts' /\ ThinOwed'
      BY <1>1, <1>2, <2>3, <2>4 DEF LoadConfig, Depth, Parts, ThinOwed
    <2> QED BY <2>3, <2>4, <2>5, <2>6 DEF DaemonInv
  <1>5. CASE ~LoadOrDefaults(file, env).ok
    <2>1. pc' = "exited" /\ code' = 1 /\ cfg' = cfg /\ defers' = defers
      BY <1>3, <1>5
    <2>2. DaemonTypes'
      BY <1>1, <2>1 DEF LoadConfig, DaemonTypes, Steps
    <2>3. Ordered' /\ Depth' /\ Parts' /\ ThinOwed' /\ Loaded'
      BY <1>1, <1>2, <2>1 DEF LoadConfig, Ordered, Depth, Parts, ThinOwed, Loaded
    <2> QED BY <2>2, <2>3 DEF DaemonInv
  <1> QED BY <1>4, <1>5

\* A step that neither defers nor runs a deferred call, nor opens or closes
\* anything: the signal, the listeners, the calls and the loop's own steps.
LEMMA AsideInv ==
    ASSUME DaemonInv, UNCHANGED <<pc, cfg, id, defers, code, store, session, stop>>,
           root' \in BOOLEAN, loopDone' \in BOOLEAN, specs' = specs,
           lns' \subseteq Networks,
           servers' \in [Networks -> {"none", "serving", "failed", "draining"}],
           calls' \in [Networks -> SUBSET Calls],
           thin' = thin \/ (/\ thin \notin {"none", "done"}
                            /\ thin' \in {"half", "idle", "tick", "done"})
    PROVE  DaemonInv'
  <1> USE DEF thinVars, grpcVars
  <1>1. Ordered /\ Depth /\ Parts /\ ThinOwed /\ Loaded /\ DaemonTypes
    BY DEF DaemonInv
  <1>2. DaemonTypes' /\ Loaded' /\ Ordered' /\ Depth' /\ Parts'
    BY <1>1 DEF DaemonTypes, Loaded, Ordered, Depth, Parts
  <1>3. ThinOwed'
    BY <1>1 DEF ThinOwed
  <1> QED BY <1>2, <1>3 DEF DaemonInv

LEMMA OthersInv ==
    ASSUME DaemonInv,
           \/ Thin \/ Signal
           \/ \E x \in Networks : ListenerFails(x)
           \/ \E x \in Networks, h \in Calls : CallBegins(x, h) \/ CallEnds(x, h)
    PROVE  DaemonInv'
  <1> USE DEF thinVars, grpcVars
  <1>1. Ordered /\ Depth /\ Parts /\ ThinOwed /\ Loaded /\ DaemonTypes
    BY DEF DaemonInv
  <1>2. CASE Thin
    <2>1. \/ thin = "spawned" /\ thin' = "half"
          \/ thin = "half" /\ thin' = "tick"
          \/ thin = "idle" /\ thin' = "tick"
          \/ thin = "tick" /\ thin' = "idle"
          \/ thin = "idle" /\ thin' = "done"
      BY <1>2 DEF Thin, ThinSetCancel, ThinSetDoneCh, ThinTick, ThinTickEnds, ThinReturns,
                  ThinMoves
    <2>2. UNCHANGED <<pc, cfg, id, defers, code, root, store, session, stop, loopDone, specs,
                      lns, servers, calls>>
      BY <1>2 DEF Thin, ThinSetCancel, ThinSetDoneCh, ThinTick, ThinTickEnds, ThinReturns,
                  ThinMoves
    <2> QED BY <1>1, <2>1, <2>2, AsideInv DEF DaemonTypes
  <1>3. CASE Signal
    BY <1>1, <1>3, AsideInv DEF Signal, DaemonTypes
  <1>4. ASSUME NEW x \in Networks, ListenerFails(x) PROVE DaemonInv'
    BY <1>1, <1>4, AsideInv DEF ListenerFails, DaemonTypes
  <1>5. ASSUME NEW x \in Networks, NEW h \in Calls, CallBegins(x, h) \/ CallEnds(x, h)
        PROVE  DaemonInv'
    BY <1>1, <1>5, AsideInv DEF CallBegins, CallEnds, DaemonTypes
  <1> QED BY <1>2, <1>3, <1>4, <1>5

LEMMA ShutdownInv == ASSUME DaemonInv, Shutdown \/ GraceOver PROVE DaemonInv'
  <1> USE DEF thinVars, grpcVars
  <1>1. Ordered /\ Depth /\ Parts /\ ThinOwed /\ Loaded /\ DaemonTypes
    BY DEF DaemonInv
  <1>2. DaemonTypes' /\ Loaded' /\ Ordered'
    BY <1>1 DEF Shutdown, GraceOver, DaemonTypes, Steps, Loaded, Ordered
  <1>3. Len(defers) = 5 /\ defers' = defers /\ stop' = stop /\ thin' = thin
    BY <1>1 DEF Shutdown, GraceOver, Depth
  <1>4. Depth' /\ Parts' /\ ThinOwed'
    BY <1>1, <1>3 DEF Shutdown, GraceOver, Depth, Parts, ThinOwed
  <1> QED BY <1>2, <1>4 DEF DaemonInv

\* The deferred calls, in the order in which they run.
LEMMA RunDeferred ==
    ASSUME Ordered, NEW n \in 1 .. 5, Deferred(Order[n]), Pop
    PROVE  pc = "unwind" /\ Len(defers) = n /\ Ordered' /\ Len(defers') = n - 1
  <1>1. pc = "unwind" /\ defers # <<>>
    BY DEF Deferred
  <1>2. Len(defers) = n
    <2>1. PICK m \in 1 .. 5 : m = Len(defers)
      BY Turn
    <2>2. Order[m] = Order[n]
      BY <2>1 DEF Deferred, Ordered
    <2> QED BY <2>1, <2>2, OrderInjective
  <1>3. Ordered' /\ Len(defers') = Len(defers) - 1
    BY <1>1, Popped
  <1> QED BY <1>1, <1>2, <1>3

LEMMA CloseListenersInv == ASSUME DaemonInv, CloseListeners PROVE DaemonInv'
  <1> USE DEF thinVars, grpcVars
  <1>1. Ordered /\ Depth /\ Parts /\ ThinOwed /\ Loaded /\ DaemonTypes
    BY DEF DaemonInv
  <1>2. pc = "unwind" /\ Len(defers) = 5 /\ Ordered' /\ Len(defers') = 4
    <2>1. 5 \in 1 .. 5 /\ Deferred(Order[5]) /\ Pop
      BY OrderIs DEF CloseListeners
    <2>2. pc = "unwind" /\ Len(defers) = 5 /\ Ordered' /\ Len(defers') = 5 - 1
      BY <1>1, <2>1, RunDeferred
    <2> QED BY <2>2
  <1>3. DaemonTypes' /\ Loaded'
    BY <1>1 DEF CloseListeners, DaemonTypes, Loaded
  <1>4. UNCHANGED <<pc, store, session, thin, stop>>
    BY DEF CloseListeners
  <1>5. Depth' /\ Parts'
    BY <1>1, <1>2, <1>4 DEF Depth, Parts
  <1>6. ThinOwed'
    BY <1>1, <1>2, <1>4 DEF ThinOwed
  <1> QED BY <1>2, <1>3, <1>5, <1>6 DEF DaemonInv

LEMMA StopThinInv == ASSUME DaemonInv, StopThin PROVE DaemonInv'
  <1> USE DEF thinVars, grpcVars
  <1>1. Ordered /\ Depth /\ Parts /\ ThinOwed /\ Loaded /\ DaemonTypes
    BY DEF DaemonInv
  <1>2. pc = "unwind" /\ Len(defers) = 4 /\ defers' = defers
    BY <1>1, Turn DEF StopThin
  <1>3. DaemonTypes' /\ Loaded' /\ Ordered' /\ Depth' /\ Parts'
    BY <1>1 DEF StopThin, CancelSet, DaemonTypes, Loaded, Ordered, Depth, Parts
  <1>4. ThinOwed'
    BY <1>1, <1>2 DEF StopThin, ThinOwed
  <1> QED BY <1>3, <1>4 DEF DaemonInv

LEMMA AwaitThinInv == ASSUME DaemonInv, AwaitThin PROVE DaemonInv'
  <1> USE DEF thinVars, grpcVars
  <1>1. Ordered /\ Depth /\ Parts /\ ThinOwed /\ Loaded /\ DaemonTypes
    BY DEF DaemonInv
  <1>2. pc = "unwind" /\ Len(defers) = 4 /\ defers # <<>>
    BY <1>1, Turn DEF AwaitThin
  <1>3. DaemonTypes' /\ Loaded'
    BY <1>1 DEF AwaitThin, DaemonTypes, Loaded
  <1>4. UNCHANGED <<pc, store, session, thin>>
    BY DEF AwaitThin
  <1>5. CASE stop' = "waits" /\ defers' = defers
    <2>1. Ordered' /\ Depth' /\ Parts'
      BY <1>1, <1>4, <1>5 DEF Ordered, Depth, Parts
    <2>2. ThinOwed'
      BY <1>1, <1>2, <1>4, <1>5 DEF ThinOwed
    <2> QED BY <1>3, <2>1, <2>2 DEF DaemonInv
  <1>6. CASE stop' = "early" /\ Pop
    <2>1. Ordered' /\ Len(defers') = 3
      BY <1>1, <1>2, <1>6, Popped
    <2>2. Depth' /\ Parts'
      BY <1>1, <1>2, <1>4, <2>1 DEF Depth, Parts
    <2>3. ThinOwed'
      BY <1>1, <1>2, <1>4, <1>6, <2>1 DEF ThinOwed
    <2> QED BY <1>3, <2>1, <2>2, <2>3 DEF DaemonInv
  <1> QED BY <1>5, <1>6 DEF AwaitThin

LEMMA ThinStoppedInv == ASSUME DaemonInv, ThinStopped PROVE DaemonInv'
  <1> USE DEF thinVars, grpcVars
  <1>1. Ordered /\ Depth /\ Parts /\ ThinOwed /\ Loaded /\ DaemonTypes
    BY DEF DaemonInv
  <1>2. pc = "unwind" /\ Len(defers) = 4 /\ Ordered' /\ Len(defers') = 3
    <2>1. 4 \in 1 .. 5 /\ Deferred(Order[4]) /\ Pop
      BY OrderIs DEF ThinStopped
    <2>2. pc = "unwind" /\ Len(defers) = 4 /\ Ordered' /\ Len(defers') = 4 - 1
      BY <1>1, <2>1, RunDeferred
    <2> QED BY <2>2
  <1>3. DaemonTypes' /\ Loaded'
    BY <1>1 DEF ThinStopped, DaemonTypes, Loaded
  <1>4. UNCHANGED <<pc, store, session>> /\ thin' = "done" /\ stop' = "returned"
    BY DEF ThinStopped
  <1>5. Depth' /\ Parts'
    BY <1>1, <1>2, <1>4 DEF Depth, Parts
  <1>6. ThinOwed'
    BY <1>2, <1>4 DEF ThinOwed
  <1> QED BY <1>2, <1>3, <1>5, <1>6 DEF DaemonInv

LEMMA CloseClusterInv == ASSUME DaemonInv, CloseCluster PROVE DaemonInv'
  <1> USE DEF thinVars, grpcVars
  <1>1. Ordered /\ Depth /\ Parts /\ ThinOwed /\ Loaded /\ DaemonTypes
    BY DEF DaemonInv
  <1>2. pc = "unwind" /\ Len(defers) = 3 /\ Ordered' /\ Len(defers') = 2
    <2>1. 3 \in 1 .. 5 /\ Deferred(Order[3]) /\ Pop
      BY OrderIs DEF CloseCluster
    <2>2. pc = "unwind" /\ Len(defers) = 3 /\ Ordered' /\ Len(defers') = 3 - 1
      BY <1>1, <2>1, RunDeferred
    <2> QED BY <2>2
  <1>3. session' \in {"none", "revoked", "abandoned"}
    BY <1>1 DEF CloseCluster, DaemonTypes
  <1>4. DaemonTypes' /\ Loaded'
    BY <1>1, <1>3 DEF CloseCluster, DaemonTypes, Loaded
  <1>5. UNCHANGED <<pc, store, thin, stop>>
    BY DEF CloseCluster
  <1>6. Depth' /\ Parts'
    BY <1>1, <1>2, <1>3, <1>5 DEF Depth, Parts
  <1>7. ThinOwed'
    BY <1>1, <1>2, <1>5 DEF ThinOwed
  <1> QED BY <1>2, <1>4, <1>6, <1>7 DEF DaemonInv

LEMMA CloseStoreInv == ASSUME DaemonInv, CloseStore PROVE DaemonInv'
  <1> USE DEF thinVars, grpcVars
  <1>1. Ordered /\ Depth /\ Parts /\ ThinOwed /\ Loaded /\ DaemonTypes
    BY DEF DaemonInv
  <1>2. pc = "unwind" /\ Len(defers) = 2 /\ Ordered' /\ Len(defers') = 1
    <2>1. 2 \in 1 .. 5 /\ Deferred(Order[2]) /\ Pop
      BY OrderIs DEF CloseStore
    <2>2. pc = "unwind" /\ Len(defers) = 2 /\ Ordered' /\ Len(defers') = 2 - 1
      BY <1>1, <2>1, RunDeferred
    <2> QED BY <2>2
  <1>3. DaemonTypes' /\ Loaded'
    BY <1>1 DEF CloseStore, DaemonTypes, Loaded
  <1>4. UNCHANGED <<pc, session, thin, stop>> /\ store' = "closed"
    BY DEF CloseStore
  <1>5. Depth' /\ Parts'
    BY <1>1, <1>2, <1>4 DEF Depth, Parts
  <1>6. ThinOwed'
    BY <1>1, <1>2, <1>4 DEF ThinOwed
  <1> QED BY <1>2, <1>3, <1>5, <1>6 DEF DaemonInv

LEMMA CancelRootInv == ASSUME DaemonInv, CancelRoot PROVE DaemonInv'
  <1> USE DEF thinVars, grpcVars
  <1>1. Ordered /\ Depth /\ Parts /\ ThinOwed /\ Loaded /\ DaemonTypes
    BY DEF DaemonInv
  <1>2. pc = "unwind" /\ Len(defers) = 1 /\ Ordered' /\ Len(defers') = 0
    <2>1. 1 \in 1 .. 5 /\ Deferred(Order[1]) /\ Pop
      BY OrderIs DEF CancelRoot
    <2>2. pc = "unwind" /\ Len(defers) = 1 /\ Ordered' /\ Len(defers') = 1 - 1
      BY <1>1, <2>1, RunDeferred
    <2> QED BY <2>2
  <1>3. DaemonTypes' /\ Loaded'
    BY <1>1 DEF CancelRoot, DaemonTypes, Loaded
  <1>4. UNCHANGED <<pc, store, session, thin, stop>>
    BY DEF CancelRoot
  <1>5. Depth' /\ Parts'
    BY <1>1, <1>2, <1>4 DEF Depth, Parts
  <1>6. ThinOwed'
    BY <1>1, <1>2, <1>4 DEF ThinOwed
  <1> QED BY <1>2, <1>3, <1>5, <1>6 DEF DaemonInv

LEMMA ExitInv == ASSUME DaemonInv, Exit PROVE DaemonInv'
  <1> USE DEF thinVars, grpcVars
  <1>1. Ordered /\ Depth /\ Parts /\ ThinOwed /\ Loaded /\ DaemonTypes
    BY DEF DaemonInv
  <1>2. Len(defers) = 0
    BY DEF Exit
  <1>3. DaemonTypes' /\ Loaded' /\ Ordered' /\ Depth' /\ Parts' /\ ThinOwed'
    BY <1>1, <1>2 DEF Exit, DaemonTypes, Steps, Loaded, Ordered, Depth, Parts, ThinOwed
  <1> QED BY <1>3 DEF DaemonInv

LEMMA DaemonInvInit == Init => DaemonInv
  <1> SUFFICES ASSUME Init PROVE DaemonInv
    OBVIOUS
  <1>1. Len(defers) = 0 /\ defers \in Seq(Names)
    BY DEF Init
  <1>2. DaemonTypes
    <2>1. specs \in Seq(Networks)
      BY DEF Init
    <2>2. pc \in Steps
      BY DEF Init, Steps
    <2>3. /\ servers \in [Networks -> {"none", "serving", "failed", "draining"}]
          /\ calls \in [Networks -> SUBSET Calls]
      BY DEF Init
    <2> QED BY <2>1, <2>2, <2>3 DEF Init, DaemonTypes
  <1>3. Ordered /\ Depth /\ Parts /\ ThinOwed /\ Loaded
    BY <1>1 DEF Init, Ordered, Depth, Parts, ThinOwed, Loaded
  <1> QED BY <1>2, <1>3 DEF DaemonInv

LEMMA DaemonInvNext == DaemonInv /\ [Next]_vars => DaemonInv'
  <1> SUFFICES ASSUME DaemonInv, [Next]_vars PROVE DaemonInv'
    OBVIOUS
  <1>1. CASE Main
    BY <1>1, LoadInv, MkStateDirInv, BackendInv, ServicesInv, NewServerInv, LoadTLSInv,
       ListenInv, ServeInv, ShutdownInv, CloseListenersInv, StopThinInv, AwaitThinInv,
       ThinStoppedInv, CloseClusterInv, CloseStoreInv, CancelRootInv, ExitInv
    DEF Main, Unwind
  <1>2. CASE UNCHANGED vars
    BY <1>2 DEF vars, thinVars, grpcVars, DaemonInv, DaemonTypes, Ordered, Depth, Parts,
                ThinOwed, Loaded
  <1> QED BY <1>1, <1>2, OthersInv DEF Next

LEMMA DaemonInvHolds == Spec => []DaemonInv
  BY DaemonInvInit, DaemonInvNext, PTL DEF Spec

\* How many calls are owed tells which.
LEMMA OwedAre ==
    ASSUME Ordered
    PROVE  /\ Len(defers) >= 2 => "store" \in Owed
           /\ Len(defers) >= 3 => "cluster" \in Owed
           /\ Len(defers) >= 4 => "thin" \in Owed
           /\ Len(defers) >= 5 <=> "listeners" \in Owed
  <1>1. PICK n \in 0 .. 5 : n = Len(defers)
    BY DepthType
  <1>2. DOMAIN defers = 1 .. n /\ \A i \in 1 .. n : defers[i] = Order[i]
    BY <1>1 DEF Ordered
  <1>3. \A x : x \in Owed <=> \E i \in 1 .. n : x = Order[i]
    BY <1>2 DEF Owed
  <1>4. /\ n >= 2 => "store" \in Owed
        /\ n >= 3 => "cluster" \in Owed
        /\ n >= 4 => "thin" \in Owed
        /\ n >= 5 => "listeners" \in Owed
    BY <1>3, OrderIs
  <1>5. ASSUME "listeners" \in Owed PROVE n >= 5
    <2>1. PICK i \in 1 .. n : "listeners" = Order[i]
      BY <1>3, <1>5
    <2>2. i \in 1 .. 5
      OBVIOUS
    <2>3. i = 5
      BY <2>1, <2>2, OrderIs
    <2> QED BY <2>3
  <1> QED BY <1>1, <1>4, <1>5

\* Every state of the daemon has its type, and what is open is owed a close
\* however far the start came.
THEOREM DaemonTypeCorrect == Spec => []DaemonTypeOK
  <1>1. DaemonInv => DaemonTypeOK
    <2> SUFFICES ASSUME DaemonInv PROVE DaemonTypeOK
      OBVIOUS
    <2>1. Ordered /\ Depth /\ Parts /\ ThinOwed /\ DaemonTypes
      BY DEF DaemonInv
    <2>2. PICK n \in 0 .. 5 : n = Len(defers)
      BY <2>1, DepthType
    <2>3. store = "open" => "store" \in Owed
      BY <2>1, OwedAre DEF Parts
    <2>4. session = "open" => "cluster" \in Owed
      BY <2>1, OwedAre DEF Parts
    <2>5. stop = "no" /\ thin # "none" => "thin" \in Owed
      <3>1. stop = "no" /\ thin # "none" => ~(n <= 3)
        BY <2>1, <2>2 DEF ThinOwed
      <3>2. ~(n <= 3) => n >= 4
        BY <2>2
      <3> QED BY <2>1, <2>2, <3>1, <3>2, OwedAre
    <2>6. pc \in {"select", "wait"} => "listeners" \in Owed
      <3>1. pc \in {"select", "wait"} => n = 5
        BY <2>1, <2>2 DEF Depth
      <3> QED BY <2>1, <2>2, <3>1, OwedAre
    <2> QED BY <2>1, <2>3, <2>4, <2>5, <2>6 DEF DaemonTypeOK, DaemonTypes, Ordered, Names
  <1> QED BY <1>1, DaemonInvHolds, PTL

\* Whatever the file and the environment say: a configuration Load accepts
\* is refused by none of the daemon's constructors.
THEOREM LoadedNeverRefused == Spec => []NeverRefused
  <1>1. DaemonInv => NeverRefused
    BY ValidIsAccepted DEF DaemonInv, Loaded, NeverRefused
  <1> QED BY <1>1, DaemonInvHolds, PTL

\* The store and the session are closed after everything that uses them, at
\* whatever step the start failed or the signal came.
THEOREM ClosedAfterUsers == Spec => []UsersGone
  <1>1. DaemonInv => UsersGone
    <2> SUFFICES ASSUME DaemonInv, store = "closed" \/ session \in {"revoked", "abandoned"}
                 PROVE  /\ "listeners" \notin Owed
                        /\ stop # "early" => thin \in {"none", "done"}
      BY DEF UsersGone
    <2>1. Ordered /\ Parts /\ ThinOwed
      BY DEF DaemonInv
    <2>2. PICK n \in 0 .. 5 : n = Len(defers)
      BY <2>1, DepthType
    <2>3. n <= 2
      BY <2>1, <2>2 DEF Parts
    <2>4. "listeners" \notin Owed
      <3>1. ~(n >= 5)
        BY <2>2, <2>3
      <3> QED BY <2>1, <2>2, <3>1, OwedAre
    <2>5. n <= 3
      BY <2>2, <2>3
    <2>6. stop # "early" => thin \in {"none", "done"}
      BY <2>1, <2>2, <2>5 DEF ThinOwed
    <2> QED BY <2>4, <2>6
  <1> QED BY <1>1, DaemonInvHolds, PTL
=============================================================================
