-------------------------------- MODULE Config --------------------------------
(***************************************************************************)
(* The daemon's configuration (internal/config): the defaults, overlaid    *)
(* with the YAML file, overlaid with the SLTV_* environment, then          *)
(* validated; and the checks the constructors of the daemon's parts repeat *)
(* on what they are given.                                                 *)
(*                                                                         *)
(* A configuration is a record with one field per setting the code decides *)
(* on; durations are milliseconds.  The libvirt URI and the log settings   *)
(* are passed through and left out.                                        *)
(***************************************************************************)
EXTENDS Integers, Sequences

\* the empty string, which is what a setting nobody gives holds
Unset == ""

\* the documented defaults
Default ==
    [unix |-> "/run/sltv/sltvd.sock", tcp |-> Unset,
     cert |-> Unset, key |-> Unset, ca |-> Unset,
     stateDir |-> "/var/lib/sltv", defaultVG |-> "vg-sltv",
     initial |-> 10, threshold |-> 10, step |-> 10, poll |-> 15000,
     enabled |-> FALSE, nodeID |-> Unset, endpoints |-> <<>>, ttl |-> 10000,
     etcdCert |-> Unset, etcdKey |-> Unset]

\* a configuration with the settings of a partial one laid over it
Overlay(base, over) ==
    [f \in DOMAIN base |-> IF f \in DOMAIN over THEN over[f] ELSE base[f]]

\* what parseBool takes for true, once trimmed and in lower case
parseBool(v) == v \in {"1", "t", "true", "y", "yes", "on"}

\* the non-empty parts of a comma-separated value
splitCSV(v) == SelectSeq(v, LAMBDA part : part # Unset)

\* The settings the environment overrides.  A variable that is set to the
\* empty string overrides too, except the endpoints.
FromEnv(env) ==
    LET used == DOMAIN env \ (IF "endpoints" \in DOMAIN env /\ env["endpoints"] = <<>>
                              THEN {"endpoints"} ELSE {})
    IN  [f \in used |-> CASE f = "enabled" -> parseBool(env[f])
                          [] f = "endpoints" -> splitCSV(env[f])
                          [] OTHER -> env[f]]

\* MUTANT of Validate: the upper bound of the threshold is left out.
ValidateNoUpper(c) ==
    /\ c.unix # Unset \/ c.tcp # Unset
    /\ c.tcp # Unset => c.cert # Unset /\ c.key # Unset
    /\ c.stateDir # Unset
    /\ c.threshold > 0
    /\ c.step > 0 /\ c.step <= 1000
    /\ c.poll >= 1000
    /\ c.initial > 0
    /\ c.enabled => c.endpoints # <<>> /\ c.ttl >= 1000

\* Config.Validate returns no error
Validate(c) ==
    /\ c.unix # Unset \/ c.tcp # Unset
    /\ c.tcp # Unset => c.cert # Unset /\ c.key # Unset
    /\ c.stateDir # Unset
    /\ c.threshold > 0 /\ c.threshold < 100
    /\ c.step > 0 /\ c.step <= 1000
    /\ c.poll >= 1000
    /\ c.initial > 0
    /\ c.enabled => c.endpoints # <<>> /\ c.ttl >= 1000

\* Load on a file (what is there: settings, or why there are none) and an
\* environment: the configuration or the reason for refusing it.
Load(file, env) ==
    LET cfg == Overlay(Overlay(Default, file.settings), FromEnv(env)) IN
    IF file.state \in {"absent", "unreadable", "malformed"}
    THEN [ok |-> FALSE, why |-> file.state]
    ELSE IF Validate(cfg) THEN [ok |-> TRUE, cfg |-> cfg]
    ELSE [ok |-> FALSE, why |-> "invalid"]

\* no file: an empty path
NoFile == [state |-> "skipped", settings |-> <<>>]

\* main: a file that does not exist is replaced by none at all.
LoadOrDefaults(file, env) ==
    IF file.state = "absent" THEN Load(NoFile, env) ELSE Load(file, env)

\* the configured id, else the host name, else a constant
EffectiveNodeID(c, hostname) ==
    CASE c.nodeID # Unset -> c.nodeID
      [] c.nodeID = Unset /\ hostname # Unset -> hostname
      [] OTHER -> "sltvd"

-----------------------------------------------------------------------------
(* What the constructors accept.                                            *)

\* cluster.NewManager; durations that are not positive get a default
AcceptsManager(c, id) == c.endpoints # <<>> /\ id # Unset

\* buildTLSConfig and LoadServerTLS load a certificate and its key together:
\* one without the other is refused.
KeyPairComplete(cert, key) == cert = Unset <=> key = Unset

\* the TTL NewManager gives the session: whole seconds
SessionTTL(c) == (IF c.ttl <= 0 THEN 10000 ELSE c.ttl) \div 1000

\* disk.New
AcceptsDisk(id) == id # Unset

\* thin.New
AcceptsThin(c, id) == c.threshold > 0 /\ c.threshold < 100 /\ c.step > 0 /\ id # Unset

\* server.New
AcceptsServer(id) == id # Unset
=============================================================================
