------------------------------- MODULE MCDaemon -------------------------------
(* Instances of Daemon for TLC.                                             *)
EXTENDS Daemon, TLC

\* settings on both sides of every bound of Validate, one or two at a time
Settings ==
    {<<>>, "unix" :> "", "stateDir" :> "", "enabled" :> TRUE,
     "nodeID" :> "n1", "tcp" :> ":7443",
     "tcp" :> ":7443" @@ "cert" :> "c" @@ "key" :> "k",
     "tcp" :> ":7443" @@ "cert" :> "c" @@ "key" :> "k" @@ "unix" :> ""}
    \cup {"threshold" :> t : t \in {-1, 0, 1, 99, 100}}
    \cup {"step" :> t : t \in {0, 1, 1000, 1001}}
    \cup {"poll" :> t : t \in {999, 1000}}
    \cup {"initial" :> t : t \in {0, 1}}
    \cup {"enabled" :> TRUE @@ "endpoints" :> <<"e">> @@ "ttl" :> t :
              t \in {0, 999, 1000, 1999}}
    \cup {"enabled" :> TRUE @@ "endpoints" :> <<"e">> @@ "etcdCert" :> "c"
              @@ "etcdKey" :> k : k \in {"", "k"}}

MCFiles ==
    {[state |-> "read", settings |-> s] : s \in Settings}
    \cup {[state |-> st, settings |-> <<>>] :
              st \in {"absent", "unreadable", "malformed"}}

\* nothing set; cluster mode switched on and off; the sockets switched off
MCEnvs ==
    {<<>>, "enabled" :> "yes" @@ "endpoints" :> <<"e", "">>,
     "enabled" :> "maybe" @@ "endpoints" :> <<>>, "endpoints" :> <<"", "">>,
     "unix" :> "" @@ "tcp" :> ""}
=============================================================================
