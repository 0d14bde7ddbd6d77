SPECIFICATION Spec
CONSTANTS
    Files <- MCFiles
    Envs <- MCEnvs
    Hostnames = {"h", ""}
    Calls = {"c1", "c2"}
INVARIANTS
    DaemonTypeOK
    
    UsersGone
PROPERTY ShutdownEnds
CHECK_DEADLOCK FALSE
