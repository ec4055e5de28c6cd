\* TUN with and without the relay core, and starts that do not ask first (failover).
CONSTANTS
    s1 = s1
    s2 = s2
    Servers = {s1}
    Requests <- MixedRequests
    AutoSwitch = TRUE
    Downloads = {}
    MaxDownloads = 1
    Faults = {}
    UserProxy = "user"
    MaxCrashRestarts = 1
    MaxTunRetries = 1
SPECIFICATION Spec
INVARIANTS TypeOK NoZombieCore OneCleanup
