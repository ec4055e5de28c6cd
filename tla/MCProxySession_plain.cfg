\* No TUN: two servers whose core may be missing, writes of the settings that fail.
CONSTANTS
    s1 = s1
    s2 = s2
    Servers = {s1, s2}
    Requests <- PlainRequests
    AutoSwitch = FALSE
    Downloads = {"core"}
    MaxDownloads = 2
    Faults = {"apply"}
    UserProxy = "user"
    MaxCrashRestarts = 1
    MaxTunRetries = 0
SPECIFICATION Spec
INVARIANTS OursHasLiveCore UserProxyKept ProxyingIsUp StoppingHasKill
PROPERTIES StopIsFinal FailureLetsGo
