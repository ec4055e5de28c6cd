\* The violation of "retires itself": a geo worker of an earlier activation.
CONSTANTS
    s1 = s1
    s2 = s2
    Servers = {s1}
    Requests <- OneRequest
    AutoSwitch = FALSE
    Downloads = {"geo"}
    MaxDownloads = 2
    Faults = {}
    UserProxy = "user"
    MaxCrashRestarts = 1
    MaxTunRetries = 0
SPECIFICATION Spec
INVARIANTS NoZombieCore
