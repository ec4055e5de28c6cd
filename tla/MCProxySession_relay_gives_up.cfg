\* The violation of "the exit above already ran its undo": the relay gave up.
CONSTANTS
    s1 = s1
    s2 = s2
    Servers = {s1}
    Requests <- RelayRequests
    AutoSwitch = FALSE
    Downloads = {}
    MaxDownloads = 1
    Faults = {}
    UserProxy = "user"
    MaxCrashRestarts = 1
    MaxTunRetries = 0
SPECIFICATION Spec
PROPERTIES FailureLetsGo
