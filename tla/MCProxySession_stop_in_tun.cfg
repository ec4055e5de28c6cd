\* The violation of "this is the last word": a stop while the adapter is removed.
CONSTANTS
    s1 = s1
    s2 = s2
    Servers = {s1}
    Requests <- TunRequests
    AutoSwitch = FALSE
    Downloads = {}
    MaxDownloads = 1
    Faults = {}
    UserProxy = "user"
    MaxCrashRestarts = 1
    MaxTunRetries = 0
SPECIFICATION Spec
PROPERTIES StopIsFinal
