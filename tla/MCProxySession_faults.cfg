\* Undoing the settings fails at any time, anything may be missing; liveness too.
CONSTANTS
    s1 = s1
    s2 = s2
    Servers = {s1}
    Requests <- PlainRequests
    AutoSwitch = FALSE
    Downloads = {"core", "geo"}
    MaxDownloads = 2
    Faults = {"undo"}
    UserProxy = "user"
    MaxCrashRestarts = 1
    MaxTunRetries = 0
SPECIFICATION Spec
INVARIANTS RestorePossible LeftoverIsReported
PROPERTIES ActivationEnds StoppingEnds CrashLoopEnds
