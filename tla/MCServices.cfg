CONSTANTS a = a  b = b  c = c  d = d
          NoServer = NoServer  news = news
          Focus = {"health", "failover", "core", "subscriptions", "config", "handover", "sharing"}
          FailuresBeforeWarn = 2  MaxOut = 2
          Group <- ThreeServers  Outside = {d}  Rankable = {a, b}
          UserBatches = {{a}}  MaxLatency = 1
          MaxCoreUpdates = 2  Files = {"core", "geo"}  Executable = "core"
          Subscriptions <- Subscribed  NodesOf <- ListOf
          MaxUpdates = 2  MaxIds = 3  MaxEdits = 1
          Settings <- Configured
          MaxProcesses = 3
          SharedServers <- ManyServers  PlainTexts = {"plain"}  MaxHops = 2
SPECIFICATION Spec
INVARIANTS WatchGoesOn WaiverCanEnd NoBatchBesideActivation ResultsReachDisk
           SwitchesAreBounded ProbeIsAnswered
           TokenIsInUse InstallsAlone SuccessIsWhole
           MarkIsUsers DefaultIsListed MemoryIsOnDisk
           NamesExist NodeIsFound OneDecision
           OneIsThere SwitchIsHonest PassedOn
\* A focus ends: every bound is reached, or the world has nothing left to do.
CHECK_DEADLOCK FALSE
