CONSTANTS a = a  b = b  c = c  d = d
          NoServer = NoServer  news = news
          Focus = {"subscriptions"}
          FailuresBeforeWarn = 2  MaxOut = 2
          Group <- ThreeServers  Outside = {d}  Rankable = {a, b}
          UserBatches = {{a}}  MaxLatency = 1
          MaxCoreUpdates = 2  Files = {"core", "geo"}  Executable = "core"
          Subscriptions <- Subscribed  NodesOf <- ListOf
          MaxUpdates = 2  MaxIds = 3  MaxEdits = 1
          Settings <- Configured
          MaxProcesses = 3
          SharedServers <- ManyServers  PlainTexts = {"plain"}  MaxHops = 2
SPECIFICATION Spec
INVARIANT RefreshIsKept
CHECK_DEADLOCK FALSE
