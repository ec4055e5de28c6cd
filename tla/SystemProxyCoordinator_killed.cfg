\* The violation of the promise about killed processes: one kill is enough.
CONSTANTS
    MaxKills = 1
    MaxEdits = 0
SPECIFICATION Spec
PROPERTIES QuitAlwaysLetsGo
