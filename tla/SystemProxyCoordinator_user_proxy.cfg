\* The violation of the promise about the user's own proxy: no kill, no edit.
CONSTANTS
    MaxKills = 0
    MaxEdits = 0
SPECIFICATION Spec
PROPERTIES QuitReturnsUserProxy
