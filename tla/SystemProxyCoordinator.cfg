\* Two kills, two edits by the user, everything in between.
CONSTANTS
    MaxKills = 2
    MaxEdits = 2
SPECIFICATION Spec
INVARIANTS OursIsClaimed
PROPERTIES TakesOverWhenAsked QuitLetsGo LeftoverEnds
