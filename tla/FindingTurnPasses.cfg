SPECIFICATION Spec
CONSTANTS
    StartCash = 6
    FirstSmallBlind = 1
    RaiseOnHands = TRUE
    RaiseEvery = 2
    RaiseMode = "double"
    BlindsList <- MCNoBlindsList
    AfterManual = "stay"
    RaiseAbout = 1
    ActionTimeout = TRUE
    MaxBet = 7
    MaxIncidents = 0
PROPERTIES
    TurnPasses
