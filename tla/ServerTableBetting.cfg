SPECIFICATION Spec
CONSTANTS
    StartCash = 6
    FirstSmallBlind = 1
    RaiseOnHands = FALSE
    RaiseEvery = 2
    RaiseMode = "manual"
    BlindsList <- MCBlindsList
    AfterManual = "double"
    RaiseAbout = 1
    ActionTimeout = FALSE
    MaxBet = 7
    MaxIncidents = 0
INVARIANTS
    ChipConservation
    SetsInSync
    HighestSetIsHighest
    EngineNeverThrows
    NoPointlessDecision
