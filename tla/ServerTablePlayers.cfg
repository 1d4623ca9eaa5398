SPECIFICATION FairSpec
CONSTANTS
    StartCash = 3
    FirstSmallBlind = 1
    RaiseOnHands = TRUE
    RaiseEvery = 2
    RaiseMode = "double"
    BlindsList <- MCNoBlindsList
    AfterManual = "stay"
    RaiseAbout = 1
    ActionTimeout = TRUE
    MaxBet = 4
    MaxIncidents = 2
INVARIANTS
    OneLiveHandler
PROPERTIES
    FairPayout
    LedgerSpec
    AskedPlayerServed
    AllInRunsOut
    AbandonedGameRemoved
