SPECIFICATION ClientSpec
CONSTANTS
    StartCash = 3
    FirstSmallBlind = 1
    RaiseOnHands = TRUE
    RaiseEvery = 1
    RaiseMode = "double"
    BlindsList <- MCNoBlindsList
    AfterManual = "stay"
    RaiseAbout = 1
    ActionTimeout = TRUE
    MaxBet = 4
    MaxIncidents = 1
    Me = 0
    MaxDown = 1
    MaxUp = 1
    MaxHands = 2
    Dealt <- MCDealt
INVARIANTS
    ClientNeverThrows
    AskedSeesTheTable
    OffersAreAccepted
PROPERTIES
    RememberedActionAsShown
