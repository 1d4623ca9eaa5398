SPECIFICATION FairSpec
CONSTANTS
    Players = {p1, p2}
    NoPlayer = NoPlayer
    MaxPlayers = 2
    MaxJoins = 2
    MaxExpired = 1
INVARIANTS
    AdminIsUnique
    NeverOverfull
PROPERTIES
    ViewSpec
    AdminHandedOver
    StartSettles
    FullGameStarts
