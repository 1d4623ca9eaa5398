SPECIFICATION FairListSpec
CONSTANTS
    Players = {p1, p2}
    NoPlayer = NoPlayer
    NoEntry = NoEntry
    MaxPlayers = 2
    MaxUnderWay = 3
    MaxGames = 1
INVARIANTS
    ListIsCurrent
    SubscriptionsAgree
PROPERTIES
    ListComesBack
