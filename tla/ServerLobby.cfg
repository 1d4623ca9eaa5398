SPECIFICATION FairSpec
CONSTANTS
    MaxSessions = 2
    Names = {anna}
    NoName = NoName
    LobbyLimits = {1}
    MaxTotal = 2
    MaxPlayers = 2
INVARIANTS
    SessionsFiled
    RemovedPlayerGoes
PROPERTIES
    LateEventsReviveNobody
    EverySessionEnds
