SPECIFICATION Spec
CONSTANTS
    MaxSessions = 3
    Names = {anna}
    NoName = NoName
    LobbyLimits = {2}
    MaxTotal = 3
    MaxPlayers = 2
PROPERTY
    ClosedStaysClosed
CHECK_DEADLOCK FALSE
