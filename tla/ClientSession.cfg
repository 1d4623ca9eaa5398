SPECIFICATION FairSpec
CONSTANTS
    MaxLogins = 3
    MaxRequests = 1
    MaxAnswers = 2
INVARIANTS
    RejoinPossible
    OfferHolds
PROPERTIES
    AttemptEnds
\* The system stops when all connections are used up and the client is off.
CHECK_DEADLOCK FALSE
