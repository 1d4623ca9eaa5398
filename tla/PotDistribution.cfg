SPECIFICATION Spec
CONSTANTS
    N = 3
    MaxContribution = 4
    MaxValue = 3
    ShareUnit = 6
INVARIANTS
    SharesAreExact
    AllInTheHandShow
