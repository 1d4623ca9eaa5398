SPECIFICATION Spec
CONSTANTS
    Decks <- MCDecks
    Followed <- MCFollowed
INVARIANTS
    ShowdownIsFair
    BestHandIsMarked
    NamesTellApart
PROPERTIES
    ImpossibleStaysImpossible
