CONSTANTS
    espresso = espresso
    onSale = onSale
    Items <- MCItems
    Lists <- MCLists
    ListShows <- MCListShows
    Texts = {cheap, dear}
    Groups <- MCGroups
    Readers = {r1}
    Writers = {w1, w2}
    NoEntry = NoEntry
    MaxOutages = 1
    MaxCrashes = 1
SPECIFICATION FairSpec
INVARIANTS
    TypeOK
    StaleEntriesAreExcused
PROPERTY
    StaleEntriesGo
