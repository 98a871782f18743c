CONSTANTS
    Requests = {q1, q2}
    Slugs = {kopi, teh}
    SeedSlug = kopi
    Keep = keep
    MaxCategories = 2
    MaxItems = 1
    MaxLists = 2
SPECIFICATION Spec
INVARIANTS
    TypeOK
    LiveItemsAreListed
    GroupsOfOneList
SYMMETRY RequestSymmetry
CHECK_DEADLOCK FALSE
