CONSTANTS
    Requests = {q1, q2}
    Names = {indoor, garden}
    Numbers = {meja1, meja2}
    SeedName = indoor
    SeedNumber = meja1
    NoZone = nozone
    Keep = keep
    MaxZones = 2
    MaxTables = 2
SPECIFICATION Spec
INVARIANTS
    TypeOK
    NamesAreDistinct
    LastEditStands
    EmptiedZonesGo
SYMMETRY RequestSymmetry
CHECK_DEADLOCK FALSE
