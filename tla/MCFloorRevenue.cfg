CONSTANTS
    Tables = {t1}
    Guests = {g1}
    Orders = {o1}
    Codes = {c1}
    Staff = {s1}
    Calls = {k1}
    Desks = {}
    NoGuest = NoGuest
    NoCode = NoCode
    StaffSets <- ServingSets
    DeskSets <- NoStatuses
    MaxCrashes = 0
SPECIFICATION Spec
INVARIANT
    ServedOrdersAreRevenue
