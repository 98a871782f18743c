CONSTANTS
    Tables = {t1}
    Guests = {g1}
    Orders = {o1}
    Codes = {c1, c2}
    Staff = {s1}
    Calls = {k1, k2}
    Desks = {d1}
    NoGuest = NoGuest
    NoCode = NoCode
    StaffSets <- AllStatuses
    DeskSets <- HandSets
    MaxCrashes = 1
SPECIFICATION Spec
INVARIANTS
    TypeOK
    PaidHasDate
    AckedPaymentIsKept
    ScreensCatchUp
PROPERTY
    ImplementsLedger
