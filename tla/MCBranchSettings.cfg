CONSTANTS
    Requests = {q1, q2}
    Modes = {shift_driven, emergency}
    SeedMode = shift_driven
    Keep = keep
    DefaultCodes <- MCDefaultCodes
    AdminCodes <- MCAdminCodes
    MaxShifts = 4
SPECIFICATION Spec
INVARIANTS
    TypeOK
    RowsPerReader
    LastChoiceStands
    DefaultsArrive
PROPERTY
    AutoSeedSpares
SYMMETRY RequestSymmetry
CHECK_DEADLOCK FALSE
