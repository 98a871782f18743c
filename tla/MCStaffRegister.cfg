CONSTANTS
    Editors = {q1, q2}
    Emails = {ani, budi}
    SeedEmail = ani
    Phones = {p1}
    NoPhone = nophone
    Keep = keep
    PageSize = 1
    MaxStaff = 2
SPECIFICATION StaffSpec
INVARIANTS
    StaffTypeOK
    RefusalsAreExplained
    GrowingListIsCovered
    ShrinkingListDoesNotRepeat
SYMMETRY EditorSymmetry
CHECK_DEADLOCK FALSE
