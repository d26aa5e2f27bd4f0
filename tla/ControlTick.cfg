\* A row, a gap and a row again, or a row in each of two demonstrations.
CONSTANTS
    Matrices = {m1, m2}
    None = None
    Repeat = 4
    Settle = 28
    MaxStale = 1
    MaxSteps = 4
    MaxSurprises = 1
SPECIFICATION Spec
CHECK_DEADLOCK FALSE
INVARIANTS
    TypeOK
    RowsAreGapless
    ActionsAreFresh
    SealedIsWhole
    ResetIsNoRegression
PROPERTIES
    DrivesValidator
