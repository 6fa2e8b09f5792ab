CONSTANTS
    f1 = f1
    f2 = f2
    Files <- OneFile
    MaxAttempts = 2
    Batch = 1
    AttemptBound = 3
    RequeueBound = 1
CHECK_DEADLOCK FALSE
SPECIFICATION Spec
PROPERTIES OnlyNewestClaimSettles
