CONSTANTS
    u1 = u1
    u2 = u2
    u3 = u3
    o1 = o1
    r1 = r1
    Uploads <- MCUploads
    Declared <- MCDeclared
    Unsure <- MCUnsure
    Others <- MCOthers
    Size <- MCSize
    Limits = {3}
    Sweepers <- OneSweeper
SPECIFICATION FairSpec
INVARIANTS TypeOK FilesHaveBytes
PROPERTIES KeepsLedger LiveUploadIsKept SuspendedGainsNothing ReservationsEnd
