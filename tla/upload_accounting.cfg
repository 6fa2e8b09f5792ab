CONSTANTS
    s1 = s1
    s2 = s2
    c1 = c1
    c2 = c2
    w1 = w1
    w2 = w2
    w3 = w3
    r1 = r1
    o1 = o1
    None = None
    Sessions <- TwoSessions
    Completers <- TwoCompleters
    Writers <- OneWriter
    Sweepers <- OneSweeper
    Others <- OneOther
    PartCount = 1
    Size <- SizeOther
    Limits = {2, 3}
    Fragile = {}
    AckMayBeLost = FALSE
    SweepBatch = 2
    Rank <- RankTwo
SYMMETRY Interchangeable
SPECIFICATION Spec
INVARIANTS CountersExact FilesHaveBytes CommitCannotFail
PROPERTIES KeepsLedger
