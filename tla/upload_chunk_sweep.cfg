CONSTANTS
    s1 = s1
    s2 = s2
    c1 = c1
    c2 = c2
    w1 = w1
    w2 = w2
    w3 = w3
    r1 = r1
    o1 = o1
    None = None
    Sessions <- TwoSessions
    Completers <- OneCompleter
    Writers <- OneWriter
    Sweepers = {}
    Others = {}
    PartCount = 1
    Size <- SizeTwo
    Limits = {3}
    Fragile <- OneWriter
    AckMayBeLost = FALSE
    SweepBatch = 1
    Rank <- RankTwo
SPECIFICATION FairSpec
PROPERTIES ChunksRemoved
