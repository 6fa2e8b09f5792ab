CONSTANTS
    s1 = s1
    s2 = s2
    c1 = c1
    c2 = c2
    w1 = w1
    w2 = w2
    w3 = w3
    r1 = r1
    o1 = o1
    None = None
    Sessions <- OneSession
    Completers <- TwoCompleters
    Writers <- OneWriter
    Sweepers <- OneSweeper
    Others = {}
    PartCount = 1
    Size <- SizeOne
    Limits = {1}
    Fragile <- OneWriter
    AckMayBeLost = TRUE
    SweepBatch = 1
    Rank <- RankOne
SPECIFICATION FairSpec
INVARIANTS OneFilePerSession
PROPERTIES NothingHeldForever ChunksRemoved
