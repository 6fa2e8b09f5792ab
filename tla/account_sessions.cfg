CONSTANTS
    v1 = v1
    Tasks = {r1, l1, l2}
    Registrations = {r1}
    Workers = {w1, w2}
    Visits = {v1, v2}
    Creators = {v1}
    Gets = {g1,g2}
    GetOf <- MCGetOf
    Idle = Idle
    Size = 1
    MaxQueue = 1
    MaxVersion = 2
CHECK_DEADLOCK FALSE
SPECIFICATION FairSpec
INVARIANTS CallsAreHeld NoStaleLogin NoStaleDownload OneStartPerSession
PROPERTIES LoginsAreAnswered
