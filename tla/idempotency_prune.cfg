CONSTANTS
    a1 = a1
    a2 = a2
    a3 = a3
    b1 = b1
    b2 = b2
    A = A
    B = B
    k1 = k1
    k2 = k2
    p1 = p1
    p2 = p2
    Nobody = Nobody
    Requests <- MCRequests
    Owners <- MCOwners
    OwnerOf <- MCOwnerOf
    Replicas <- MCReplicas
    Reach <- MCReach
    Keys <- MCKeys
    KeyOf <- MCKeyOf
    BodyOf <- MCBodyOf
    Aging = {k1}
    Slow = {A}
    Concurrency = 2
    PerOwner = 1
    MaxQueue = 2
    MaxQueuePerOwner = 1
CHECK_DEADLOCK FALSE
SPECIFICATION Spec
INVARIANTS OncePerLifetime
