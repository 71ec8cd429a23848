SPECIFICATION FairSpec
CONSTANTS
    k1 = k1
    k2 = k2
    l1 = l1
    l2 = l2
    None = None
    KeyIDs = {k1, k2}
    FirstKeys = {k1}
    FirstKey = k1
    Lookups = {l1, l2}
    CacheTTL = 1
    KidCooldown = 0
    SSMFails = TRUE
    MaxTime = 2
INVARIANTS
    KeyIInv
    EstablishedKeyAccepted
    RefreshFindsKey
PROPERTIES
    LookupsReturn
