SPECIFICATION FairSpec
CONSTANTS
    c1 = c1
    c2 = c2
    r1 = r1
    r2 = r2
    k1 = k1
    t1 = t1
    d1 = d1
    d2 = d2
    NoCall = NoCall
    Calls <- MCCalls
    Keys = {k1}
    Tenants = {t1}
    Replicas = {r1}
    KeyOf <- MCKeyOf
    TenantOf <- MCTenantOf
    HomeOf <- MCOneHome
    Handled <- MCCalls
    MaxInFlight = 1
    DecisionIds = {d1, d2}
    DecisionIdOf <- MCMintedIds
    Advisory = {}
    Monetary = {}
    EntryOf <- MCReplayEntries
    Stops = {"global", "tenant"}
    Ceiling = 1
INVARIANTS
    StopIsHonoured

    
