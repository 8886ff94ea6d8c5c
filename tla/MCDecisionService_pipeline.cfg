SPECIFICATION Spec
CONSTANTS
    c1 = c1
    c2 = c2
    r1 = r1
    r2 = r2
    k1 = k1
    t1 = t1
    d1 = d1
    d2 = d2
    NoCall = NoCall
    Calls <- MCCalls
    Keys = {k1}
    Tenants = {t1}
    Replicas = {r1, r2}
    KeyOf <- MCKeyOf
    TenantOf <- MCTenantOf
    HomeOf <- MCHomeOf
    Handled <- MCCalls
    MaxInFlight = 1
    DecisionIds = {d1, d2}
    DecisionIdOf <- MCMintedIds
    Advisory = {c2}
    Monetary = {c1}
    EntryOf <- MCEntries
    Stops = {}
    Ceiling = 1
INVARIANTS
    EvidenceBeforeEffect
    
    OutcomesAreTrue
PROPERTY
    ImplementsContract
