SPECIFICATION DispatcherSpec
CONSTANTS
    c1 = c1
    c2 = c2
    c3 = c3
    r1 = r1
    r2 = r2
    k1 = k1
    k2 = k2
    t1 = t1
    t2 = t2
    NoCall = NoCall
    Calls <- MCCalls
    Replicas = {r1, r2}
    Tenants = {t1, t2}
    HomeOf <- MCHomeOf
    Keys = {k1}
    KeyOf <- MCKeyOf
    TenantOf <- MCTenantOf
    Handled <- MCCalls
    MaxInFlight = 1
INVARIANTS
    AtMostOncePerKey
    ExecutedIsTrue
    InFlightIsExact
PROPERTIES
    NoEffectAfterDefiniteAnswer
