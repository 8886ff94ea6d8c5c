SPECIFICATION Spec
CONSTANTS
    c1 = c1
    c2 = c2
    k1 = k1
    d1 = d1
    d2 = d2
    j1 = j1
    j2 = j2
    None = None
    Calls <- MCCalls
    DecisionOf <- MCDecisionOf
    KeyOf <- MCKeyOf
    Jobs = {j1, j2}
    MaxInFlight = 1
    SigningKeys <- MCSigningKeys
    MaxFaults = 2
SYMMETRY MCSymmetry
INVARIANTS
    
    PurgedIsCovered
    AnswersAreTrue
