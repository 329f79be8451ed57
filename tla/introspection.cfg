SPECIFICATION Spec
CONSTANTS
    Calls = {c1, c2}
    Tokens <- MCTokens
    Issuer = "iss"
    Audience <- MCAudience
    CacheSet = {TRUE, FALSE}
    Leeway = 1
    ClockSkew = 1
    HTTPTimeout = 1
    ClaimsChanged = TRUE
    MaxTime = 5
SYMMETRY Symmetry
INVARIANTS RevocationTakesHold AcceptedInTime
PROPERTY ClaimsAsIssued
