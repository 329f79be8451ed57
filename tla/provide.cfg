SPECIFICATION FairSpec
CONSTANTS
    Nil = Nil
    Calls = {c1, c2}
    Requests <- Provides
    Lifetimes = {0, 3}
    Leeway = 1
    HTTPTimeout = 1
    ProviderCached = TRUE
    TokensChanged = TRUE
    MaxTime = 1
INVARIANTS ServedOwnCaller AuditedOnce
PROPERTY CallsReturn
