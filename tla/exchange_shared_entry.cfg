SPECIFICATION Spec
CONSTANTS
    Nil = Nil
    Calls = {c1, c2, c3}
    Requests <- Exchanges
    Lifetimes = {3}
    Leeway = 1
    HTTPTimeout = 1
    ProviderCached = TRUE
    TokensChanged = TRUE
    MaxTime = 3
SYMMETRY Symmetry
INVARIANT EntriesAsIssued
