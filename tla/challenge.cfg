SPECIFICATION WriterSpec
CONSTANTS
    NonceConfigured = TRUE
    RNGFails = FALSE
    Habits = {"1xx", "flush", "empty"}
    MaxOps = 5
INVARIANTS ChallengeShaped 
PROPERTY CacheControlKept
