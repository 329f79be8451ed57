SPECIFICATION HTTPFairSpec
CONSTANTS
    TicksPerSecond = 3
    NonceLifetime = 5
    NonceFutureTL = 1
    Settings <- MCSettings
    IATLeeway = 4
    MaxBlock = 4
    MaxRTT = 3
INVARIANTS  OneChallenge RetryAfterEnough
PROPERTY AlwaysServed
