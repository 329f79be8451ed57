SPECIFICATION GatewaySpec
CONSTANTS
    Keys <- MCKeys
    ReplaySweepThreshold = 1
    Expiries <- MCExpiries
    MaxTime = 6
    TicksPerSecond = 2
    NonceLifetime = 3
    NonceFutureTL = 1
    Requests = {r1, r2, r3}
    Inputs <- MCInputs
    Mode = "Opportunistic"
    IATLeeway = 2
    NonceRequired = TRUE
    Unbound = "none"
    MaxDelay = 1
    Subjects = {"ann"}
    Budget = 1
SYMMETRY Symmetry
INVARIANTS SingleUseInWindow AcceptedFresh OnlyAcceptedRecorded RefusedOnlyIfUsed OnlyProvenCharged
PROPERTIES KeepsReplayPromise SweepBoundsMap
