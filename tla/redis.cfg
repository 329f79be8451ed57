SPECIFICATION Spec
CONSTANTS
    Requests = {r1, r2}
    Instances = {"A", "B"}
    Keys = {"k"}
    Proofs <- MCProofs
    Skew <- SkewSpread
    MaxSkew = 1
    IATLeeway = 4
    Millisecond = 2
    MaxRetries = 1
    FailModes = {"FailOpen", "FailClosed"}
    MaxDelay = 1
    OpTimeout = 1
    MaxTime = 8
SYMMETRY Symmetry
INVARIANTS SharedSingleUse StoreHoldsAccepted ExactlyOneFirstSight NoFalseReplay
