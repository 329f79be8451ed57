SPECIFICATION Spec
CONSTANTS
    Calls = {c1, c2}
    Issuers <- MCIssuers
    Audience <- MCAudience
    Verifiers <- MCVerifiers
    Keys <- MCKeys
    Tokens <- MCTokens
    ClockSkew = 1
    MaxTime = 4
INVARIANTS BoundToIssuer DroppedKeyRefused ClaimsMeetPolicy 
