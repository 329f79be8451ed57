SPECIFICATION GateSpec
CONSTANTS
    Authorizers <- MCAuthorizers
    Pages <- MCPages
    Gates <- MCGates
    Tokens <- MCTokens
    Transports = {"sdk", "bridged"}
    Sinks <- MCSinks
    Nil = Nil
    MaxCalls = 2
INVARIANTS ListedIsCallable AuditMatchesOutcome
PROPERTIES GrantedIffPermitted StepUpCanHelp
