SPECIFICATION FairSpec
CONSTANTS
    N = 3
    Arrival <- ArrivalMC
    MaxTokens <- MaxTokensMC
    PromptTokens <- PromptTokensMC
    MaxConcurrent = 2
    PrefillErrors = {400}
    Threshold = 2
    MaxTime = 1
INVARIANTS
    GateIsSound
    DueRequestsHaveSlots
    TelemetryConsistent
PROPERTY
    Terminates
