SPECIFICATION Spec
CONSTANTS
    N = 1
    Arrival <- ArrivalMC
    MaxTokens <- MaxTokensMC
    PromptTokens <- PromptTokensMC
    MaxConcurrent = 2
    PrefillErrors = {400}
    Threshold = 2
    MaxTime = 1
INVARIANT
    SuccessesAreServed
